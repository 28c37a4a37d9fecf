--------------------------- MODULE CookCountyProofs ---------------------------
(***************************************************************************)
(* Machine-checked safety of CookCounty for every rule tables, exports and *)
(* releases: what a run publishes is what the recorded exports say under   *)
(* the tables in force, and it claims no more than they do.                *)
(***************************************************************************)
EXTENDS CookCounty, WellFoundedInduction, TLAPS

-----------------------------------------------------------------------------
(* Sequences, numbers and records.                                         *)

\* The five exports, in the order of a run.
LEMMA FiveFiles ==
  /\ Len(Files) = 5
  /\ \A i \in 1..5 : Files[i] \in File
  /\ \A f \in File : \E i \in 1..5 : Files[i] = f
  /\ \A i, j \in 1..5 : Files[i] = Files[j] => i = j
  /\ "intake" \in File
BY DEF Files, File, ToSet

\* A bounded set of numbers has a largest one.
LEMMA LargestExists ==
  ASSUME NEW n \in Nat, NEW S \in SUBSET Nat, S # {}, \A x \in S : x <= n
  PROVE  \E x \in S : \A y \in S : x >= y
<1> DEFINE T == {m \in Nat : \E x \in S : m = n - x}
<1>1. T \subseteq Nat /\ T # {}
  <2>1. PICK x \in S : TRUE
    OBVIOUS
  <2>2. n - x \in T
    BY <2>1
  <2> QED
    BY <2>2
<1>2. \E m \in T : \A k \in T : ~(<<k, m>> \in OpToRel(<, Nat))
  BY <1>1, NatLessThanWellFounded, WFMin
<1>3. PICK m \in T : \A k \in T : ~(<<k, m>> \in OpToRel(<, Nat))
  BY <1>2
<1>4. PICK x \in S : m = n - x
  BY <1>3
<1>5. ASSUME NEW y \in S
      PROVE  x >= y
  <2>1. n - y \in T
    OBVIOUS
  <2>2. ~(n - y < m)
    BY <2>1, <1>3, <1>1 DEF OpToRel
  <2> QED
    BY <2>2, <1>4
<1> QED
  BY <1>5

\* _latest_record: the largest release recorded, or none.
LEMMA LatestRelease ==
  ASSUME NEW records, NEW file, NEW n \in Nat,
         DOMAIN records[file] \subseteq Nat, \A x \in DOMAIN records[file] : x <= n
  PROVE  /\ Latest(records, file) \in {0} \cup DOMAIN records[file]
         /\ \A x \in DOMAIN records[file] : x <= Latest(records, file)
         /\ Latest(records, file) \in Nat
<1> DEFINE S == {0} \cup DOMAIN records[file]
<1>1. S \in SUBSET Nat /\ S # {} /\ \A x \in S : x <= n
  OBVIOUS
<1>2. \E x \in S : \A y \in S : x >= y
  BY ONLY <1>1, LargestExists, n \in Nat
<1>3. Max(S) \in S /\ \A y \in S : Max(S) >= y
  BY <1>2 DEF Max
<1>4. Latest(records, file) = Max(S)
  BY DEF Latest
<1> QED
  BY <1>1, <1>3, <1>4

\* The merge of two functions: the left one wins.
LEMMA Merged ==
  ASSUME NEW f, NEW g
  PROVE  /\ DOMAIN Over(f, g) = DOMAIN f \cup DOMAIN g
         /\ \A x \in DOMAIN f : Over(f, g)[x] = f[x]
         /\ \A x \in DOMAIN g : x \notin DOMAIN f => Over(f, g)[x] = g[x]
         /\ Over(f, g) = [x \in DOMAIN f \cup DOMAIN g |-> Over(f, g)[x]]
BY DEF Over

\* An entry of a table that is looked up is one of its entries, or the fallback.
LEMMA EntryOrListed ==
  ASSUME NEW table, NEW key, NEW fallback
  PROVE  \/ EntryOr(table, key, fallback) \in Entries(table)
         \/ EntryOr(table, key, fallback) = fallback
<1>1. CASE key \in Keys(table)
  <2>1. \E entry \in Entries(table) : entry.key = key
    BY <1>1 DEF Keys, Entries
  <2>2. \E entry \in Listed(table, key) : TRUE
    BY <2>1 DEF Listed
  <2>3. The(Listed(table, key)) \in Listed(table, key)
    BY <2>2 DEF The
  <2> QED
    BY <1>1, <2>3 DEF EntryOr, Listed
<1>2. CASE key \notin Keys(table)
  BY <1>2 DEF EntryOr, The
<1> QED
  BY <1>1, <1>2

-----------------------------------------------------------------------------
(* What a case's drafts claim.                                             *)

\* A row that is the child of its case: its case is the case's key, and it has the columns given.
LEMMA Children ==
  ASSUME NEW c, NEW p, NEW judge, NEW cols, "case" \notin DOMAIN cols
  PROVE  /\ Child(c, p, judge, cols).case = c.key
         /\ \A x \in DOMAIN cols \ {"person", "judge"} :
              Child(c, p, judge, cols)[x] = cols[x]
         /\ DOMAIN Child(c, p, judge, cols) = {"case", "person", "judge"} \cup DOMAIN cols
BY DEF Child, Over

\* An act of a non-judicial actor is not discretionary, an unknown actor's unknown.
Honest(r) ==
  /\ r.actor \in NonJudicialActors => r.discretion = "non_judicial"
  /\ r.actor = Unknown => r.discretion = Unknown
\* Neither a detained bond nor a monetary one is a release.
Releasing(cols) == cols.releaseAt # NoDate => ~cols.detained /\ cols.release # "monetary_bond"

\* The rules that a decision is read by are honest in accepted tables.
LEMMA RulesHonest ==
  ASSUME NEW t, ValidTables(t)
  PROVE  /\ \A key : Honest(ReviewRule(t, key))
         /\ \A key : Honest(ProgramRule(t, key))
         /\ \A r \in Entries(t.bonds) : ValidBond(r)
<1>1. \A r \in Entries(t.reviews) \cup {t.reviewFallback} : Attributed(r)
  BY DEF ValidTables, ValidReviews
<1>2. \A r \in Entries(t.programs) \cup {t.programFallback} : Attributed(r)
  BY DEF ValidTables, ValidPrograms
<1>3. \A key : ReviewRule(t, key) \in Entries(t.reviews) \cup {t.reviewFallback}
  BY EntryOrListed DEF ReviewRule
<1>4. \A key : ProgramRule(t, key) \in Entries(t.programs) \cup {t.programFallback}
  BY EntryOrListed DEF ProgramRule
<1>5. \A r \in Entries(t.bonds) : ValidBond(r)
  BY DEF ValidTables, ValidPretrial
<1>6. \A r : Attributed(r) => Honest(r)
  BY DEF Attributed, Honest
<1> QED
  BY <1>1, <1>2, <1>3, <1>4, <1>5, <1>6

\* A decision has its rule's actor and discretion, and no release of its own.
LEMMA DecisionColumns ==
  ASSUME NEW c, NEW p, NEW type, NEW at, NEW outcome, NEW rule
  PROVE  /\ Decision(c, p, type, at, outcome, rule).actor = rule.actor
         /\ Decision(c, p, type, at, outcome, rule).discretion = rule.discretion
         /\ DOMAIN Decision(c, p, type, at, outcome, rule) =
              {"case", "person", "judge", "type", "at", "outcome", "actor", "discretion"}
<1> DEFINE cols == [type |-> type, at |-> at, outcome |-> outcome, actor |-> rule.actor,
                    discretion |-> rule.discretion]
<1>1. DOMAIN cols = {"type", "at", "outcome", "actor", "discretion"}
  OBVIOUS
<1>2. cols.actor = rule.actor /\ cols.discretion = rule.discretion
  OBVIOUS
<1>3. Decision(c, p, type, at, outcome, rule) = Child(c, p, Blank, cols)
  BY DEF Decision
<1>4. PICK given : given = cols
  OBVIOUS
<1>5. /\ DOMAIN given = {"type", "at", "outcome", "actor", "discretion"}
      /\ given.actor = rule.actor /\ given.discretion = rule.discretion
      /\ Decision(c, p, type, at, outcome, rule) = Child(c, p, Blank, given)
  BY <1>1, <1>2, <1>3, <1>4
<1> HIDE DEF cols
<1>6. /\ \A x \in DOMAIN given \ {"person", "judge"} : Child(c, p, Blank, given)[x] = given[x]
      /\ DOMAIN Child(c, p, Blank, given) = {"case", "person", "judge"} \cup DOMAIN given
  <2>1. "case" \notin DOMAIN given
    BY <1>5
  <2> QED
    BY <2>1 DEF Child, Over
<1> QED
  BY <1>5, <1>6

\* Every decision drafted of a case claims no more than its rule.
LEMMA DecisionsHonest ==
  ASSUME NEW c, ValidTables(c.t), NEW d \in DraftsOfKind(c, "decision")
  PROVE  /\ Honest(d.cols)
         /\ "release" \in DOMAIN d.cols => Releasing(d.cols)
<1>1. CASE d \in ChargingDecisions(c)
  <2> DEFINE first(p) == Reviewed(c, p)[1]
  <2>1. PICK p \in People(c) :
           d.cols = Decision(c, p, "charging", first(p).row.reviewAt,
                             ReviewRule(c.t, first(p).row.review).outcome,
                             ReviewRule(c.t, first(p).row.review))
    BY <1>1 DEF ChargingDecisions, Draft
  <2>2. PICK rule : rule = ReviewRule(c.t, first(p).row.review)
    OBVIOUS
  <2>3. Honest(rule)
    BY <2>2, RulesHonest
  <2>4. /\ d.cols.actor = rule.actor /\ d.cols.discretion = rule.discretion
        /\ "release" \notin DOMAIN d.cols
    BY <2>1, <2>2, DecisionColumns
  <2> QED
    BY <2>3, <2>4 DEF Honest
<1>2. CASE d \in DiversionDecisions(c)
  <2>1. PICK p, type, at, outcome, key :
           d.cols = Decision(c, p, type, at, outcome, ProgramRule(c.t, key))
    BY <1>2 DEF DiversionDecisions, Draft
  <2> QED
    BY <2>1, RulesHonest, DecisionColumns DEF Honest
<1>3. CASE d \in BondDecisions(c)
  <2> DEFINE Terms(rule, at, monitored) ==
               [release |-> rule.release, detained |-> rule.detained,
                releaseAt |-> IF rule.releases THEN at ELSE NoDate, monitored |-> monitored]
  <2> DEFINE bond(p)  == Bonded(c, p)[1]
             rules(p) == BondRules(c.t, bond(p).bond, Day(bond(p).bondAt))
  <2>1. PICK p \in People(c) :
           /\ rules(p) # {}
           /\ d.cols = Over(Decision(c, p, "pretrial_release", bond(p).bondAt, bond(p).bond,
                                     The(rules(p))),
                            Terms(The(rules(p)), bond(p).bondAt, Monitored(c.t, bond(p).monitor)))
    BY <1>3 DEF BondDecisions, Draft
  <2>2. PICK rule, at, outcome, monitored :
           /\ rule = The(rules(p)) /\ at = bond(p).bondAt /\ outcome = bond(p).bond
           /\ monitored = Monitored(c.t, bond(p).monitor)
    OBVIOUS
  <2>3. rule \in Entries(c.t.bonds)
    BY <2>1, <2>2 DEF The, BondRules, Listed
  <2>4. ValidBond(rule)
    BY <2>3, RulesHonest
  <2>5. PICK own : own = Decision(c, p, "pretrial_release", at, outcome, rule)
    OBVIOUS
  <2>6. /\ own.actor = rule.actor /\ own.discretion = rule.discretion
        /\ DOMAIN own = {"case", "person", "judge", "type", "at", "outcome", "actor", "discretion"}
    BY <2>5, DecisionColumns
  <2>7. PICK terms : terms = Terms(rule, at, monitored)
    OBVIOUS
  <2>8. /\ DOMAIN terms = {"release", "detained", "releaseAt", "monitored"}
        /\ terms.release = rule.release /\ terms.detained = rule.detained
        /\ terms.releaseAt # NoDate => rule.releases
    BY <2>7
  <2>9. d.cols = Over(own, terms)
    BY <2>1, <2>2, <2>5, <2>7
  <2>10. /\ d.cols.actor = rule.actor /\ d.cols.discretion = rule.discretion
         /\ d.cols.release = terms.release /\ d.cols.detained = terms.detained
         /\ d.cols.releaseAt = terms.releaseAt
    BY <2>6, <2>8, <2>9 DEF Over
  <2> QED
    BY <2>4, <2>8, <2>10 DEF ValidBond, Attributed, Honest, Releasing
<1> QED
  BY <1>1, <1>2, <1>3 DEF DraftsOfKind

\* The rule of a disposition is final exactly when its disposition is.
LEMMA DispositionsValid ==
  ASSUME NEW t, ValidTables(t), NEW disposition, NEW reason
  PROVE  ValidDisposition(DispositionRule(t, disposition, reason))
<1> DEFINE any == EntryOr(t.dispositions, <<disposition, "*">>, t.fallback)
<1>1. \A r \in Entries(t.dispositions) \cup {t.fallback} : ValidDisposition(r)
  BY DEF ValidTables, ValidDispositions
<1>2. any \in Entries(t.dispositions) \cup {t.fallback}
  BY EntryOrListed
<1>3. \/ DispositionRule(t, disposition, reason) \in Entries(t.dispositions)
      \/ DispositionRule(t, disposition, reason) = any
  BY EntryOrListed DEF DispositionRule
<1> QED
  BY <1>1, <1>2, <1>3

\* A charge is decided exactly when an export of the courts has its version.
LEMMA DecidedVersions ==
  ASSUME NEW c, NEW v
  PROVE  /\ ChargeOf(c, v).decided <=> Disposed(c, v)
         /\ ChargeOf(c, v).participant = v[1] /\ ChargeOf(c, v).charge = v[2]
<1>1. HomeOfVersion(c, v) # "initiation" <=> Disposed(c, v)
  BY DEF HomeOfVersion, Disposed, CourtFiles
<1>2. /\ ChargeOf(c, v).decided = (HomeOfVersion(c, v) # "initiation")
      /\ ChargeOf(c, v).participant = v[1] /\ ChargeOf(c, v).charge = v[2]
  BY DEF ChargeOf
<1> QED
  BY <1>1, <1>2

Ended == Vocabulary["final_charge_disposition"] \cup {"superseded", "transferred"}
\* A charge that has ended was decided, with a disposition that ends a charge.
LEMMA EndedCharges ==
  ASSUME NEW c, ValidTables(c.t), NEW v, ChargeOf(c, v).decided, ChargeOf(c, v).ended
  PROVE  ChargeOf(c, v).disposition \in Ended
<1> DEFINE home   == HomeOfVersion(c, v)
           source == VersionRows(c, home, v)[1]
<1>1. PICK rule : rule = DispositionRule(c.t, source.disposition, source.reason)
  OBVIOUS
<1>2. ValidDisposition(rule)
  BY <1>1, DispositionsValid
<1>3. /\ ChargeOf(c, v).decided = (home # "initiation")
      /\ ChargeOf(c, v).disposition = IF home # "initiation" THEN rule.disposition ELSE Blank
      /\ ChargeOf(c, v).ended =
           (home # "initiation" /\ (rule.final \/ rule.disposition \in {"superseded", "transferred"}))
  BY <1>1 DEF ChargeOf
<1>4. /\ ChargeOf(c, v).disposition = rule.disposition
      /\ rule.final \/ rule.disposition \in {"superseded", "transferred"}
  BY <1>3
<1> QED
  BY <1>2, <1>4 DEF ValidDisposition, Ended

\* A closed case has no charge left that has not ended: an undecided one beside a decided
\* version of the same charge was replaced.
LEMMA ClosedCharges ==
  ASSUME NEW c, ValidTables(c.t), Closed(c), NEW h \in Charges(c)
  PROVE  h.disposition \in Ended
<1>1. PICK v \in Versions(c) : ~Replaced(c, v) /\ h = ChargeOf(c, v)
  BY DEF Charges
<1>2. PICK k \in Charges(c) : k.participant = h.participant /\ k.charge = h.charge /\ k.decided
  BY DEF Closed
<1>3. PICK w \in Versions(c) : k = ChargeOf(c, w)
  BY <1>2 DEF Charges
<1>4. w[1] = v[1] /\ w[2] = v[2] /\ Disposed(c, w)
  BY <1>1, <1>2, <1>3, DecidedVersions
<1>5. Disposed(c, v)
  BY <1>1, <1>4 DEF Replaced
<1>6. h.decided
  BY <1>1, <1>5, DecidedVersions
<1>7. h.ended
  BY <1>6 DEF Closed
<1> QED
  BY <1>1, <1>6, <1>7, EndedCharges

\* A charge's draft is a charge of its case, with its disposition.
LEMMA ChargesDrafted ==
  ASSUME NEW c, NEW e \in DraftsOfKind(c, "charge")
  PROVE  \E h \in Charges(c) : e.cols.disposition = h.disposition /\ e.cols.case = c.key
<1> DEFINE Columns(h) ==
             [category |-> The(OffenseCategory(c.t, CategoryValue(h.source))),
              severity |-> The(Severity(c.t, h.source.class)),
              filed |-> c.filed, at |-> h.at, disposition |-> h.disposition, actor |-> h.actor]
<1>1. PICK h \in Charges(c) : e.cols = Child(c, h.participant, h.judge, Columns(h))
  BY DEF DraftsOfKind, ChargeDrafts, Draft
<1>2. PICK cols : cols = Columns(h)
  OBVIOUS
<1>3. "disposition" \in DOMAIN cols /\ cols.disposition = h.disposition /\ "case" \notin DOMAIN cols
  BY <1>2
<1>4. e.cols = Child(c, h.participant, h.judge, cols)
  BY <1>1, <1>2
<1> QED
  BY <1>3, <1>4 DEF Child, Over

\* A case drafted as closed has only charges drafted that have ended.
LEMMA ClosedDrafts ==
  ASSUME NEW c, ValidTables(c.t),
         NEW d \in DraftsOfKind(c, "case"), d.cols.status = "closed",
         NEW e \in DraftsOfKind(c, "charge")
  PROVE  e.cols.disposition \in Ended
<1>1. Closed(c)
  BY DEF DraftsOfKind, CaseDrafts, Draft
<1>2. PICK h \in Charges(c) : e.cols.disposition = h.disposition
  BY ChargesDrafted
<1> QED
  BY <1>1, <1>2, ClosedCharges

\* The drafts of a case name it: its own by key, its charges in a column.
LEMMA CaseOfDrafts ==
  ASSUME NEW c
  PROVE  /\ \A d \in DraftsOfKind(c, "case") : d.key = c.key
         /\ \A e \in DraftsOfKind(c, "charge") : e.cols.case = c.key
<1>1. \A d \in DraftsOfKind(c, "case") : d.key = c.key
  BY DEF DraftsOfKind, CaseDrafts, Draft
<1>2. ASSUME NEW e \in DraftsOfKind(c, "charge")
      PROVE  e.cols.case = c.key
  BY ChargesDrafted
<1> QED
  BY <1>1, <1>2
-----------------------------------------------------------------------------
(* What the drafts of a corpus are.                                        *)

\* A draft of a corpus is tagged with its kind; it is a reference draft, or one of the case of
\* a case number, read under the same tables.
LEMMA DraftsOfCorpus ==
  ASSUME NEW t, NEW frames, NEW kept, kept = Deduplicated(Parsed(t, frames)), NEW e \in kept
  PROVE  /\ e = <<e[1], e[2]>>
         /\ e \in UNION {b.drafts : b \in Parsed(t, frames)}
         /\ \/ e[1] \in {"jurisdiction", "court", "judge", "judge_service"}
            \/ \E n \in CaseNumbers(frames) :
                 /\ e[1] \in CaseKinds
                 /\ e[2] \in DraftsOfKind(CaseOf(t, n, RowsOfCase(frames, n)), e[1])
<1>1. PICK b \in Parsed(t, frames) : e \in b.drafts
  BY DEF Deduplicated
<1>2. ASSUME NEW drafts, NEW number, b = Batch(number, drafts)
      PROVE  \E kind \in DOMAIN drafts : e \in {kind} \X drafts[kind]
  BY <1>1, <1>2 DEF Batch, Tagged
<1>3. CASE b = Batch(Blank, ReferenceDrafts(t, frames))
  <2>1. DOMAIN ReferenceDrafts(t, frames) = {"jurisdiction", "court", "judge", "judge_service"}
    BY DEF ReferenceDrafts
  <2>2. PICK kind \in DOMAIN ReferenceDrafts(t, frames) :
          e \in {kind} \X ReferenceDrafts(t, frames)[kind]
    BY <1>2, <1>3
  <2> QED
    BY <1>1, <2>1, <2>2
<1>4. ASSUME NEW n \in CaseNumbers(frames),
             b = Batch(n, BuildCase(t, n, RowsOfCase(frames, n)))
      PROVE  /\ e = <<e[1], e[2]>>
             /\ e[1] \in CaseKinds
             /\ e[2] \in DraftsOfKind(CaseOf(t, n, RowsOfCase(frames, n)), e[1])
  <2>1. PICK c : c = CaseOf(t, n, RowsOfCase(frames, n))
    OBVIOUS
  <2>2. BuildCase(t, n, RowsOfCase(frames, n)) = DraftsOfCase(c)
    BY <2>1 DEF BuildCase
  <2>3. PICK kind \in DOMAIN DraftsOfCase(c) : e \in {kind} \X DraftsOfCase(c)[kind]
    BY <1>2, <1>4, <2>2
  <2>4. DOMAIN DraftsOfCase(c) = CaseKinds /\ DraftsOfCase(c)[kind] \subseteq DraftsOfKind(c, kind)
    BY <2>3 DEF DraftsOfCase
  <2> QED
    BY <2>1, <2>3, <2>4
<1>5. \/ b = Batch(Blank, ReferenceDrafts(t, frames))
      \/ \E n \in CaseNumbers(frames) : b = Batch(n, BuildCase(t, n, RowsOfCase(frames, n)))
  BY <1>1 DEF Parsed
<1> QED
  BY <1>1, <1>3, <1>4, <1>5

\* A case keeps the tables it is read by, and its key names it.
LEMMA CaseNamed ==
  ASSUME NEW t, NEW n, NEW rows
  PROVE  CaseOf(t, n, rows).t = t /\ CaseOf(t, n, rows).key[2] = n
BY DEF CaseOf

\* What an edition and a vector of releases are parsed into.
Batches(corpus) == Parsed(Editions[corpus.edition], Frames(Delivered(corpus.releases)))

\* A corpus is drawn from accepted tables, and is the only one of its edition and releases.
LEMMA CorpusDrawn ==
  /\ \A corpus \in Corpora :
       /\ corpus.edition \in ValidEdition /\ corpus.releases \in ReleaseVector
       /\ corpus.drafts = Deduplicated(Batches(corpus))
       /\ corpus.conflicts = Conflicts(Batches(corpus), corpus.drafts)
  /\ \A a, b \in Corpora : a.edition = b.edition /\ a.releases = b.releases => a = b
  /\ \A e \in ValidEdition, v \in ReleaseVector :
       Corpus(e, v) \in Corpora /\ Corpus(e, v).edition = e /\ Corpus(e, v).releases = v
<1>1. ASSUME NEW e, NEW v, NEW corpus, corpus = DerivedCorpus(e, v, Frames(Delivered(v)))
      PROVE  /\ corpus.edition = e /\ corpus.releases = v
             /\ corpus.drafts = Deduplicated(Batches(corpus))
             /\ corpus.conflicts = Conflicts(Batches(corpus), corpus.drafts)
  <2>1. PICK parsed : parsed = Parsed(Editions[e], Frames(Delivered(v)))
    OBVIOUS
  <2>2. PICK findings : corpus = CorpusOf(e, v, parsed, Deduplicated(parsed), findings)
    BY <1>1, <2>1 DEF DerivedCorpus, ParsedCorpus
  <2>3. /\ corpus.edition = e /\ corpus.releases = v /\ corpus.drafts = Deduplicated(parsed)
        /\ corpus.conflicts = Conflicts(parsed, Deduplicated(parsed))
    BY <2>2 DEF CorpusOf
  <2>4. parsed = Batches(corpus)
    BY <2>1, <2>3 DEF Batches
  <2> QED
    BY <2>3, <2>4
<1>2. \A corpus \in Corpora : \E e \in ValidEdition, v \in ReleaseVector :
        corpus = DerivedCorpus(e, v, Frames(Delivered(v)))
  BY DEF Corpora
<1>3. \A e \in ValidEdition, v \in ReleaseVector :
        DerivedCorpus(e, v, Frames(Delivered(v))) \in Corpora
  BY DEF Corpora
<1>4. ASSUME NEW e \in ValidEdition, NEW v \in ReleaseVector
      PROVE  Corpus(e, v) \in Corpora /\ Corpus(e, v).edition = e /\ Corpus(e, v).releases = v
  <2>1. PICK corpus \in Corpora : corpus.edition = e /\ corpus.releases = v
    BY <1>1, <1>3
  <2> QED
    BY <2>1 DEF Corpus
<1>5. ASSUME NEW a \in Corpora, NEW b \in Corpora, a.edition = b.edition, a.releases = b.releases
      PROVE  a = b
  <2>1. PICK e1, v1 : a = DerivedCorpus(e1, v1, Frames(Delivered(v1)))
    BY <1>2
  <2>2. PICK e2, v2 : b = DerivedCorpus(e2, v2, Frames(Delivered(v2)))
    BY <1>2
  <2>3. e1 = e2 /\ v1 = v2
    BY <2>1, <2>2, <1>1, <1>5
  <2> QED
    BY <2>1, <2>2, <2>3
<1>6. ASSUME NEW corpus \in Corpora
      PROVE  /\ corpus.edition \in ValidEdition /\ corpus.releases \in ReleaseVector
             /\ corpus.drafts = Deduplicated(Batches(corpus))
             /\ corpus.conflicts = Conflicts(Batches(corpus), corpus.drafts)
  <2>1. PICK e \in ValidEdition, v \in ReleaseVector :
          corpus = DerivedCorpus(e, v, Frames(Delivered(v)))
    BY <1>2
  <2> QED
    BY <2>1, <1>1
<1> QED
  BY <1>4, <1>5, <1>6

\* The drafts of a corpus: pairs of a kind and a draft, none of a pretrial-release row, and
\* its decisions claim no more than the accepted tables let them.
LEMMA CorpusHonest ==
  ASSUME NEW corpus \in Corpora, NEW e \in corpus.drafts
  PROVE  /\ e = <<e[1], e[2]>> /\ e[1] # "pretrial_release"
         /\ e \in UNION {b.drafts : b \in Batches(corpus)}
         /\ e[1] = "decision" =>
              Honest(e[2].cols) /\ ("release" \in DOMAIN e[2].cols => Releasing(e[2].cols))
<1>1. PICK t, frames : /\ t = Editions[corpus.edition]
                       /\ frames = Frames(Delivered(corpus.releases))
  OBVIOUS
<1>2. ValidTables(t)
  BY <1>1, CorpusDrawn DEF ValidEdition
<1>3. PICK kept : kept = corpus.drafts
  OBVIOUS
<1>4. kept = Deduplicated(Parsed(t, frames)) /\ e \in kept /\ Batches(corpus) = Parsed(t, frames)
  BY <1>1, <1>3, CorpusDrawn DEF Batches
<1>5. /\ e = <<e[1], e[2]>>
      /\ e \in UNION {b.drafts : b \in Parsed(t, frames)}
      /\ \/ e[1] \in {"jurisdiction", "court", "judge", "judge_service"}
         \/ \E n \in CaseNumbers(frames) :
              /\ e[1] \in CaseKinds
              /\ e[2] \in DraftsOfKind(CaseOf(t, n, RowsOfCase(frames, n)), e[1])
  BY <1>4, DraftsOfCorpus
<1>6. CASE e[1] \in {"jurisdiction", "court", "judge", "judge_service"}
  BY <1>4, <1>5, <1>6
<1>7. CASE \E n \in CaseNumbers(frames) :
              /\ e[1] \in CaseKinds
              /\ e[2] \in DraftsOfKind(CaseOf(t, n, RowsOfCase(frames, n)), e[1])
  <2>1. PICK n \in CaseNumbers(frames) :
              /\ e[1] \in CaseKinds
              /\ e[2] \in DraftsOfKind(CaseOf(t, n, RowsOfCase(frames, n)), e[1])
    BY <1>7
  <2>2. PICK c : c = CaseOf(t, n, RowsOfCase(frames, n))
    OBVIOUS
  <2>3. ValidTables(c.t)
    BY <1>2, <2>2, CaseNamed
  <2>4. e[1] = "decision" =>
          Honest(e[2].cols) /\ ("release" \in DOMAIN e[2].cols => Releasing(e[2].cols))
    BY <2>1, <2>2, <2>3, DecisionsHonest
  <2>5. e[1] # "pretrial_release"
    BY <2>1 DEF CaseKinds
  <2> QED
    BY <1>4, <1>5, <2>4, <2>5
<1> QED
  BY <1>5, <1>6, <1>7

\* A case of a corpus that is closed has only charges that have ended.
LEMMA CorpusClosed ==
  ASSUME NEW corpus \in Corpora,
         NEW case \in OfKind(corpus.drafts, "case"), case.cols.status = "closed",
         NEW charge \in OfKind(corpus.drafts, "charge"), charge.cols.case = case.key
  PROVE  charge.cols.disposition \in Ended
<1>1. PICK t, frames : /\ t = Editions[corpus.edition]
                       /\ frames = Frames(Delivered(corpus.releases))
  OBVIOUS
<1>2. ValidTables(t)
  BY <1>1, CorpusDrawn DEF ValidEdition
<1>3. PICK kept : kept = corpus.drafts
  OBVIOUS
<1>4. kept = Deduplicated(Parsed(t, frames))
  BY <1>1, <1>3, CorpusDrawn DEF Batches
<1>5. ASSUME NEW kind \in {"case", "charge"}, NEW d \in OfKind(kept, kind)
      PROVE  \E n : d \in DraftsOfKind(CaseOf(t, n, RowsOfCase(frames, n)), kind)
  <2>1. PICK e \in kept : e[1] = kind /\ e[2] = d
    BY DEF OfKind
  <2>2. \/ e[1] \in {"jurisdiction", "court", "judge", "judge_service"}
        \/ \E n \in CaseNumbers(frames) :
              e[2] \in DraftsOfKind(CaseOf(t, n, RowsOfCase(frames, n)), e[1])
    BY <1>4, DraftsOfCorpus
  <2> QED
    BY <2>1, <2>2
<1>6. PICK n : case \in DraftsOfKind(CaseOf(t, n, RowsOfCase(frames, n)), "case")
  BY <1>3, <1>5
<1>7. PICK m : charge \in DraftsOfKind(CaseOf(t, m, RowsOfCase(frames, m)), "charge")
  BY <1>3, <1>5
<1>8. PICK c, o : c = CaseOf(t, n, RowsOfCase(frames, n)) /\ o = CaseOf(t, m, RowsOfCase(frames, m))
  OBVIOUS
<1>9. case.key = c.key /\ charge.cols.case = o.key
  BY <1>6, <1>7, <1>8, CaseOfDrafts
<1>10. n = m
  <2>1. c.key[2] = n /\ o.key[2] = m
    BY <1>8, CaseNamed
  <2> QED
    BY <1>9, <2>1
<1>11. ValidTables(c.t) /\ charge \in DraftsOfKind(c, "charge") /\ case \in DraftsOfKind(c, "case")
  BY <1>2, <1>6, <1>7, <1>8, <1>10, CaseNamed
<1> QED
  BY <1>11, ClosedDrafts
-----------------------------------------------------------------------------
(* What an upsert does.                                                    *)

\* The row a draft belongs to.
RowOf(e) == <<e[1], e[2].key>>

\* A row is drawn from one of the drafts of its key.
LEMMA RowsDrawn ==
  ASSUME NEW resolved, NEW source, NEW k
  PROVE  /\ k \in DOMAIN Rows(resolved, source) <=> \E e \in Drafted(resolved) : k = RowOf(e)
         /\ k \in DOMAIN Rows(resolved, source) =>
              \E f \in Drafted(resolved) :
                k = RowOf(f) /\ Rows(resolved, source)[k].cols = f[2].cols
<1> DEFINE drafted == Drafted(resolved)
           keys == {<<e[1], e[2].key>> : e \in drafted}
           chosen(x) == CHOOSE e \in drafted : e[1] = x[1] /\ e[2].key = x[2]
<1>1. Rows(resolved, source) = [x \in keys |-> Row(x[1], chosen(x)[2], source)]
  BY DEF Rows
<1>2. k \in keys <=> \E e \in Drafted(resolved) : k = RowOf(e)
  BY DEF RowOf
<1>3. ASSUME k \in keys
      PROVE  /\ chosen(k) \in drafted /\ k = RowOf(chosen(k))
             /\ Rows(resolved, source)[k].cols = chosen(k)[2].cols
  <2>1. PICK e \in drafted : k = <<e[1], e[2].key>>
    BY <1>3
  <2>2. e[1] = k[1] /\ e[2].key = k[2]
    BY <2>1
  <2>3. PICK f : f = chosen(k)
    OBVIOUS
  <2>4. f \in drafted /\ f[1] = k[1] /\ f[2].key = k[2]
    BY <2>2, <2>3
  <2>5. Rows(resolved, source)[k] = Row(k[1], f[2], source)
    BY <1>1, <1>3, <2>3
  <2>6. Row(k[1], f[2], source).cols = f[2].cols
    BY DEF Row
  <2> QED
    BY <2>1, <2>3, <2>4, <2>5, <2>6 DEF RowOf
<1> QED
  BY <1>1, <1>2, <1>3

\* A published row is a stored one, or holds the columns of a draft of its key.
LEMMA PublishedDrawn ==
  ASSUME NEW stored, NEW resolved, NEW source,
         NEW k \in DOMAIN Published(stored, resolved, source)
  PROVE  \/ k \in DOMAIN stored /\ Published(stored, resolved, source)[k] = stored[k]
         \/ \E f \in Drafted(resolved) :
              k = RowOf(f) /\ Published(stored, resolved, source)[k].cols = f[2].cols
<1>1. PICK rows : rows = Rows(resolved, source)
  OBVIOUS
<1> DEFINE written == {x \in DOMAIN rows : x \in DOMAIN stored => Differs(x[1], stored[x], rows[x])}
<1>2. Published(stored, resolved, source) = Over([x \in written |-> rows[x]], stored)
  BY <1>1 DEF Published
<1>3. CASE k \in written
  <2>1. Published(stored, resolved, source)[k] = rows[k]
    BY <1>2, <1>3 DEF Over
  <2>2. k \in DOMAIN rows
    BY <1>3
  <2> QED
    BY <1>1, <2>1, <2>2, RowsDrawn
<1>4. CASE k \notin written
  BY <1>2, <1>4 DEF Over
<1> QED
  BY <1>3, <1>4

\* After an upsert the row of every draft is there, and every compared column is that of a
\* draft of its key.
LEMMA PublishedShows ==
  ASSUME NEW stored, NEW resolved, NEW source, NEW e \in Drafted(resolved)
  PROVE  /\ RowOf(e) \in DOMAIN Published(stored, resolved, source)
         /\ \E f \in Drafted(resolved) :
              /\ RowOf(f) = RowOf(e)
              /\ \A column \in Compare[e[1]] :
                   Published(stored, resolved, source)[RowOf(e)].cols[column] = f[2].cols[column]
<1>1. PICK rows, k : rows = Rows(resolved, source) /\ k = RowOf(e)
  OBVIOUS
<1> DEFINE written == {x \in DOMAIN rows : x \in DOMAIN stored => Differs(x[1], stored[x], rows[x])}
<1>2. Published(stored, resolved, source) = Over([x \in written |-> rows[x]], stored)
  BY <1>1 DEF Published
<1>3. k \in DOMAIN rows
  BY <1>1, RowsDrawn
<1>4. PICK f \in Drafted(resolved) : k = RowOf(f) /\ rows[k].cols = f[2].cols
  BY <1>1, <1>3, RowsDrawn
<1>5. k[1] = e[1]
  BY <1>1 DEF RowOf
<1>6. CASE k \in written
  <2>1. /\ k \in DOMAIN Published(stored, resolved, source)
        /\ Published(stored, resolved, source)[k] = rows[k]
    BY <1>2, <1>6 DEF Over
  <2> QED
    BY <1>1, <1>4, <2>1
<1>7. CASE k \notin written
  <2>1. k \in DOMAIN stored /\ ~Differs(k[1], stored[k], rows[k])
    BY <1>3, <1>7
  <2>2. /\ k \in DOMAIN Published(stored, resolved, source)
        /\ Published(stored, resolved, source)[k] = stored[k]
    BY <1>2, <1>7, <2>1 DEF Over
  <2>3. \A column \in Compare[e[1]] : stored[k].cols[column] = rows[k].cols[column]
    BY <1>5, <2>1 DEF Differs
  <2> QED
    BY <1>1, <1>4, <2>2, <2>3
<1> QED
  BY <1>6, <1>7

\* A draft that is published is one that was resolved, or the pretrial-release row of one.
LEMMA DraftedFrom ==
  ASSUME NEW resolved, NEW e \in Drafted(resolved)
  PROVE  \/ e \in resolved
         \/ /\ e[1] = "pretrial_release" /\ "release" \in DOMAIN e[2].cols
            /\ \E f \in resolved : f[1] = "decision" /\ f[2] = e[2]
BY DEF Drafted, OfKind

LEMMA ResolvedKept ==
  ASSUME NEW stored, NEW kept
  PROVE  Resolved(stored, kept) \subseteq kept
<1>1. \A drafts, column : Resolving(stored, drafts, column) \subseteq drafts
  BY DEF Resolving
<1> QED
  BY <1>1 DEF Resolved

\* rows shows a draft: every row of its key is there, with every compared column as drafted.
Showing(rows, e) ==
  \A row \in RowsShowing(e[1], e[2]) :
    /\ row \in DOMAIN rows
    /\ \A column \in Compare[row[1]] : rows[row].cols[column] = e[2].cols[column]

\* When no draft of a corpus is rejected or contradicted, an upsert leaves every one of them
\* shown, with its pretrial-release row.
LEMMA CorpusShown ==
  ASSUME NEW stored, NEW source, NEW corpus \in Corpora, corpus.conflicts = {},
         Rejected(stored, corpus.drafts) = {}, NEW e \in corpus.drafts
  PROVE  Showing(Published(stored, Resolved(stored, corpus.drafts), source), e)
<1> DEFINE next == Published(stored, Resolved(stored, corpus.drafts), source)
<1>1. PICK kept : kept = corpus.drafts
  OBVIOUS
<1>2. Resolved(stored, kept) = kept
  BY <1>1, ResolvedKept DEF Rejected
<1>3. next = Published(stored, kept, source)
  BY <1>1, <1>2
<1>4. ASSUME NEW a \in kept, NEW b \in kept, a[1] = b[1], a[2].key = b[2].key
      PROVE  a[2].cols = b[2].cols
  <2>1. b \in UNION {x.drafts : x \in Batches(corpus)}
    BY <1>1, CorpusHonest
  <2>2. Conflicts(Batches(corpus), kept) = {}
    BY <1>1, CorpusDrawn
  <2> QED
    BY <1>4, <2>1, <2>2 DEF Conflicts, SameKey
<1>5. \A f \in kept : f = <<f[1], f[2]>> /\ f[1] # "pretrial_release"
  BY <1>1, CorpusHonest
<1>6. ASSUME NEW d \in Drafted(kept), NEW f \in Drafted(kept), RowOf(d) = RowOf(f)
      PROVE  d[2].cols = f[2].cols
  <2>1. d[1] = f[1] /\ d[2].key = f[2].key
    BY <1>6 DEF RowOf
  <2>2. CASE d[1] # "pretrial_release"
    <3>1. d \in kept /\ f \in kept
      BY <2>1, <2>2, DraftedFrom
    <3> QED
      BY <3>1, <2>1, <1>4
  <2>3. CASE d[1] = "pretrial_release"
    <3>1. PICK a \in kept : a[1] = "decision" /\ a[2] = d[2]
      BY <2>3, <1>5, DraftedFrom
    <3>2. PICK b \in kept : b[1] = "decision" /\ b[2] = f[2]
      BY <2>1, <2>3, <1>5, DraftedFrom
    <3> QED
      BY <2>1, <3>1, <3>2, <1>4
  <2> QED
    BY <2>2, <2>3
<1>7. ASSUME NEW d \in Drafted(kept)
      PROVE  /\ RowOf(d) \in DOMAIN next
             /\ \A column \in Compare[d[1]] : next[RowOf(d)].cols[column] = d[2].cols[column]
  <2>1. RowOf(d) \in DOMAIN next
    BY <1>3, PublishedShows
  <2>2. PICK f \in Drafted(kept) :
          /\ RowOf(f) = RowOf(d)
          /\ \A column \in Compare[d[1]] : next[RowOf(d)].cols[column] = f[2].cols[column]
    BY <1>3, PublishedShows
  <2> QED
    BY <2>1, <2>2, <1>6
<1>8. e \in Drafted(kept)
  BY <1>1 DEF Drafted
<1>9. ASSUME NEW row \in RowsShowing(e[1], e[2])
      PROVE  \E d \in Drafted(kept) : d[2] = e[2] /\ row = RowOf(d) /\ row[1] = d[1]
  <2>1. CASE row = <<e[1], e[2].key>>
    BY <1>8, <2>1 DEF RowOf
  <2>2. CASE row # <<e[1], e[2].key>>
    <3>1. /\ row = <<"pretrial_release", e[2].key>>
          /\ e[1] = "decision" /\ "release" \in DOMAIN e[2].cols
      BY <2>2 DEF RowsShowing
    <3>2. e[2] \in OfKind(kept, "decision")
      BY <1>1, <3>1 DEF OfKind
    <3>3. <<"pretrial_release", e[2]>> \in Drafted(kept)
      BY <3>1, <3>2 DEF Drafted
    <3> QED
      BY <3>1, <3>3 DEF RowOf
  <2> QED
    BY <2>1, <2>2
<1> QED
  BY <1>7, <1>9 DEF Showing

-----------------------------------------------------------------------------
(* The inductive invariant.                                                *)

InFlight == run.pc \in {"metadata", "download", "parse"}
Flight(pending) ==
  [pc : {"metadata", "download", "parse"}, code : Nat, parse : BOOLEAN, at : 1..6, updated : Nat,
   attempt : Int, got : [File -> Nat], pending : {pending}]

\* A recorded release is one that was published, with the rows-updated time of an earlier
\* moment than its bytes', and a parser no newer than the deployed one.
RecordsOf(records, file, released, version) ==
  /\ records[file] \in [DOMAIN records[file] -> [updated : Nat, parser : Nat]]
  /\ DOMAIN records[file] \subseteq Release(file)
  /\ \A n \in DOMAIN records[file] :
       n <= released /\ records[file][n].updated <= n /\ records[file][n].parser <= version
RecordsSound(records, released, version) ==
  /\ records = [file \in File |-> records[file]]
  /\ \A file \in File : RecordsOf(records, file, released[file], version)

SourcesTyped ==
  /\ portal \in [File -> Nat] /\ \A file \in File : portal[file] \in Release(file)
  /\ disk \in [edition : Edition, pinned : Edition, version : Nat]
  /\ code \in Nat /\ disk.version = code

\* A run in flight: what it has taken of an export is the latest it knows, and a run with
\* nothing to parse has found nothing but what is recorded.
Taken(r, file) ==
  r.got[file] \in DOMAIN r.pending[file] /\ \A n \in DOMAIN r.pending[file] : n <= r.got[file]
RunSound ==
  InFlight =>
    /\ run \in Flight(run.pending)
    /\ run.code <= code
    /\ run.pc = "parse" <=> run.at = 6
    /\ RecordsSound(run.pending, portal, code)
    /\ \A i \in 1..5 : i < run.at => Taken(run, Files[i])
    /\ ~run.parse => run.pending = record
    /\ run.pc = "download" => run.updated <= portal[FileAt(run.at)]

\* The rows drawn from the recorded exports are shown, at every moment and not only when a
\* run has just ended.
RowsCurrent ==
  RecordsCurrent /\ (\A issue \in issues : issue[1] # "unresolved") =>
    \A corpus \in CurrentCorpora : corpus.conflicts = {} =>
      \A e \in corpus.drafts : Shown(e[1], e[2])

\* Every row of a decision is honest, whichever run published it.
RowsHonest ==
  \A k \in DOMAIN db :
    /\ k[1] = "decision" => Honest(db[k].cols)
    /\ k[1] = "pretrial_release" => Releasing(db[k].cols)

CookInv ==
  /\ SourcesTyped /\ RecordsSound(record, portal, code) /\ RunSound
  /\ RowsCurrent /\ RowsHonest

\* What is recorded of an export stands when the portal and the code move on.
LEMMA RecordsStay ==
  ASSUME NEW records, NEW released, NEW later, NEW version \in Nat, NEW deployed \in Nat,
         RecordsSound(records, released, version),
         released \in [File -> Nat], later \in [File -> Nat],
         \A file \in File : released[file] <= later[file], version <= deployed
  PROVE  RecordsSound(records, later, deployed)
<1>1. ASSUME NEW file \in File
      PROVE  RecordsOf(records, file, later[file], deployed)
  <2>1. RecordsOf(records, file, released[file], version)
    BY DEF RecordsSound
  <2>2. released[file] \in Nat /\ later[file] \in Nat /\ released[file] <= later[file]
    OBVIOUS
  <2>3. Release(file) \subseteq Nat
    BY NumberedAssumption
  <2>4. ASSUME NEW n \in DOMAIN records[file]
        PROVE  n <= later[file] /\ records[file][n].updated <= n /\ records[file][n].parser <= deployed
    <3>1. n \in Nat /\ records[file][n] \in [updated : Nat, parser : Nat]
      BY <2>1, <2>3 DEF RecordsOf
    <3>2. n <= released[file] /\ records[file][n].updated <= n /\ records[file][n].parser <= version
      BY <2>1 DEF RecordsOf
    <3> QED
      BY <3>1, <3>2, <2>2
  <2> QED
    BY <2>1, <2>4 DEF RecordsOf
<1> QED
  BY <1>1 DEF RecordsSound

\* The latest release recorded of an export.
LEMMA LatestRecorded ==
  ASSUME NEW records, NEW released, NEW version, RecordsSound(records, released, version),
         released \in [File -> Nat], NEW file \in File
  PROVE  /\ Latest(records, file) \in Nat
         /\ Latest(records, file) # 0 <=> Latest(records, file) \in DOMAIN records[file]
         /\ \A n \in DOMAIN records[file] : n <= Latest(records, file)
<1>1. /\ DOMAIN records[file] \subseteq Nat \ {0}
      /\ \A n \in DOMAIN records[file] : n <= released[file]
  BY NumberedAssumption DEF RecordsSound, RecordsOf
<1>2. released[file] \in Nat
  OBVIOUS
<1> QED
  BY <1>1, <1>2, LatestRelease

\* Taking an export keeps the run sound.
LEMMA TakingSound ==
  ASSUME SourcesTyped, RunSound, RecordsSound(record, portal, code),
         run.pc \in {"metadata", "download"},
         UNCHANGED <<portal, disk, code, record, db, issues>>,
         NEW file, file = FileAt(run.at), NEW release \in Release(file), release <= portal[file],
         \A n \in DOMAIN run.pending[file] : n <= release,
         NEW updated \in Nat, updated <= release \/ release \in DOMAIN run.pending[file],
         Retrieved(file, release, updated)
  PROVE  RunSound'
<1> DEFINE known == release \in DOMAIN run.pending[file]
           stale == known /\ run.pending[file][release].parser # run.code
           entry == [updated |-> IF known THEN run.pending[file][release].updated ELSE updated,
                     parser |-> run.code]
<1>1. /\ run \in Flight(run.pending) /\ run.code <= code /\ run.at \in 1..5
      /\ run.pc = "parse" <=> run.at = 6
      /\ RecordsSound(run.pending, portal, code)
      /\ \A i \in 1..5 : i < run.at => Taken(run, Files[i])
      /\ ~run.parse => run.pending = record
  BY DEF RunSound, InFlight, Flight
<1>2. file \in File /\ release \in Nat /\ run.code \in Nat /\ code \in Nat /\ portal[file] \in Nat
  BY <1>1, FiveFiles, NumberedAssumption DEF FileAt, Flight, SourcesTyped
<1>3. PICK new : new = Over([n \in {release} |-> entry], run.pending[file])
  OBVIOUS
<1>4. /\ run'.pc = (IF run.at = 5 THEN "parse" ELSE "metadata") /\ run'.at = run.at + 1
      /\ run'.got = [run.got EXCEPT ![file] = release]
      /\ run'.parse = (run.parse \/ stale \/ ~known)
      /\ run'.pending = [run.pending EXCEPT ![file] = new]
      /\ run'.code = run.code
      /\ run'.updated = 0 /\ run'.attempt = 0
      /\ run' \in Flight(run'.pending)
  <2>1. run' = [run EXCEPT !.pc = IF run.at = 5 THEN "parse" ELSE "metadata",
                           !.at = run.at + 1, !.attempt = 0, !.updated = 0,
                           !.got = [run.got EXCEPT ![file] = release],
                           !.parse = run.parse \/ stale \/ ~known,
                           !.pending = [run.pending EXCEPT ![file] = new]]
    <3>1. run' = [run EXCEPT !.pc = IF run.at = Len(Files) THEN "parse" ELSE "metadata",
                             !.at = @ + 1, !.attempt = 0, !.updated = 0,
                             !.got[file] = release,
                             !.parse = @ \/ stale \/ ~known,
                             !.pending[file] = Over([n \in {release} |-> entry], @)]
      BY DEF Retrieved
    <3>2. Len(Files) = 5
      BY FiveFiles
    <3> HIDE DEF stale, known, entry
    <3> QED
      BY <3>1, <3>2, <1>3
  <2>2. [run.got EXCEPT ![file] = release] \in [File -> Nat]
    BY <1>1, <1>2 DEF Flight
  <2>3. (run.parse \/ stale \/ ~known) \in BOOLEAN
    OBVIOUS
  <2>4. PICK pc, got, parse, pending :
          /\ pc = (IF run.at = 5 THEN "parse" ELSE "metadata")
          /\ got = [run.got EXCEPT ![file] = release]
          /\ parse = (run.parse \/ stale \/ ~known)
          /\ pending = [run.pending EXCEPT ![file] = new]
    OBVIOUS
  <2> HIDE DEF stale, known
  <2>5. run' = [run EXCEPT !.pc = pc, !.at = run.at + 1, !.attempt = 0, !.updated = 0,
                           !.got = got, !.parse = parse, !.pending = pending]
    BY <2>1, <2>4
  <2>6. pc \in {"metadata", "download", "parse"} /\ got \in [File -> Nat] /\ parse \in BOOLEAN
    BY <2>2, <2>3, <2>4
  <2>7. run \in [pc : {"metadata", "download", "parse"}, code : Nat, parse : BOOLEAN, at : 1..6,
                 updated : Nat, attempt : Int, got : [File -> Nat], pending : {run.pending}]
    BY <1>1 DEF Flight
  <2>8. /\ run'.pc = pc /\ run'.at = run.at + 1 /\ run'.got = got /\ run'.parse = parse
        /\ run'.pending = pending /\ run'.code = run.code
        /\ run'.updated = 0 /\ run'.attempt = 0
        /\ run' = [pc |-> pc, code |-> run.code, parse |-> parse, at |-> run.at + 1, updated |-> 0,
                   attempt |-> 0, got |-> got, pending |-> pending]
    BY <2>5, <2>7
  <2>9. run' \in Flight(run'.pending)
    BY <1>1, <2>6, <2>7, <2>8 DEF Flight
  <2> QED
    BY <2>4, <2>8, <2>9
<1>5. /\ run.pending = [f \in File |-> run.pending[f]]
      /\ \A f \in File : RecordsOf(run.pending, f, portal[f], code)
  BY <1>1 DEF RecordsSound
<1>6. /\ run.pending[file] \in [DOMAIN run.pending[file] -> [updated : Nat, parser : Nat]]
      /\ DOMAIN run.pending[file] \subseteq Release(file)
      /\ \A n \in DOMAIN run.pending[file] :
           /\ n <= portal[file] /\ run.pending[file][n].updated <= n
           /\ run.pending[file][n].parser <= code
  BY <1>2, <1>5 DEF RecordsOf
<1>7. /\ entry \in [updated : Nat, parser : Nat]
      /\ entry.updated <= release /\ entry.parser <= code
  BY <1>1, <1>2, <1>6
<1>8. /\ run'.pending[file] = new
      /\ \A f \in File \ {file} : run'.pending[f] = run.pending[f]
      /\ run'.pending = [f \in File |-> run'.pending[f]]
  BY <1>2, <1>4, <1>5
<1>9. /\ DOMAIN new = {release} \cup DOMAIN run.pending[file]
      /\ new[release] = entry
      /\ \A n \in DOMAIN run.pending[file] \ {release} : new[n] = run.pending[file][n]
      /\ new = [n \in DOMAIN new |-> new[n]]
  BY <1>3 DEF Over
<1> HIDE DEF entry
<1>10. RecordsOf(run'.pending, file, portal[file], code)
  <2>1. new \in [DOMAIN new -> [updated : Nat, parser : Nat]]
    BY <1>6, <1>7, <1>9
  <2>2. DOMAIN new \subseteq Release(file)
    BY <1>6, <1>9
  <2>3. \A n \in DOMAIN new : n <= portal[file] /\ new[n].updated <= n /\ new[n].parser <= code
    BY <1>6, <1>7, <1>9
  <2> QED
    BY <1>8, <2>1, <2>2, <2>3 DEF RecordsOf
<1>11. RecordsSound(run'.pending, portal, code)
  <2>1. ASSUME NEW f \in File
        PROVE  RecordsOf(run'.pending, f, portal[f], code)
    <3>1. CASE f = file
      BY <1>10, <3>1
    <3>2. CASE f # file
      BY <1>5, <1>8, <3>2 DEF RecordsOf
    <3> QED
      BY <3>1, <3>2
  <2> QED
    BY <1>8, <2>1 DEF RecordsSound
<1>12. ASSUME NEW i \in 1..5, i < run'.at
       PROVE  Taken(run', Files[i])
  <2>1. CASE i = run.at
    <3>1. Files[i] = file
      BY <2>1 DEF FileAt
    <3>2. run'.got[file] = release
      BY <1>1, <1>2, <1>4 DEF Flight
    <3> QED
      BY <1>2, <1>8, <1>9, <3>1, <3>2, <1>6, NumberedAssumption DEF Taken
  <2>2. CASE i # run.at
    <3>1. i < run.at /\ Files[i] # file /\ Files[i] \in File
      BY <1>1, <1>4, <1>12, <2>2, FiveFiles DEF FileAt
    <3>2. Taken(run, Files[i])
      BY <1>1, <3>1
    <3>3. run'.got[Files[i]] = run.got[Files[i]] /\ run'.pending[Files[i]] = run.pending[Files[i]]
      BY <1>1, <1>4, <1>8, <3>1 DEF Flight
    <3> QED
      BY <3>2, <3>3 DEF Taken
  <2> QED
    BY <2>1, <2>2
<1>13. ASSUME ~run'.parse
       PROVE  run'.pending = record
  <2>1. ~run.parse /\ known /\ ~stale
    BY <1>4, <1>13
  <2>2. run.pending = record
    BY <1>1, <2>1
  <2>3. entry = run.pending[file][release]
    BY <1>6, <2>1 DEF entry
  <2>4. new = run.pending[file]
    <3>1. DOMAIN new = DOMAIN run.pending[file]
      BY <1>9, <2>1
    <3>2. \A n \in DOMAIN new : new[n] = run.pending[file][n]
      BY <1>9, <2>3, <3>1
    <3>3. run.pending[file] = [n \in DOMAIN run.pending[file] |-> run.pending[file][n]]
      BY <1>6
    <3> QED
      BY <1>9, <3>1, <3>2, <3>3
  <2>5. run'.pending = run.pending
    BY <1>4, <1>5, <2>4, <1>2
  <2> QED
    BY <2>2, <2>5
<1>14. run'.code <= code' /\ (run'.pc = "parse" <=> run'.at = 6) /\ run'.pc # "download"
  BY <1>1, <1>4
<1>15. RecordsSound(run'.pending, portal', code') /\ (~run'.parse => run'.pending = record')
  BY <1>11, <1>13
<1> QED
  BY <1>4, <1>12, <1>14, <1>15 DEF RunSound, InFlight, Taken
-----------------------------------------------------------------------------
(* The steps.                                                              *)

\* The portal and the code only move on; the run and its records are not touched.
LEMMA SourcesMove ==
  ASSUME SourcesTyped, RunSound, RecordsSound(record, portal, code), SourcesTyped',
         \A file \in File : portal[file] <= portal'[file], code <= code',
         record' = record, run' = run
  PROVE  RecordsSound(record, portal, code)' /\ RunSound'
<1>1. /\ portal \in [File -> Nat] /\ portal' \in [File -> Nat] /\ code \in Nat /\ code' \in Nat
  BY DEF SourcesTyped
<1>2. RecordsSound(record, portal', code')
  BY <1>1, RecordsStay
<1>3. CASE ~InFlight
  BY <1>2, <1>3 DEF RunSound, InFlight
<1>4. CASE InFlight
  <2>1. /\ run \in Flight(run.pending) /\ run.code <= code
        /\ run.pc = "parse" <=> run.at = 6
        /\ RecordsSound(run.pending, portal, code)
        /\ \A i \in 1..5 : i < run.at => Taken(run, Files[i])
        /\ ~run.parse => run.pending = record
        /\ run.pc = "download" => run.updated <= portal[FileAt(run.at)]
    BY <1>4 DEF RunSound
  <2>2. RecordsSound(run.pending, portal', code')
    BY <1>1, <2>1, RecordsStay
  <2>3. run.code <= code'
    BY <1>1, <2>1 DEF Flight
  <2>4. ASSUME run.pc = "download"
        PROVE  run.updated <= portal'[FileAt(run.at)]
    <3>1. run.at \in 1..5 /\ run.updated \in Nat
      BY <2>1, <2>4 DEF Flight
    <3>2. FileAt(run.at) \in File
      BY <3>1, FiveFiles DEF FileAt
    <3> QED
      BY <1>1, <2>1, <2>4, <3>1, <3>2
  <2> QED
    BY <1>2, <2>1, <2>2, <2>3, <2>4 DEF RunSound, Taken, Flight, InFlight
<1> QED
  BY <1>3, <1>4

\* Rows, records, tables and issues that do not change keep showing what they showed.
LEMMA RowsStay ==
  ASSUME RowsCurrent, RowsHonest, UNCHANGED <<disk, code, record, db, issues>>
  PROVE  RowsCurrent' /\ RowsHonest'
BY DEF RowsCurrent, RowsHonest, RecordsCurrent, CurrentCorpora, Recorded, Shown

\* Between the release of an edition and the next run, nothing is claimed to be current.
LEMMA StaleTables ==
  ASSUME RowsHonest, ~RecordsCurrent', db' = db
  PROVE  RowsCurrent' /\ RowsHonest'
BY DEF RowsCurrent, RowsHonest

THEOREM CookStart == Init => CookInv
<1> SUFFICES ASSUME Init PROVE CookInv
  OBVIOUS
<1>1. SourcesTyped
  BY NumberedAssumption DEF Init, SourcesTyped
<1>2. RecordsSound(record, portal, code)
  <2>1. record = [file \in File |-> <<>>]
    BY DEF Init
  <2>2. DOMAIN <<>> = {} /\ <<>> = [n \in {} |-> n]
    OBVIOUS
  <2>3. ASSUME NEW file \in File
        PROVE  RecordsOf(record, file, portal[file], code)
    <3>1. DOMAIN record[file] = {} /\ record[file] = [n \in {} |-> n]
      BY <2>1, <2>2
    <3> QED
      BY <3>1 DEF RecordsOf
  <2> QED
    BY <2>1, <2>3 DEF RecordsSound
<1>3. RunSound
  BY DEF Init, RunSound, InFlight, NoRun
<1>4. ~RecordsCurrent
  <2>1. "intake" \in File /\ DOMAIN record["intake"] = {}
    BY FiveFiles DEF Init
  <2>2. portal \in [File -> Nat]
    BY <1>1 DEF SourcesTyped
  <2>3. Latest(record, "intake") = 0
    BY <1>2, <2>1, <2>2, LatestRecorded
  <2> QED
    BY <2>1, <2>3 DEF RecordsCurrent, Recorded
<1>5. RowsHonest
  BY DEF Init, RowsHonest
<1> QED
  BY <1>1, <1>2, <1>3, <1>4, <1>5 DEF CookInv, RowsCurrent

LEMMA PortalSteps ==
  ASSUME CookInv, NEW file \in File, Republish(file)
  PROVE  CookInv'
<1>1. /\ portal' = [portal EXCEPT ![file] = portal[file] + 1] /\ portal[file] + 1 \in Release(file)
      /\ UNCHANGED <<disk, code, record, run, db, issues>>
  BY DEF Republish
<1>2. portal \in [File -> Nat] /\ \A f \in File : portal[f] \in Release(f)
  BY DEF CookInv, SourcesTyped
<1>3. /\ portal' \in [File -> Nat] /\ \A f \in File : portal'[f] \in Release(f)
      /\ \A f \in File : portal[f] <= portal'[f]
  BY <1>1, <1>2
<1>4. SourcesTyped'
  BY <1>1, <1>3 DEF CookInv, SourcesTyped
<1>5. code <= code'
  BY <1>1 DEF CookInv, SourcesTyped
<1>6. RecordsSound(record, portal, code)' /\ RunSound'
  BY <1>1, <1>3, <1>4, <1>5, SourcesMove DEF CookInv
<1>7. RowsCurrent' /\ RowsHonest'
  BY <1>1, RowsStay DEF CookInv
<1> QED
  BY <1>4, <1>6, <1>7 DEF CookInv

LEMMA TableSteps ==
  ASSUME CookInv, EditTable \/ BumpVersion
  PROVE  CookInv'
<1>1. CASE EditTable
  <2>1. /\ disk.edition + 1 \in Edition /\ disk.pinned = disk.edition
        /\ disk' = [disk EXCEPT !.edition = disk.edition + 1]
        /\ UNCHANGED <<portal, code, record, run, db, issues>>
    BY <1>1 DEF EditTable
  <2>2. disk \in [edition : Edition, pinned : Edition, version : Nat] /\ disk.edition \in Nat
    BY NumberedAssumption DEF CookInv, SourcesTyped
  <2>3. SourcesTyped' /\ disk'.pinned # disk'.edition
    BY <2>1, <2>2 DEF CookInv, SourcesTyped
  <2>4. code <= code' /\ \A file \in File : portal[file] <= portal'[file]
    BY <2>1 DEF CookInv, SourcesTyped
  <2>5. RecordsSound(record, portal, code)' /\ RunSound'
    BY <2>1, <2>3, <2>4, SourcesMove DEF CookInv
  <2>6. RowsCurrent' /\ RowsHonest'
    BY <2>1, <2>3, StaleTables DEF CookInv, RecordsCurrent
  <2> QED
    BY <2>3, <2>5, <2>6 DEF CookInv
<1>2. CASE BumpVersion
  <2>1. /\ disk' = [disk EXCEPT !.pinned = disk.edition, !.version = disk.version + 1]
        /\ code' = code + 1
        /\ UNCHANGED <<portal, record, run, db, issues>>
    BY <1>2 DEF BumpVersion
  <2>2. disk \in [edition : Edition, pinned : Edition, version : Nat] /\ code \in Nat
        /\ disk.version = code /\ portal \in [File -> Nat]
    BY DEF CookInv, SourcesTyped
  <2>3. SourcesTyped'
    <3>1. /\ disk' \in [edition : Edition, pinned : Edition, version : Nat]
          /\ disk'.version = disk.version + 1
      <4>1. disk.edition \in Edition /\ disk.version \in Nat /\ disk.version + 1 \in Nat
        BY <2>2
      <4>2. disk' = [edition |-> disk.edition, pinned |-> disk.edition, version |-> disk.version + 1]
        BY <2>1, <2>2
      <4> QED
        BY <4>1, <4>2
    <3>2. code' \in Nat /\ disk'.version = code'
      BY <2>1, <2>2, <3>1
    <3> QED
      BY <2>1, <3>1, <3>2 DEF CookInv, SourcesTyped
  <2>4. code <= code' /\ \A file \in File : portal[file] <= portal'[file]
    BY <2>1, <2>2
  <2>5. RecordsSound(record, portal, code)' /\ RunSound'
    BY <2>1, <2>3, <2>4, SourcesMove DEF CookInv
  <2>6. ~RecordsCurrent'
    <3>1. SUFFICES ASSUME RecordsCurrent' PROVE FALSE
      OBVIOUS
    <3>2. PICK latest : latest = Latest(record, "intake")
      OBVIOUS
    <3>3. latest # 0 /\ record["intake"][latest].parser = code + 1
      BY <2>1, <3>1, <3>2, FiveFiles DEF RecordsCurrent, Recorded
    <3>4. latest \in DOMAIN record["intake"]
      BY <2>2, <3>2, <3>3, FiveFiles, LatestRecorded DEF CookInv
    <3>5. /\ record["intake"][latest].parser <= code
          /\ record["intake"][latest] \in [updated : Nat, parser : Nat]
      BY <3>4, FiveFiles DEF CookInv, RecordsSound, RecordsOf
    <3> QED
      BY <2>2, <3>3, <3>5
  <2>7. RowsCurrent' /\ RowsHonest'
    BY <2>1, <2>6, StaleTables DEF CookInv
  <2> QED
    BY <2>3, <2>5, <2>7 DEF CookInv
<1> QED
  BY <1>1, <1>2

LEMMA RetrievalSteps ==
  ASSUME CookInv, Begin \/ ReadMetadata \/ Download \/ TryAgain \/ DownloadFails
  PROVE  CookInv'
<1>1. UNCHANGED <<portal, disk, code, record, db, issues>>
  BY DEF Begin, ReadMetadata, Download, TryAgain, DownloadFails
<1>2. SourcesTyped' /\ RecordsSound(record, portal, code)' /\ RowsCurrent' /\ RowsHonest'
  BY <1>1, RowsStay DEF CookInv, SourcesTyped
<1>3. /\ portal \in [File -> Nat] /\ \A f \in File : portal[f] \in Release(f)
      /\ code \in Nat /\ SourcesTyped /\ RunSound /\ RecordsSound(record, portal, code)
  BY DEF CookInv, SourcesTyped
<1>4. ASSUME run.pc \in {"metadata", "download"}
      PROVE  /\ run \in Flight(run.pending) /\ run.code <= code /\ run.at \in 1..5
             /\ RecordsSound(run.pending, portal, code)
             /\ \A i \in 1..5 : i < run.at => Taken(run, Files[i])
             /\ ~run.parse => run.pending = record
             /\ run.pc = "download" => run.updated <= portal[FileAt(run.at)]
             /\ FileAt(run.at) \in File
             /\ \A n \in DOMAIN run.pending[FileAt(run.at)] : n <= portal[FileAt(run.at)]
  <2>1. /\ run \in Flight(run.pending) /\ run.code <= code
        /\ run.pc = "parse" <=> run.at = 6
        /\ RecordsSound(run.pending, portal, code)
        /\ \A i \in 1..5 : i < run.at => Taken(run, Files[i])
        /\ ~run.parse => run.pending = record
        /\ run.pc = "download" => run.updated <= portal[FileAt(run.at)]
    BY <1>3, <1>4 DEF RunSound, InFlight
  <2>2. run.at \in 1..5
    BY <1>4, <2>1 DEF Flight
  <2>3. FileAt(run.at) \in File
    BY <2>2, FiveFiles DEF FileAt
  <2> QED
    BY <2>1, <2>2, <2>3 DEF RecordsSound, RecordsOf
<1>5. CASE Begin
  <2>1. PICK force \in Forcing :
          run' = [pc |-> "metadata", code |-> code, parse |-> force, at |-> 1, updated |-> 0,
                  attempt |-> 0, got |-> [file \in File |-> 0], pending |-> record]
    BY <1>5 DEF Begin
  <2>2. force \in BOOLEAN
    BY ForcingAssumption
  <2>3. run' \in Flight(run'.pending)
    BY <1>3, <2>1, <2>2 DEF Flight
  <2>4. /\ run'.pc = "metadata" /\ run'.at = 1 /\ run'.code = code /\ run'.pending = record
    BY <2>1
  <2>5. RunSound'
    BY <1>1, <1>3, <2>3, <2>4 DEF RunSound
  <2> QED
    BY <1>2, <2>5 DEF CookInv
<1>6. CASE ReadMetadata
  <2>1. PICK file, previous : file = FileAt(run.at) /\ previous = Latest(run.pending, file)
    OBVIOUS
  <2>2. run.pc = "metadata"
    BY <1>6 DEF ReadMetadata
  <2>3. CASE previous # 0 /\ run.pending[file][previous].updated = portal[file]
    <3>1. Retrieved(file, previous, portal[file])
      BY <1>6, <2>1, <2>3 DEF ReadMetadata
    <3>2. /\ previous \in DOMAIN run.pending[file]
          /\ \A n \in DOMAIN run.pending[file] : n <= previous
      BY <1>3, <1>4, <2>1, <2>2, <2>3, LatestRecorded
    <3>3. previous \in Release(file) /\ previous <= portal[file] /\ portal[file] \in Nat
      BY <1>3, <1>4, <2>1, <2>2, <3>2 DEF RecordsSound, RecordsOf
    <3>4. RunSound'
      BY <1>1, <1>3, <2>1, <2>2, <3>1, <3>2, <3>3, TakingSound
    <3> QED
      BY <1>2, <3>4 DEF CookInv
  <2>4. CASE ~(previous # 0 /\ run.pending[file][previous].updated = portal[file])
    <3>1. run' = [run EXCEPT !.pc = "download", !.updated = portal[file]]
      BY <1>6, <2>1, <2>4 DEF ReadMetadata
    <3>2. file \in File /\ portal[file] \in Nat
      BY <1>3, <1>4, <2>1, <2>2
    <3>3. /\ run' \in Flight(run'.pending)
          /\ run'.pc = "download" /\ run'.updated = portal[file]
          /\ run'.at = run.at /\ run'.code = run.code /\ run'.pending = run.pending
          /\ run'.got = run.got /\ run'.parse = run.parse
      BY <1>4, <2>2, <3>1, <3>2 DEF Flight
    <3>4. /\ run'.code <= code' /\ (run'.pc = "parse" <=> run'.at = 6)
          /\ RecordsSound(run'.pending, portal', code')
          /\ ~run'.parse => run'.pending = record'
      BY <1>1, <1>4, <2>2, <3>3
    <3>5. \A i \in 1..5 : i < run'.at => Taken(run', Files[i])
      BY <1>4, <2>2, <3>3 DEF Taken
    <3>6. run'.updated <= portal'[FileAt(run'.at)]
      BY <1>1, <2>1, <3>2, <3>3
    <3>7. RunSound'
      BY <3>3, <3>4, <3>5, <3>6 DEF RunSound, Taken
    <3> QED
      BY <1>2, <3>7 DEF CookInv
  <2> QED
    BY <2>3, <2>4
<1>7. CASE Download
  <2>1. PICK file, updated : file = FileAt(run.at) /\ updated = run.updated
    OBVIOUS
  <2>2. run.pc = "download" /\ Retrieved(file, portal[file], updated)
    BY <1>7, <2>1 DEF Download
  <2>3. /\ file \in File /\ updated \in Nat /\ updated <= portal[file]
        /\ \A n \in DOMAIN run.pending[file] : n <= portal[file]
    BY <1>4, <2>1, <2>2 DEF Flight
  <2>4. PICK release : release = portal[file]
    OBVIOUS
  <2>5. release \in Release(file) /\ release <= portal[file]
    BY <1>3, <2>3, <2>4
  <2>6. RunSound'
    BY <1>1, <1>3, <2>1, <2>2, <2>3, <2>4, <2>5, TakingSound
  <2> QED
    BY <1>2, <2>6 DEF CookInv
<1>8. CASE TryAgain
  <2>1. run.pc = "download" /\ run' = [run EXCEPT !.attempt = run.attempt + 1]
    BY <1>8 DEF TryAgain
  <2>2. /\ run' \in Flight(run'.pending)
        /\ run'.pc = run.pc /\ run'.updated = run.updated
        /\ run'.at = run.at /\ run'.code = run.code /\ run'.pending = run.pending
        /\ run'.got = run.got /\ run'.parse = run.parse
    BY <1>4, <2>1 DEF Flight
  <2>3. /\ run'.code <= code' /\ (run'.pc = "parse" <=> run'.at = 6)
        /\ RecordsSound(run'.pending, portal', code')
        /\ ~run'.parse => run'.pending = record'
        /\ run'.updated <= portal'[FileAt(run'.at)]
    BY <1>1, <1>4, <2>1, <2>2
  <2>4. \A i \in 1..5 : i < run'.at => Taken(run', Files[i])
    BY <1>4, <2>1, <2>2 DEF Taken
  <2>5. RunSound'
    BY <2>2, <2>3, <2>4 DEF RunSound, Taken
  <2> QED
    BY <1>2, <2>5 DEF CookInv
<1>9. CASE DownloadFails
  <2>1. run'.pc = "failed"
    BY <1>9 DEF DownloadFails, NoRun
  <2>2. RunSound'
    BY <2>1 DEF RunSound, InFlight
  <2> QED
    BY <1>2, <2>2 DEF CookInv
<1> QED
  BY <1>5, <1>6, <1>7, <1>8, <1>9

\* The end of a run that writes no row.
LEMMA QuietSteps ==
  ASSUME CookInv, Unchanged \/ ParseFails
  PROVE  CookInv'
<1>1. /\ run'.pc \in {"succeeded", "failed"} /\ UNCHANGED <<portal, disk, code, db, issues>>
      /\ record' = record \/ (record' = run.pending /\ run.pc = "parse" /\ ~run.parse)
  BY DEF Unchanged, ParseFails, NoRun
<1>2. record' = record
  BY <1>1 DEF CookInv, RunSound, InFlight
<1>3. SourcesTyped' /\ RecordsSound(record, portal, code)' /\ RowsCurrent' /\ RowsHonest'
  BY <1>1, <1>2, RowsStay DEF CookInv, SourcesTyped
<1>4. RunSound'
  BY <1>1 DEF RunSound, InFlight
<1> QED
  BY <1>3, <1>4 DEF CookInv

\* The rows of a run that publishes are those of its corpus, and no row claims more.
LEMMA PublishSteps ==
  ASSUME CookInv, Publish
  PROVE  CookInv'
<1>1. /\ run.pc = "parse" /\ TablesAccepted /\ record' = run.pending /\ run'.pc = "succeeded"
      /\ UNCHANGED <<portal, disk, code>>
  BY DEF Publish, NoRun
<1>2. PICK corpus : /\ corpus = Corpus(disk.edition, run.got)
                    /\ db' = Published(db, Resolved(db, corpus.drafts), run.got)
                    /\ issues' = issues \cup corpus.findings
                                 \cup {<<"unresolved", e>> : e \in Rejected(db, corpus.drafts)}
  BY DEF Publish
<1>3. /\ run \in Flight(run.pending) /\ run.at = 6
      /\ RecordsSound(run.pending, portal, code)
      /\ \A i \in 1..5 : i < run.at => Taken(run, Files[i])
  BY <1>1 DEF CookInv, RunSound, InFlight
<1>4. run.got \in [File -> Nat] /\ \A file \in File : Taken(run, file)
  BY <1>3, FiveFiles DEF Flight
<1>5. run.got \in ReleaseVector
  <2>1. \A file \in File : run.got[file] \in Release(file)
    BY <1>3, <1>4 DEF Taken, RecordsSound, RecordsOf
  <2> QED
    BY <1>4, <2>1 DEF ReleaseVector
<1>6. corpus \in Corpora /\ corpus.edition = disk.edition /\ corpus.releases = run.got
  BY <1>1, <1>2, <1>5, CorpusDrawn DEF TablesAccepted
<1>7. SourcesTyped' /\ RecordsSound(record, portal, code)' /\ RunSound'
  BY <1>1, <1>3 DEF CookInv, SourcesTyped, RunSound, InFlight
<1>8. Recorded' = run.got
  <2>1. ASSUME NEW file \in File
        PROVE  Latest(record', file) = run.got[file]
    <3>1. PICK latest : latest = Latest(record', file)
      OBVIOUS
    <3>2. portal \in [File -> Nat]
      BY DEF CookInv, SourcesTyped
    <3>3. /\ run.got[file] \in DOMAIN record'[file]
          /\ \A n \in DOMAIN record'[file] : n <= run.got[file]
      BY <1>1, <1>4 DEF Taken
    <3>4. /\ latest \in Nat /\ \A n \in DOMAIN record'[file] : n <= latest
          /\ latest # 0 <=> latest \in DOMAIN record'[file]
      BY <1>1, <1>3, <3>1, <3>2, LatestRecorded
    <3>5. run.got[file] \in Nat
      BY <1>4
    <3> QED
      BY <3>1, <3>3, <3>4, <3>5
  <2> QED
    BY <1>4, <2>1 DEF Recorded
<1>9. RowsCurrent'
  <2>1. SUFFICES ASSUME \A issue \in issues' : issue[1] # "unresolved",
                        NEW other \in Corpora, other.edition = disk.edition,
                        other.releases = run.got, other.conflicts = {},
                        NEW e \in other.drafts
                 PROVE  Shown(e[1], e[2])'
    BY <1>1, <1>8 DEF RowsCurrent, CurrentCorpora
  <2>2. other = corpus
    BY <1>6, <2>1, CorpusDrawn
  <2>3. Rejected(db, corpus.drafts) = {}
    <3>1. \A d \in Rejected(db, corpus.drafts) : <<"unresolved", d>> \in issues'
      BY <1>2
    <3> QED
      BY <2>1, <3>1
  <2>4. corpus.conflicts = {} /\ e \in corpus.drafts
    BY <2>1, <2>2
  <2>5. \A next : next = db' => Showing(next, e)
    <3>1. corpus \in Corpora
      BY <1>6
    <3>2. corpus.conflicts = {}
      BY <2>4
    <3>3. e \in corpus.drafts
      BY <2>4
    <3>4. \A source : Showing(Published(db, Resolved(db, corpus.drafts), source), e)
      BY <2>3, <3>1, <3>2, <3>3, CorpusShown
    <3> QED
      BY <1>2, <3>4
  <2> QED
    BY <2>5 DEF Shown, Showing
<1>10. RowsHonest'
  <2>1. SUFFICES ASSUME NEW k \in DOMAIN db'
                 PROVE  /\ k[1] = "decision" => Honest(db'[k].cols)
                        /\ k[1] = "pretrial_release" => Releasing(db'[k].cols)
    BY DEF RowsHonest
  <2>2. PICK resolved : resolved = Resolved(db, corpus.drafts)
    OBVIOUS
  <2>3. \/ k \in DOMAIN db /\ db'[k] = db[k]
        \/ \E f \in Drafted(resolved) : k = RowOf(f) /\ db'[k].cols = f[2].cols
    BY <1>2, <2>2, PublishedDrawn
  <2>4. CASE k \in DOMAIN db /\ db'[k] = db[k]
    BY <2>4 DEF CookInv, RowsHonest
  <2>5. CASE \E f \in Drafted(resolved) : k = RowOf(f) /\ db'[k].cols = f[2].cols
    <3>1. PICK f \in Drafted(resolved) : k = RowOf(f) /\ db'[k].cols = f[2].cols
      BY <2>5
    <3>2. k[1] = f[1]
      BY <3>1 DEF RowOf
    <3>3. resolved \subseteq corpus.drafts
      BY <2>2, ResolvedKept
    <3>4. CASE f \in resolved
      BY <1>6, <3>1, <3>2, <3>3, <3>4, CorpusHonest
    <3>5. CASE f \notin resolved
      <4>1. /\ f[1] = "pretrial_release" /\ "release" \in DOMAIN f[2].cols
            /\ \E d \in resolved : d[1] = "decision" /\ d[2] = f[2]
        BY <3>5, DraftedFrom
      <4>2. Releasing(f[2].cols)
        BY <1>6, <3>3, <4>1, CorpusHonest
      <4> QED
        BY <3>1, <3>2, <4>1, <4>2
    <3> QED
      BY <3>4, <3>5
  <2> QED
    BY <2>3, <2>4, <2>5
<1> QED
  BY <1>7, <1>9, <1>10 DEF CookInv

\* The invariant is inductive: no step of the portal, of the tables or of a run breaks it.
THEOREM CookStep == CookInv /\ [Next]_vars => CookInv'
<1> SUFFICES ASSUME CookInv, [Next]_vars PROVE CookInv'
  OBVIOUS
<1>1. CASE \E file \in File : Republish(file)
  BY <1>1, PortalSteps
<1>2. CASE EditTable \/ BumpVersion
  BY <1>2, TableSteps
<1>3. CASE Begin \/ ReadMetadata \/ Download \/ TryAgain \/ DownloadFails
  BY <1>3, RetrievalSteps
<1>4. CASE Unchanged \/ ParseFails
  BY <1>4, QuietSteps
<1>5. CASE Publish
  BY <1>5, PublishSteps
<1>6. CASE UNCHANGED vars
  <2>1. UNCHANGED <<portal, disk, code, record, db, issues>> /\ run' = run
    BY <1>6 DEF vars
  <2>2. RowsCurrent' /\ RowsHonest'
    BY <2>1, RowsStay DEF CookInv
  <2>3. SourcesTyped' /\ RecordsSound(record, portal, code)'
    BY <2>1 DEF CookInv, SourcesTyped
  <2>4. \A file \in File : portal[file] <= portal'[file]
    BY <2>1 DEF CookInv, SourcesTyped
  <2>5. RunSound'
    BY <2>1, <2>3, <2>4, SourcesMove DEF CookInv, SourcesTyped
  <2> QED
    BY <2>2, <2>3, <2>5 DEF CookInv
<1> QED
  BY <1>1, <1>2, <1>3, <1>4, <1>5, <1>6 DEF Next

\* The inductive invariant of the source's publication: the records are of releases that were
\* published, a run takes the latest, and the rows of the recorded exports are shown.
THEOREM CookInvariant == Spec => []CookInv
BY CookStart, CookStep, PTL DEF Spec

\* A recorded rows-updated time never claims bytes newer than those recorded, so an unchanged
\* time means the recorded release is the portal's; and where no draft was contradicted or
\* rejected, the rows of the recorded exports are published under the tables in force.
LEMMA CurrentFollows == CookInv => (DraftsKeptWhole => CurrentRowsPublished)
<1> SUFFICES ASSUME CookInv, DraftsKeptWhole PROVE CurrentRowsPublished
  OBVIOUS
<1>1. UpToDate => \A corpus \in CurrentCorpora : \A e \in corpus.drafts : Shown(e[1], e[2])
  BY DEF CookInv, RowsCurrent, DraftsKeptWhole, UpToDate
<1>2. ASSUME NEW file \in File, Recorded[file] # 0,
             record[file][Recorded[file]].updated = portal[file]
      PROVE  Recorded[file] = portal[file]
  <2>1. PICK latest : latest = Latest(record, file)
    OBVIOUS
  <2>2. Recorded[file] = latest /\ portal \in [File -> Nat]
    BY <2>1 DEF Recorded, CookInv, SourcesTyped
  <2>3. latest \in DOMAIN record[file] /\ latest \in Nat
    BY <1>2, <2>1, <2>2, LatestRecorded DEF CookInv
  <2>4. latest <= portal[file] /\ record[file][latest].updated <= latest
    BY <2>3 DEF CookInv, RecordsSound, RecordsOf
  <2> QED
    BY <1>2, <2>2, <2>3, <2>4
<1> QED
  BY <1>1, <1>2 DEF CurrentRowsPublished

\* Whatever was published before and whichever releases, tables and runs came in between,
\* a source whose drafts are kept whole shows the rows of its recorded exports
\* (connector.fetch, _retrieve, upsert_rows).
THEOREM CurrentRowsShown == Spec => [](DraftsKeptWhole => CurrentRowsPublished)
BY CookInvariant, CurrentFollows, PTL

LEMMA ClaimsFollow == CookInv => RowsClaimNoMore
<1> SUFFICES ASSUME CookInv PROVE RowsClaimNoMore
  OBVIOUS
<1>1. DecisionsClaimNoMore
  BY DEF CookInv, RowsHonest, DecisionsClaimNoMore, Honest, Releasing
<1>2. ClosedCasesEnded
  BY CorpusClosed DEF ClosedCasesEnded, CurrentCorpora, Ended
<1> QED
  BY <1>1, <1>2 DEF RowsClaimNoMore

\* Under any tables that the loader accepts, and over any exports, no published decision
\* claims another's act for a judge or a bond for a release, and no case drawn from the current
\* exports is closed over a charge that has not ended (rules.py, case.py).
THEOREM RowsNeverClaimMore == Spec => []RowsClaimNoMore
BY CookInvariant, ClaimsFollow, PTL
=============================================================================
