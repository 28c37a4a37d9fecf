------------------------------- MODULE CookCase -------------------------------
(***************************************************************************)
(* One Cook County case: the rows of the five exports that mention it      *)
(* become its canonical drafts (ingest/cook_sao/case.py, build_case).      *)
(*                                                                         *)
(* A row is a record over every column of every export, a column that its  *)
(* export lacks being blank.  Instants are natural numbers, two to a day.  *)
(* A draft is its natural key, the export it is attributed to (home) and   *)
(* its substantive columns; statutes, titles, amounts and the list of the  *)
(* terms are left out.  c below is a case under construction.              *)
(***************************************************************************)
EXTENDS CookRules, SequencesExt

CONSTANTS
  Alphabet,      \* the identifiers and coded values in code-point order
  NormalId       \* the normalized form of each participant id

NoDate == 0
Day(at) == at \div 2
Files == <<"intake", "initiation", "dispositions", "sentencing", "diversion">>
File == ToSet(Files)
PerFile(Op(_)) ==
  [intake |-> Op("intake"), initiation |-> Op("initiation"), dispositions |-> Op("dispositions"),
   sentencing |-> Op("sentencing"), diversion |-> Op("diversion")]
CourtFiles == {"dispositions", "sentencing"}

Position(x) == CHOOSE i \in DOMAIN Alphabet : Alphabet[i] = x
\* sorted(...)[0] of identifiers.
Smallest(S) == CHOOSE x \in S : \A y \in S : Position(x) <= Position(y)
\* The first of a sequence of values, or blank.
FirstOr(seq, default) == IF seq = <<>> THEN default ELSE seq[1]
SmallestOr(S, default) == IF S = {} THEN default ELSE Smallest(S)

Pid(row) == NormalId[row.pid]
VersionKey(row) == <<Pid(row), row.charge, row.version>>
-----------------------------------------------------------------------------
(* Rows. *)

\* The rows whose court the tables place; the others are counted and left out.
RowPlaced(t, file, row) == file \in CourtFiles => CourtsOfRow(t, row.courtName, row.facility) # {}
UsableRows(t, rows) ==
  LET usable(file) == SelectSeq(rows[file], LAMBDA row : RowPlaced(t, file, row)) IN PerFile(usable)

AllOf(usable) == UNION {ToSet(usable[file]) : file \in File}
FilingDay(usable) ==
  LET received == {row.received : row \in AllOf(usable)} \ {NoDate}
  IN  IF received = {} THEN NoDate ELSE Day(Min(received))

CourtKeyOf(t, usable) ==
  CaseCourt(t, UNION {CourtsOfRow(t, row.courtName, row.facility) :
                        row \in UNION {ToSet(usable[file]) : file \in CourtFiles}})

Participants(usable) == {Pid(row) : row \in AllOf(usable)}
\* A participant's position among the case's normalized ids in code-point order.
Ordinals(usable) ==
  [p \in Participants(usable) |->
     Cardinality({q \in Participants(usable) : Position(q) <= Position(p)})]

CaseOf(t, number, rows) ==
  LET usable == UsableRows(t, rows)
  IN  [t |-> t, number |-> number, rows |-> usable, filed |-> FilingDay(usable),
       key |-> <<CourtKeyOf(t, usable), number>>, ordinal |-> Ordinals(usable)]

People(c) == DOMAIN c.ordinal
\* The rows of some exports, export by export in the given order.
RowsOf(c, files) ==
  FlattenSeq([i \in DOMAIN files |->
                [j \in DOMAIN c.rows[files[i]] |-> [file |-> files[i], row |-> c.rows[files[i]][j]]]])
RowsOfPerson(c, files, p) == SelectSeq(RowsOf(c, files), LAMBDA x : Pid(x.row) = p)
\* A participant, and the case, belong to the first export that has a row of them.
HomeOf(c, p) == RowsOfPerson(c, Files, p)[1].file
FirstPresent(c) == RowsOf(c, Files)[1].file

Draft(key, home, cols) == [key |-> key, home |-> home, cols |-> cols]
Child(c, p, judge, cols) == Over([case |-> c.key, person |-> p, judge |-> judge], cols)
-----------------------------------------------------------------------------
(* Restricted attributes. *)

\* The band with the highest floor that the age reaches.
BandFloors == <<[band |-> "55+", floor |-> 55], [band |-> "45-54", floor |-> 45],
                [band |-> "35-44", floor |-> 35], [band |-> "25-34", floor |-> 25],
                [band |-> "18-24", floor |-> 18]>>
AgeBand(age) ==
  FirstOr(SelectSeq(BandFloors, LAMBDA b : age >= b.floor), [band |-> Unknown]).band
AttributeValues(attribute, row) ==
  CASE attribute = "race"     -> IF row.race = Blank THEN {} ELSE RestrictedCategory("race", row.race)
    [] attribute = "gender"   -> IF row.gender = Blank THEN {} ELSE RestrictedCategory("gender", row.gender)
    [] attribute = "age_band" -> IF row.age \in 0..130 THEN {AgeBand(row.age)} ELSE {}

\* The first export with a valid label wins.
AttributeOf(c, p, attribute) ==
  LET valid == SelectSeq(RowsOfPerson(c, Files, p), LAMBDA x : AttributeValues(attribute, x.row) # {})
  IN  IF valid = <<>> THEN Unknown ELSE The(AttributeValues(attribute, valid[1].row))

PartyKeyUnnumbered(c, p) == <<c.key, <<"defendant", 1>>>>  \* mutant
PartyKey(c, p) == <<c.key, <<"defendant", c.ordinal[p]>>>>
AttributeDrafts(c) ==
  {Draft(<<PartyKey(c, p), a>>, HomeOf(c, p), [party |-> PartyKey(c, p), value |-> AttributeOf(c, p, a)]) :
     p \in People(c), a \in {"race", "gender", "age_band"}}
PersonDrafts(c) == {Draft(<<p>>, HomeOf(c, p), [identity |-> p]) : p \in People(c)}
PartyDrafts(c) ==
  {Draft(PartyKey(c, p), HomeOf(c, p), [case |-> c.key, person |-> p]) : p \in People(c)}
-----------------------------------------------------------------------------
(* Charges. *)

VersionFiles == <<"initiation", "dispositions", "sentencing">>
Versions(c) == {VersionKey(x.row) : x \in ToSet(RowsOf(c, VersionFiles))}
VersionRows(c, file, v) == SelectSeq(c.rows[file], LAMBDA row : VersionKey(row) = v)
Disposed(c, v) == \E file \in CourtFiles : VersionRows(c, file, v) # <<>>

\* A version filed in Initiation beside a later version of its charge was amended away.
Replaced(c, v) ==
  /\ ~Disposed(c, v)
  /\ \E w \in Versions(c) : w[1] = v[1] /\ w[2] = v[2] /\ Disposed(c, w)

HomeOfVersion(c, v) ==
  IF VersionRows(c, "dispositions", v) # <<>> THEN "dispositions"
  ELSE IF VersionRows(c, "sentencing", v) # <<>> THEN "sentencing" ELSE "initiation"

ChargeOf(c, v) ==
  LET home    == HomeOfVersion(c, v)
      source  == VersionRows(c, home, v)[1]
      decided == home # "initiation"
      rule    == DispositionRule(c.t, source.disposition, source.reason)
      judges  == IF home = "dispositions" THEN JudgesNamed(c.t, source.judge) ELSE {}
  IN  [participant |-> v[1], charge |-> v[2], version |-> v[3], home |-> home, source |-> source,
       decided |-> decided, at |-> IF decided THEN source.disposedAt ELSE NoDate,
       disposition |-> IF decided THEN rule.disposition ELSE Blank,
       actor |-> IF decided THEN rule.actor ELSE Blank, event |-> IF decided THEN rule.event ELSE Blank,
       judge |-> SmallestOr(judges, Blank),
       ended |-> decided /\ (rule.final \/ rule.disposition \in {"superseded", "transferred"})]

Charges(c) == {ChargeOf(c, v) : v \in {v \in Versions(c) : ~Replaced(c, v)}}

CategoryValue(row) == IF row.updated # Blank THEN row.updated ELSE row.category
Mapped(c, charge) ==
  /\ OffenseCategory(c.t, CategoryValue(charge.source)) # {}
  /\ Severity(c.t, charge.source.class) # {}

ChargeDrafts(c) ==
  {Draft(<<c.key, <<c.ordinal[h.participant], h.charge, h.version>>>>, h.home,
         Child(c, h.participant, h.judge,
               [category |-> The(OffenseCategory(c.t, CategoryValue(h.source))),
                severity |-> The(Severity(c.t, h.source.class)),
                filed |-> c.filed, at |-> h.at, disposition |-> h.disposition, actor |-> h.actor])) :
     h \in {h \in Charges(c) : Mapped(c, h)}}

\* Closed when every charge has ended; the closing day is the latest disposition's.
Closed(c) ==
  /\ Charges(c) # {}
  /\ \A h \in Charges(c) :
       LET versions == {w \in Charges(c) : w.participant = h.participant /\ w.charge = h.charge /\ w.decided}
       IN  versions # {} /\ \A w \in versions : w.ended
ClosingDay(c) ==
  LET dated == {h.at : h \in {h \in Charges(c) : h.ended}} \ {NoDate}
  IN  IF Closed(c) /\ dated # {} THEN Day(Max(dated)) ELSE NoDate

CaseDrafts(c) ==
  {Draft(c.key, FirstPresent(c),
         [court |-> c.key[1], filed |-> c.filed, status |-> IF Closed(c) THEN "closed" ELSE "open",
          closed |-> ClosingDay(c)])}
-----------------------------------------------------------------------------
(* Events. *)

Event(c, p, judge, type, at, actor) ==
  Child(c, p, judge, [type |-> type, at |-> at, actor |-> actor])

\* One event per participant, type, actor and instant, with the smallest judge key.
DispositionEvents(c) ==
  LET eventful == {h \in Charges(c) : h.home = "dispositions" /\ h.at # NoDate /\ h.event # Blank}
      alike(h) == {k \in eventful : k.participant = h.participant /\ k.event = h.event
                                    /\ k.actor = h.actor /\ k.at = h.at}
      judge(h) == SmallestOr({k.judge : k \in alike(h)} \ {Blank}, Blank)
  IN  {Draft(<<c.key, <<"disposition", c.ordinal[h.participant], h.event, h.actor, h.at>>>>, "dispositions",
             Event(c, h.participant, judge(h), h.event, h.at, h.actor)) : h \in eventful}

InitiationEvents(c) ==
  LET dated    == {row \in ToSet(c.rows["initiation"]) : row.eventAt # NoDate}
      charging == {row \in dated : \E e \in Listed(c.t.events, row.event) : e.event # Blank}
      type(row) == The(Listed(c.t.events, row.event)).event
      found    == {row \in dated : row.finding = c.t.finding.value}
  IN  {Draft(<<c.key, <<"initiation", c.ordinal[Pid(row)], type(row), row.eventAt>>>>, "initiation",
             Event(c, Pid(row), Blank, type(row), row.eventAt, Blank)) : row \in charging}
      \cup
      {Draft(<<c.key, <<"finding", c.ordinal[Pid(row)], row.eventAt>>>>, "initiation",
             Event(c, Pid(row), Blank, c.t.finding.event, row.eventAt, c.t.finding.actor)) : row \in found}
-----------------------------------------------------------------------------
(* Decisions. *)

Decision(c, p, type, at, outcome, rule) ==
  Child(c, p, Blank, [type |-> type, at |-> at, outcome |-> outcome, actor |-> rule.actor,
                      discretion |-> rule.discretion])

Reviewed(c, p) ==
  SelectSeq(RowsOfPerson(c, <<"intake", "initiation", "dispositions", "sentencing">>, p),
            LAMBDA x : x.row.review # Blank)
\* The first export with a felony-review result: its result decides, dated or not.
ChargingDecisions(c) ==
  LET first(p)    == Reviewed(c, p)[1]
      rule(p)     == ReviewRule(c.t, first(p).row.review)
      deciding    == {p \in People(c) : /\ Reviewed(c, p) # <<>>
                                        /\ rule(p).outcome # Blank /\ first(p).row.reviewAt # NoDate}
  IN  {Draft(<<c.key, <<"charging", c.ordinal[p]>>>>, first(p).file,
             Decision(c, p, "charging", first(p).row.reviewAt, rule(p).outcome, rule(p))) : p \in deciding}

Bonded(c, p) == SelectSeq(c.rows["initiation"], LAMBDA row : Pid(row) = p /\ row.bond # Blank)
\* The initial bond, under the rule of the regime its own day falls in.
BondDecisions(c) ==
  LET bond(p)  == Bonded(c, p)[1]
      rules(p) == BondRules(c.t, bond(p).bond, Day(bond(p).bondAt))
      bonded   == {p \in People(c) : Bonded(c, p) # <<>> /\ bond(p).bondAt # NoDate /\ rules(p) # {}}
      terms(p) == [release |-> The(rules(p)).release, detained |-> The(rules(p)).detained,
                   releaseAt |-> IF The(rules(p)).releases THEN bond(p).bondAt ELSE NoDate,
                   monitored |-> Monitored(c.t, bond(p).monitor)]
  IN  {Draft(<<c.key, <<"bond", c.ordinal[p]>>>>, "initiation",
             Over(Decision(c, p, "pretrial_release", bond(p).bondAt, bond(p).bond, The(rules(p))), terms(p))) :
         p \in bonded}

Label(c, row) == <<c.ordinal[Pid(row)], row.program, row.referredAt>>
Referrals(c) == SelectSeq(c.rows["diversion"], LAMBDA row : row.referredAt # NoDate)
DiversionDecisions(c) ==
  {Draft(<<c.key, <<"diversion">> \o Label(c, row)>>, "diversion",
         Decision(c, Pid(row), "diversion", row.referredAt, ProgramRule(c.t, row.program).stage,
                  ProgramRule(c.t, row.program))) : row \in ToSet(Referrals(c))}

\* A referral's close: the first row whose result is an event, dated or not.
DiversionEvents(c) ==
  LET type(row) == ResultRule(c.t, row.result).event
      ends(row) == SelectSeq(Referrals(c), LAMBDA x : Label(c, x) = Label(c, row) /\ type(x) # Blank)
      firsts    == {row \in ToSet(Referrals(c)) : ends(row) # <<>> /\ ends(row)[1] = row /\ row.closedAt # NoDate}
  IN  {Draft(<<c.key, <<"diversion_result">> \o Label(c, row)>>, "diversion",
             Event(c, Pid(row), Blank, type(row), row.closedAt, Blank)) : row \in firsts}
-----------------------------------------------------------------------------
(* Sentences. *)

PhaseOrder == <<"original", "probation_violation", "amended", "resentenced", "remanded">>
PhaseRank(phase) == CHOOSE i \in DOMAIN PhaseOrder : PhaseOrder[i] = phase

PhaseIgnored(c, row) == \E p \in Listed(c.t.phases, row.phase) : p.ignored
SentenceRows(c) ==
  SelectSeq(c.rows["sentencing"],
            LAMBDA row : ~PhaseIgnored(c, row) /\ SentenceMatched(c.t, row) /\ row.sentencedAt # NoDate)

GroupKey(c, row) == <<Pid(row), row.sentencedAt, SentenceRow(c.t, row).phase>>
\* One group per participant, date and phase.
SentenceGroups(c) ==
  LET rows(k) == SelectSeq(SentenceRows(c), LAMBDA row : GroupKey(c, row) = k)
  IN  {[participant |-> k[1], at |-> k[2], phase |-> k[3],
        rows |-> rows(k), read |-> [i \in DOMAIN rows(k) |-> SentenceRow(c.t, rows(k)[i])],
        charges |-> {<<row.charge, row.version>> : row \in ToSet(rows(k))}] :
         k \in {GroupKey(c, row) : row \in ToSet(SentenceRows(c))}}

\* A later sentence of the same participant and of one of its charge versions.
Follows(other, group) ==
  /\ other.participant = group.participant
  /\ \/ other.at > group.at
     \/ other.at = group.at /\ PhaseRank(other.phase) > PhaseRank(group.phase)
  /\ group.charges \cap other.charges # {}

\* The longest term of a component among the current rows, or among all when none is.
LongestTerm(group, component) ==
  LET current == {i \in DOMAIN group.rows : group.rows[i].current = "true"}
      pool    == IF current # {} THEN current ELSE DOMAIN group.rows
  IN  Max({NoDays} \cup {group.read[i].days : i \in {i \in pool : group.read[i].term = component}})

\* The most frequent resolved judge, then the smallest key.
SentenceJudge(c, group) ==
  LET named(j) == {i \in DOMAIN group.rows : j \in JudgesNamed(c.t, group.rows[i].judge)}
      judges   == UNION {JudgesNamed(c.t, row.judge) : row \in ToSet(group.rows)}
      most     == {j \in judges : \A k \in judges : Cardinality(named(k)) <= Cardinality(named(j))}
  IN  SmallestOr(most, Blank)

NewSentence(group) == \E i \in DOMAIN group.read : group.read[i].terminates = Blank
SentenceDrafts(c) ==
  LET groups   == SentenceGroups(c)
      later(g) == {o \in groups : Follows(o, g)}
  IN  {Draft(<<c.key, <<c.ordinal[g.participant], Day(g.at), g.phase>>>>, "sentencing",
             Child(c, g.participant, SentenceJudge(c, g),
                   [at |-> g.at, phase |-> g.phase, charges |-> g.charges,
                    incarceration |-> LongestTerm(g, "incarceration"),
                    probation |-> LongestTerm(g, "probation"),
                    superseded |-> \E o \in later(g) : o.read[1].supersedes,
                    replaced |-> \E o \in later(g) : o.read[1].corrects])) :
         g \in {g \in groups : NewSentence(g)}}

\* A probation violation that does not end the probation satisfactorily revokes it.
Revocations(c) ==
  LET revoking == {g \in SentenceGroups(c) :
                     g.read[1].revocation /\ \E i \in DOMAIN g.read : g.read[i].terminates # "satisfactory"}
  IN  {Draft(<<g.participant, "revocation", g.at, c.key>>, "sentencing",
             [person |-> g.participant, case |-> c.key]) : g \in revoking}
-----------------------------------------------------------------------------
(* The case as a whole. *)

CaseKinds == {"person", "case", "case_party", "party_attribute", "charge", "court_event", "decision",
              "sentence", "justice_event"}
DraftsOfKind(c, kind) ==
  CASE kind = "person"          -> PersonDrafts(c)
    [] kind = "case"            -> CaseDrafts(c)
    [] kind = "case_party"      -> PartyDrafts(c)
    [] kind = "party_attribute" -> AttributeDrafts(c)
    [] kind = "charge"          -> ChargeDrafts(c)
    [] kind = "court_event"     -> DispositionEvents(c) \cup InitiationEvents(c) \cup DiversionEvents(c)
    [] kind = "decision"        -> ChargingDecisions(c) \cup BondDecisions(c) \cup DiversionDecisions(c)
    [] kind = "sentence"        -> SentenceDrafts(c)
    [] kind = "justice_event"   -> Revocations(c)

\* A case without a valid received date has no drafts.
DraftsOfCase(c) == [kind \in CaseKinds |-> IF c.filed = NoDate THEN {} ELSE DraftsOfKind(c, kind)]
BuildCase(t, number, rows) == DraftsOfCase(CaseOf(t, number, rows))

\* What a case reports as left out: the finding, the export and the row or the version.
FindingsOfCase(c) ==
  LET sentencing == {row \in ToSet(c.rows["sentencing"]) : ~PhaseIgnored(c, row)}
  IN  IF c.filed = NoDate THEN {<<"case_without_filing_date", c.number>>} ELSE
        {<<"charge_version_replaced", c.number, v>> : v \in {v \in Versions(c) : Replaced(c, v)}}
        \cup {<<"unmapped_value", c.number, <<h.participant, h.charge, h.version>>>> :
                h \in {h \in Charges(c) : ~Mapped(c, h)}}
        \cup {<<"sentence_unmatched", "sentencing", row>> :
                row \in {row \in sentencing : ~SentenceMatched(c.t, row)}}
        \cup {<<"sentence_without_date", "sentencing", row>> :
                row \in {row \in sentencing : SentenceMatched(c.t, row) /\ row.sentencedAt = NoDate}}
        \cup {<<"sentence_phase_ignored", "sentencing", row>> :
                row \in ToSet(c.rows["sentencing"]) \ sentencing}
CaseFindings(t, number, rows) ==
  FindingsOfCase(CaseOf(t, number, rows))
  \cup UNION {{<<"court_unlisted", file, row>> :
                 row \in {row \in ToSet(rows[file]) : ~RowPlaced(t, file, row)}} : file \in CourtFiles}
=============================================================================
