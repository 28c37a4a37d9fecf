---------------------- MODULE SerialResolutionProofs ----------------------
(***************************************************************************)
(* What entity resolution guarantees while its commands run one at a time: *)
(* for every set of persons and cases, whatever drafts a record is         *)
(* published under one after another, whatever the order of the commands,  *)
(* and with a crash at any step.                                           *)
(***************************************************************************)
EXTENDS PersonResolutionProofs, WellFoundedInduction

-----------------------------------------------------------------------------
(* Chains of merge pointers.  P gives each person its row; f is the end of *)
(* its chain, as canonical_person_id walks it.                             *)

Rows == [Person -> PersonRow]
Descending(P) == \A p \in Person : P[p].into # None => P[p].into < p
Walks(P, f) == f = [p \in Person |-> IF P[p].into = None THEN p ELSE f[P[p].into]]

\* Among any persons one was created before the others.
LEMMA EarliestPerson ==
    ASSUME NEW S \in SUBSET Person, S # {}
    PROVE  \E x \in S : \A y \in S : ~(y < x)
<1>1. S \subseteq Nat
  BY PersonAssumption
<1>2. \E x \in S : \A y \in S : ~(<< y, x >> \in OpToRel(<, Nat))
  BY <1>1, NatLessThanWellFounded, WFMin
<1> QED
  BY <1>1, <1>2 DEF OpToRel

\* Walking the pointers is well defined whatever they are: the persons reachable from one are
\* those of the person it points at, and possibly itself.
LEMMA WalkExists ==
    ASSUME NEW P \in Rows
    PROVE  \E f : Walks(P, f)
<1> DEFINE Closed(S) == \A q \in S : P[q].into # None => P[q].into \in S
           Reach(p) == {q \in Person : \A S \in SUBSET Person : p \in S /\ Closed(S) => q \in S}
           Ends(p) == {q \in Reach(p) : P[q].into = None}
           End(p) == CHOOSE q : q \in Ends(p)
           f == [p \in Person |-> End(p)]
<1>1. ASSUME NEW p \in Person, P[p].into # None PROVE P[p].into \in Person
  BY <1>1 DEF Rows, PersonRow
<1>2. ASSUME NEW p \in Person, P[p].into # None PROVE Ends(p) = Ends(P[p].into)
  <2> DEFINE next == P[p].into
  <2>0. next \in Person
    BY <1>1, <1>2
  <2>1. ASSUME NEW q \in Reach(next) PROVE q \in Reach(p)
    <3>1. ASSUME NEW S \in SUBSET Person, p \in S, Closed(S) PROVE q \in S
      BY <1>2, <2>1, <3>1
    <3> QED
      BY <3>1
  <2>2. ASSUME NEW q \in Ends(p) PROVE q \in Reach(next)
    <3>0. q # p /\ q \in Person
      BY <1>2
    <3>1. ASSUME NEW S \in SUBSET Person, next \in S, Closed(S) PROVE q \in S
      <4>1. Closed(S \cup {p})
        BY <3>1
      <4>2. S \cup {p} \in SUBSET Person /\ p \in S \cup {p}
        OBVIOUS
      <4>3. q \in S \cup {p}
        BY <4>1, <4>2
      <4> QED
        BY <3>0, <4>3
    <3> QED
      BY <3>0, <3>1
  <2> QED
    BY <2>1, <2>2
<1>3. ASSUME NEW p \in Person, P[p].into = None PROVE Ends(p) = {p}
  <2>1. p \in Ends(p)
    BY <1>3
  <2>2. Closed({p})
    BY <1>3
  <2>3. \A q \in Reach(p) : q \in {p}
    BY <2>2
  <2> QED
    BY <2>1, <2>3
<1>4. ASSUME NEW p \in Person
      PROVE  End(p) = IF P[p].into = None THEN p ELSE End(P[p].into)
  BY <1>2, <1>3
<1> HIDE DEF End
<1>5. \A p \in Person : f[p] = IF P[p].into = None THEN p ELSE f[P[p].into]
  BY <1>1, <1>4
<1>6. f = [p \in Person |-> IF P[p].into = None THEN p ELSE f[P[p].into]]
  BY <1>5
<1> QED
  BY <1>6 DEF Walks

\* The end of a chain is an earlier person, or the person itself, that is not merged.
LEMMA WalkEnds ==
    ASSUME NEW P \in Rows, Descending(P), NEW f, Walks(P, f), NEW p \in Person
    PROVE  f[p] \in Person /\ f[p] <= p /\ P[f[p]].into = None
<1> DEFINE bad == {q \in Person : ~(f[q] \in Person /\ f[q] <= q /\ P[f[q]].into = None)}
<1>1. \A q \in Person : f[q] = IF P[q].into = None THEN q ELSE f[P[q].into]
  BY DEF Walks
<1>2. CASE bad # {}
  <2>1. PICK x \in bad : \A y \in bad : ~(y < x)
    BY <1>2, EarliestPerson
  <2>2. CASE P[x].into = None
    BY <1>1, <2>1, <2>2, PersonAssumption
  <2>3. CASE P[x].into # None
    <3>1. P[x].into \in Person /\ P[x].into < x
      BY <2>1, <2>3 DEF Rows, PersonRow, Descending
    <3>2. P[x].into \notin bad /\ f[x] = f[P[x].into]
      BY <1>1, <2>1, <2>3, <3>1
    <3>3. f[x] \in Person /\ f[x] <= P[x].into /\ P[f[x]].into = None
      BY <3>1, <3>2
    <3>4. x \in Nat /\ f[x] \in Nat /\ P[x].into \in Nat
      BY <2>1, <3>1, <3>3, PersonAssumption
    <3>5. f[x] <= x
      BY <3>1, <3>3, <3>4
    <3> QED
      BY <2>1, <3>3, <3>5
  <2> QED
    BY <2>2, <2>3
<1> QED
  BY <1>2

\* Adding pointers only lengthens chains: the end of the longer chain is the end of the longer
\* chain of the shorter one's end.
LEMMA WalkExtends ==
    ASSUME NEW P \in Rows, Descending(P), NEW f, Walks(P, f),
           NEW Q \in Rows, NEW g, Walks(Q, g),
           \A p \in Person : P[p].into # None => Q[p].into = P[p].into,
           NEW p \in Person
    PROVE  g[p] = g[f[p]]
<1> DEFINE bad == {q \in Person : g[q] # g[f[q]]}
<1>1. \A q \in Person : /\ f[q] = IF P[q].into = None THEN q ELSE f[P[q].into]
                        /\ g[q] = IF Q[q].into = None THEN q ELSE g[Q[q].into]
  BY DEF Walks
<1>2. CASE bad # {}
  <2>1. PICK x \in bad : \A y \in bad : ~(y < x)
    BY <1>2, EarliestPerson
  <2>2. P[x].into # None
    BY <1>1, <2>1
  <2>3. P[x].into \in Person /\ P[x].into < x
    BY <2>1, <2>2 DEF Rows, PersonRow, Descending
  <2>4. P[x].into \notin bad /\ f[x] = f[P[x].into] /\ g[x] = g[P[x].into]
    BY <1>1, <2>1, <2>2, <2>3
  <2> QED
    BY <2>1, <2>3, <2>4
<1> QED
  BY <1>2

\* There is one way to walk.
LEMMA WalkUnique ==
    ASSUME NEW P \in Rows, Descending(P), NEW f, Walks(P, f),
           NEW Q \in Rows, NEW g, Walks(Q, g),
           \A p \in Person : Q[p].into = P[p].into
    PROVE  f = g
<1>1. ASSUME NEW p \in Person PROVE g[p] = f[p]
  <2>1. g[p] = g[f[p]]
    BY WalkExtends
  <2>2. f[p] \in Person /\ Q[f[p]].into = None
    BY WalkEnds
  <2> QED
    BY <2>1, <2>2 DEF Walks
<1>2. /\ f = [p \in Person |-> IF P[p].into = None THEN p ELSE f[P[p].into]]
      /\ g = [p \in Person |-> IF Q[p].into = None THEN p ELSE g[Q[p].into]]
  BY DEF Walks
<1>3. f = [p \in Person |-> f[p]] /\ g = [p \in Person |-> g[p]]
  BY <1>2
<1> QED
  BY <1>1, <1>3
-----------------------------------------------------------------------------
(* The inductive invariant of one command at a time.                       *)

\* Two known persons.
Known(P, q) == P[q[1]].state # "absent" /\ P[q[2]].state # "absent"

\* Two persons share a name through the identifier rows I they hold.
Share(I, q) == \E h \in OfKind("full_name") : << q[1], h >> \in I /\ << q[2], h >> \in I

\* Two persons, or two that count as them in f, have a candidate.
Compared(C, f, q) == \E x \in Pair : C[x] # None /\ {f[x[1]], f[x[2]]} = {q[1], q[2]}

\* Where a transaction alone at work stands.  The person being emptied: rows moved, pointer not yet.
Emptied(t) == IF pc[t] = "mark" THEN drop[t] ELSE None

\* Whom each person's rows have come to: the one being emptied counts as the one that is kept.
StandsFor(t) ==
    IF pc[t] # "mark" THEN Canonical(t)
    ELSE [p \in Person |-> IF Canonical(t)[p] = drop[t] THEN keep[t] ELSE Canonical(t)[p]]

\* Persons P with rows R and identifiers I keep together: exactly merged persons carry a pointer,
\* to an earlier known person; and every row hangs on a person that is not merged, nor being
\* emptied.
KeptTogether(P, R, I, emptied) ==
    /\ \A p \in Person :
        /\ (P[p].state = "merged") <=> (P[p].into # None)
        /\ P[p].into # None => P[p].into < p /\ P[P[p].into].state # "absent"
        /\ (R[p].holder = None) <=> (P[p].state = "absent")
        /\ R[p].holder # None => P[R[p].holder].state = "resolved" /\ R[p].holder # emptied
        /\ R[p].party # None => P[R[p].party].state = "resolved" /\ R[p].party # emptied
    /\ \A x \in I : P[x[1]].state = "resolved" /\ x[1] # emptied

\* Candidates C are of known persons, and every two persons that share a name have been compared,
\* but for the pairs the transaction has still to judge.
AllJudged(P, I, C, f, unjudged) == \A q \in Pair :
    /\ C[q] # None => Known(P, q)
    /\ Share(I, q) => q \in unjudged \/ Compared(C, f, q)

\* A matched pair counts as one person in f, or is still to be merged.
MatchesMet(C, f, unmerged) == \A q \in Pair :
    C[q] # None /\ C[q].decision = "matched" => f[q[1]] = f[q[2]] \/ q \in unmerged

PersonsSeen(t) == [p \in Person |-> PersonSeen(t, p)]
RowsSeen(t) == [r \in Person |-> RowSeen(t, r)]
CandsSeen(t) == [q \in Pair |-> CandSeen(t, q)]

Unjudged(t) ==
    CASE pc[t] \in {"identify", "publish", "block"} /\ kind[t] = "ingest" ->
           {q \in Pair : \E r \in batch[t] : ids[t][r] \in {q[1], q[2]}}
      [] pc[t] = "evaluate" -> pairs[t]
      [] pc[t] = "upsert" -> {q \in Pair : verdict[t][q] # None}
      [] OTHER -> {}

\* What a transaction has written so far only adds to what is committed.
OnlyAdds(t) ==
    /\ \A p \in Person :
         /\ person[p].state # "absent" => PersonsSeen(t)[p].state # "absent"
         /\ person[p].into # None => PersonsSeen(t)[p].into = person[p].into
    /\ \A q \in Pair : cand[q] # None => CandsSeen(t)[q] # None
    /\ \A q \in Pair : cand[q] # None /\ HumanDecided(cand[q]) => CandsSeen(t)[q] = cand[q]

\* The steps of a command, from what it has gathered to what it works on.
Gathered(t) ==
    /\ pc[t] = "idle" => /\ \A p \in Person : PersonsSeen(t)[p] = person[p] /\ RowsSeen(t)[p] = row[p]
                         /\ IdentSeen(t) = ident
                         /\ \A q \in Pair : CandsSeen(t)[q] = cand[q]
    /\ pc[t] \in {"resolve", "identify", "publish"} => kind[t] = "ingest"
    /\ pc[t] \in {"identify", "publish", "block"} /\ kind[t] = "ingest" =>
         \A r \in batch[t] : ids[t][r] \in Person /\ PersonsSeen(t)[ids[t][r]].state = "resolved"
    /\ pc[t] = "identify" => \A x \in due[t] : \E r \in batch[t] : x[1] = ids[t][r]
    /\ pc[t] \in {"identify", "publish"} => \A r \in batch[t] : RowsSeen(t)[r].holder = ids[t][r]
    /\ pc[t] = "evaluate" => \A q \in pairs[t] : Known(PersonsSeen(t), q)
    /\ pc[t] = "upsert" => \A q \in Pair : verdict[t][q] # None => Known(PersonsSeen(t), q)
    /\ pc[t] \notin {"next", "check", "move", "mark"} => todo[t] = {}
    /\ kind[t] = "review" => todo[t] = {}
    /\ \A q \in todo[t] : CandsSeen(t)[q] # None

\* A merge under way, or a review, and the persons its pair counts as.
Merging(t) ==
    /\ Underway(t) =>
         /\ PersonsSeen(t)[keep[t]].state = "resolved" /\ PersonsSeen(t)[drop[t]].state = "resolved"
         /\ kind[t] # "review" => /\ current[t] \in todo[t]
                                  /\ {Canonical(t)[current[t][1]], Canonical(t)[current[t][2]]}
                                       = {keep[t], drop[t]}
    /\ kind[t] = "review" /\ (Underway(t) \/ pc[t] = "decide") =>
         /\ CandsSeen(t)[current[t]] = SystemCandidate("review")
         /\ cand[current[t]] = SystemCandidate("review")
    /\ pc[t] = "decide" => kind[t] = "review"
    /\ pc[t] = "decide" /\ choice[t] = "matched" =>
         Canonical(t)[current[t][1]] = Canonical(t)[current[t][2]]

Committed ==
    /\ KeptTogether(person, row, ident, None)
    /\ AllJudged(person, ident, cand, Survivor, {})
    /\ MatchesMet(cand, Survivor, {})

UnderWork(t) ==
    /\ KeptTogether(PersonsSeen(t), RowsSeen(t), IdentSeen(t), Emptied(t))
    /\ AllJudged(PersonsSeen(t), IdentSeen(t), CandsSeen(t), StandsFor(t), Unjudged(t))
    /\ MatchesMet(CandsSeen(t), Canonical(t), todo[t])
    /\ OnlyAdds(t) /\ Gathered(t) /\ Merging(t)

SerialInv == Committed /\ \A t \in Tx : UnderWork(t)

-----------------------------------------------------------------------------
(* What a transaction sees, as rows.                                       *)

\* The rows a transaction sees are well formed, and canonical_person_id walks their pointers.
LEMMA CanonicalWalks ==
    ASSUME TypeOK, NEW t \in Tx
    PROVE  PersonsSeen(t) \in Rows /\ Walks(PersonsSeen(t), Canonical(t))
<1>1. PersonsSeen(t) \in Rows
  BY DEF TypeOK, PersonsSeen, PersonSeen, Rows
<1>2. PICK f : Walks(PersonsSeen(t), f)
  BY <1>1, WalkExists
<1>3. f = [p \in Person |-> IF PersonSeen(t, p).into = None THEN p ELSE f[PersonSeen(t, p).into]]
  BY <1>2 DEF Walks, PersonsSeen
<1>4. Canonical(t) = [p \in Person |-> IF PersonSeen(t, p).into = None THEN p
                                       ELSE Canonical(t)[PersonSeen(t, p).into]]
  BY <1>3 DEF Canonical
<1> QED
  BY <1>1, <1>4 DEF Walks, PersonsSeen

\* The same after a step.
LEMMA CanonicalWalksNext ==
    ASSUME TypeOK', NEW t \in Tx
    PROVE  PersonsSeen(t)' \in Rows /\ Walks(PersonsSeen(t)', Canonical(t)')
<1>1. PersonsSeen(t)' \in Rows
  BY DEF TypeOK, PersonsSeen, PersonSeen, Rows
<1>2. PICK f : Walks(PersonsSeen(t)', f)
  BY <1>1, WalkExists
<1>3. f = [p \in Person |-> IF PersonSeen(t, p)'.into = None THEN p
                            ELSE f[PersonSeen(t, p)'.into]]
  BY <1>2 DEF Walks, PersonsSeen
<1>4. Canonical(t)' = [p \in Person |-> IF PersonSeen(t, p)'.into = None THEN p
                                        ELSE Canonical(t)'[PersonSeen(t, p)'.into]]
  BY <1>3 DEF Canonical
<1> QED
  BY <1>1, <1>4 DEF Walks, PersonsSeen

\* So are the committed rows, and the committed survivors.
LEMMA SurvivorWalks ==
    ASSUME TypeOK
    PROVE  person \in Rows /\ Walks(person, Survivor)
<1>1. person \in Rows
  BY DEF TypeOK, Rows
<1>2. PICK f : Walks(person, f)
  BY <1>1, WalkExists
<1>3. Survivor = [p \in Person |-> IF person[p].into = None THEN p ELSE Survivor[person[p].into]]
  BY <1>2 DEF Walks, Survivor
<1> QED
  BY <1>1, <1>3 DEF Walks

\* The same after a step.
LEMMA SurvivorWalksNext ==
    ASSUME TypeOK'
    PROVE  person' \in Rows /\ Walks(person', Survivor')
<1>1. person' \in Rows
  BY DEF TypeOK, Rows
<1>2. PICK f : Walks(person', f)
  BY <1>1, WalkExists
<1>3. Survivor' = [p \in Person |-> IF person'[p].into = None THEN p
                                    ELSE Survivor'[person'[p].into]]
  BY <1>2 DEF Walks, Survivor
<1> QED
  BY <1>1, <1>3 DEF Walks

\* The rows a transaction sees, one by one.
LEMMA Seen ==
    ASSUME NEW t \in Tx
    PROVE  /\ \A p \in Person : PersonSeen(t, p) = PersonsSeen(t)[p]
           /\ \A r \in Person : RowSeen(t, r) = RowsSeen(t)[r]
           /\ \A q \in Pair : CandSeen(t, q) = CandsSeen(t)[q]
           /\ \A p \in Person : PersonSeen(t, p)' = PersonsSeen(t)'[p]
           /\ \A r \in Person : RowSeen(t, r)' = RowsSeen(t)'[r]
           /\ \A q \in Pair : CandSeen(t, q)' = CandsSeen(t)'[q]
  BY DEF PersonsSeen, RowsSeen, CandsSeen

\* Two persons carry a blocking signal exactly when they share a name: a stable identifier is of
\* one person.
LEMMA SignalIsName ==
    ASSUME NEW t \in Tx, NEW q \in Pair
    PROVE  HasSignal(ComputeFeatures(Profile(t, q[1]), Profile(t, q[2])))
              <=> Share(IdentSeen(t), q)
<1>1. q[1] \in Person /\ q[2] \in Person /\ q[1] # q[2]
  BY PairParts, PersonAssumption
<1> DEFINE Held(p) == {r \in Person : RowSeen(t, r).holder = p}
           features == ComputeFeatures(Profile(t, q[1]), Profile(t, q[2]))
<1>2. /\ features.same_source_id = Meet(Held(q[1]), Held(q[2]))
      /\ features.same_name = Meet(HashesSeen(t, q[1], "full_name"), HashesSeen(t, q[2], "full_name"))
  BY DEF ComputeFeatures, Profile
<1>3. ~Meet(Held(q[1]), Held(q[2]))
  BY <1>1 DEF Meet
<1>4. Meet(HashesSeen(t, q[1], "full_name"), HashesSeen(t, q[2], "full_name"))
        <=> Share(IdentSeen(t), q)
  BY DEF Meet, HashesSeen, Share
<1> QED
  BY <1>2, <1>3, <1>4 DEF HasSignal

\* Two different persons make a pair.
LEMMA PairOf ==
    ASSUME NEW p \in Person, NEW o \in Person, p # o
    PROVE  \E y \in Pair : {y[1], y[2]} = {p, o}
<1>1. p \in Nat /\ o \in Nat
  BY PersonAssumption
<1>2. CASE p < o
  <2>1. << p, o >> \in Pair
    BY <1>2 DEF Pair
  <2> QED
    BY <2>1
<1>3. CASE o < p
  <2>1. << o, p >> \in Pair
    BY <1>3 DEF Pair
  <2> QED
    BY <2>1
<1> QED
  BY <1>1, <1>2, <1>3

\* After a step too a transaction sees identifier rows.
LEMMA IdentsTypedNext ==
    ASSUME TypeOK', NEW t \in Tx
    PROVE  IdentSeen(t)' \in SUBSET IdentifierRow
<1>1. /\ wIdent'[t].inserted \in SUBSET IdentifierRow
      /\ ident' \in SUBSET IdentifierRow
  BY DEF TypeOK
<1> QED
  BY <1>1 DEF IdentSeen

\* Two unmerged persons with a candidate of their own have been compared.
LEMMA OwnCandidate ==
    ASSUME NEW P, NEW f, Walks(P, f), NEW C, NEW q \in Pair,
           P[q[1]].into = None, P[q[2]].into = None, C[q] # None
    PROVE  Compared(C, f, q)
<1>1. f[q[1]] = q[1] /\ f[q[2]] = q[2]
  BY PairParts DEF Walks
<1> QED
  BY <1>1 DEF Compared

\* Only the ends of the chains tell whether all is judged.
LEMMA JudgedAlike ==
    ASSUME NEW P, NEW I, NEW C, NEW f, NEW g, NEW unjudged,
           \A p \in Person : f[p] = g[p]
    PROVE  AllJudged(P, I, C, f, unjudged) <=> AllJudged(P, I, C, g, unjudged)
<1>1. \A q \in Pair : Compared(C, f, q) <=> Compared(C, g, q)
  BY PairParts DEF Compared
<1> QED
  BY <1>1 DEF AllJudged

\* Deletes and inserts of identifier rows that have nothing in common do both.
LEMMA IdentsAfter ==
    ASSUME TypeOK, NEW t \in Tx, NEW deletes, NEW inserts, deletes \cap inserts = {},
           WriteIdents(t, deletes, inserts), UNCHANGED ident
    PROVE  IdentSeen(t)' = (IdentSeen(t) \ deletes) \cup inserts
<1>1. wIdent'[t] = [inserted |-> (wIdent[t].inserted \ deletes) \cup inserts,
                    deleted |-> (wIdent[t].deleted \ inserts) \cup deletes]
  BY DEF WriteIdents, TypeOK
<1>2. /\ wIdent'[t].inserted = (wIdent[t].inserted \ deletes) \cup inserts
      /\ wIdent'[t].deleted = (wIdent[t].deleted \ inserts) \cup deletes
  BY <1>1
<1>3. IdentSeen(t)' = (ident \ wIdent'[t].deleted) \cup wIdent'[t].inserted
  BY DEF IdentSeen
<1> QED
  BY <1>2, <1>3 DEF IdentSeen

\* A step that writes no row shows its transaction the same rows and survivors.
LEMMA SeenKept ==
    ASSUME NEW t \in Tx,
           UNCHANGED << person, row, ident, cand, wPerson, wRow, wIdent, wCand >>
    PROVE  /\ PersonsSeen(t)' = PersonsSeen(t)
           /\ RowsSeen(t)' = RowsSeen(t)
           /\ CandsSeen(t)' = CandsSeen(t)
           /\ IdentSeen(t)' = IdentSeen(t)
           /\ \A p \in Person : PersonSeen(t, p)' = PersonSeen(t, p)
           /\ \A r \in Person : RowSeen(t, r)' = RowSeen(t, r)
           /\ \A q \in Pair : CandSeen(t, q)' = CandSeen(t, q)
           /\ Canonical(t)' = Canonical(t)
           /\ OnlyAdds(t) => OnlyAdds(t)'
<1>1. /\ \A p \in Person : PersonSeen(t, p)' = PersonSeen(t, p)
      /\ \A r \in Person : RowSeen(t, r)' = RowSeen(t, r)
      /\ \A q \in Pair : CandSeen(t, q)' = CandSeen(t, q)
  BY DEF PersonSeen, RowSeen, CandSeen
<1>2. Canonical(t)' = Canonical(t)
  BY DEF Canonical, PersonSeen
<1> QED
  BY <1>1, <1>2 DEF PersonsSeen, RowsSeen, CandsSeen, IdentSeen, OnlyAdds

\* The rows a transaction sees have the types of the committed ones.
LEMMA SeenTyped ==
    ASSUME TypeOK, NEW t \in Tx
    PROVE  /\ PersonsSeen(t) \in [Person -> PersonRow]
           /\ RowsSeen(t) \in [Person -> RecordRow]
           /\ CandsSeen(t) \in [Pair -> Candidate \cup {None}]
  BY DEF TypeOK, PersonsSeen, RowsSeen, CandsSeen, PersonSeen, RowSeen, CandSeen

\* A known person counts as one that is not merged.
LEMMA SurvivorResolved ==
    ASSUME NEW P \in Rows, Descending(P), NEW f, Walks(P, f),
           NEW R, NEW I, NEW emptied, KeptTogether(P, R, I, emptied),
           NEW p \in Person, P[p].state # "absent"
    PROVE  /\ f[p] \in Person
           /\ P[f[p]].state = "resolved"
<1> DEFINE bad == {q \in Person : P[q].state # "absent" /\ P[f[q]].state = "absent"}
<1>1. \A q \in Person : f[q] = IF P[q].into = None THEN q ELSE f[P[q].into]
  BY DEF Walks
<1>2. CASE bad # {}
  <2>1. PICK x \in bad : \A y \in bad : ~(y < x)
    BY <1>2, EarliestPerson
  <2>2. P[x].into # None
    BY <1>1, <2>1
  <2>3. P[x].into \in Person /\ P[x].into < x
    BY <2>1, <2>2 DEF Rows, PersonRow, Descending
  <2>4. P[P[x].into].state # "absent"
    BY <2>1, <2>2 DEF KeptTogether
  <2>5. P[x].into \notin bad /\ f[x] = f[P[x].into]
    BY <1>1, <2>1, <2>2, <2>3
  <2> QED
    BY <2>1, <2>3, <2>4, <2>5
<1>3. CASE bad = {}
  <2>1. f[p] \in Person /\ P[f[p]].into = None
    BY WalkEnds
  <2>2. P[f[p]].state # "absent"
    BY <1>3
  <2> QED
    BY <2>1, <2>2 DEF KeptTogether, Rows, PersonRow
<1> QED
  BY <1>2, <1>3

-----------------------------------------------------------------------------
(* Each step of the command at work.                                       *)

\* The beginning of an ingest or of a rerun leaves everything as it is.
LEMMA BeginStep ==
    ASSUME TypeOK, Committed, NEW t \in Tx, UnderWork(t), BeginIngest(t) \/ BeginRerun(t)
    PROVE  UnderWork(t)'
<1>1. /\ pc[t] = "idle" /\ pc'[t] \in {"resolve", "block"}
      /\ pc'[t] = "resolve" => kind'[t] = "ingest"
      /\ pc'[t] = "block" => kind'[t] = "rerun"
      /\ kind'[t] \in {"ingest", "rerun"}
      /\ UNCHANGED << person, row, ident, cand, wPerson, wRow, wIdent, wCand, todo >>
  BY DEF BeginIngest, BeginRerun, Begin, Go, TypeOK, store, writes, work
<1>2. /\ PersonsSeen(t)' = PersonsSeen(t) /\ RowsSeen(t)' = RowsSeen(t)
      /\ CandsSeen(t)' = CandsSeen(t) /\ Canonical(t)' = Canonical(t)
      /\ IdentSeen(t)' = IdentSeen(t)
      /\ OnlyAdds(t)'
  BY <1>1, SeenKept DEF UnderWork
<1>3. Emptied(t) = None /\ Emptied(t)' = None /\ Unjudged(t) = {} /\ Unjudged(t)' = {}
      /\ StandsFor(t)' = StandsFor(t)
  BY <1>1, <1>2 DEF Emptied, Unjudged, StandsFor
<1>4. Gathered(t)' /\ Merging(t)'
  BY <1>1 DEF UnderWork, Gathered, Merging, Underway
<1> QED
  BY <1>1, <1>2, <1>3, <1>4 DEF UnderWork

\* A review begins on a candidate to be reviewed, of two unmerged persons.
LEMMA BeginReviewStep ==
    ASSUME TypeOK, TypeOK', Committed, NEW t \in Tx, UnderWork(t), BeginReview(t)
    PROVE  UnderWork(t)'
<1>1. PICK pair \in Pair, decision \in {"matched", "rejected"} :
         /\ Reviewable(t, pair)
         /\ current' = [current EXCEPT ![t] = pair]
         /\ keep' = [keep EXCEPT ![t] = pair[1]]
         /\ drop' = [drop EXCEPT ![t] = pair[2]]
         /\ choice' = [choice EXCEPT ![t] = decision]
         /\ Go(t, IF decision = "matched" THEN "check" ELSE "decide")
  BY DEF BeginReview
<1>2. /\ current'[t] = pair /\ keep'[t] = pair[1] /\ drop'[t] = pair[2]
      /\ pc'[t] = "check" \/ (pc'[t] = "decide" /\ choice'[t] # "matched")
      /\ pc[t] = "idle" /\ kind'[t] = "review"
      /\ UNCHANGED << person, row, ident, cand, wPerson, wRow, wIdent, wCand, todo >>
  BY <1>1 DEF BeginReview, Begin, Go, TypeOK, store, writes, work
<1>3. /\ PersonsSeen(t)' = PersonsSeen(t) /\ RowsSeen(t)' = RowsSeen(t)
      /\ CandsSeen(t)' = CandsSeen(t) /\ Canonical(t)' = Canonical(t)
      /\ IdentSeen(t)' = IdentSeen(t)
      /\ OnlyAdds(t)'
  BY <1>2, SeenKept DEF UnderWork
<1>4. Emptied(t) = None /\ Emptied(t)' = None /\ Unjudged(t) = {} /\ Unjudged(t)' = {}
      /\ StandsFor(t)' = StandsFor(t)
  BY <1>2, <1>3 DEF Emptied, Unjudged, StandsFor
<1>5. todo[t] = {}
  BY <1>2 DEF UnderWork, Gathered
<1>6. Gathered(t)'
  BY <1>2, <1>5 DEF Gathered
<1>7. /\ CandsSeen(t)[pair] = cand[pair] /\ cand[pair] = SystemCandidate("review")
      /\ Known(person, pair)
  <2>1. cand[pair] # None
    BY <1>1, RowAssumption DEF Reviewable, SystemCandidate, Candidate, Decisions
  <2> QED
    BY <1>1, <1>2, <2>1 DEF UnderWork, Gathered, Reviewable, Committed, AllJudged
<1>8. /\ PersonsSeen(t)[pair[1]].state = "resolved" /\ PersonsSeen(t)[pair[2]].state = "resolved"
  BY <1>1, <1>4, <1>7, PairParts, Seen, SeenTyped
  DEF Reviewable, Unmerged, UnderWork, KeptTogether, Known, PersonRow
<1>9. Merging(t)'
  BY <1>2, <1>3, <1>7, <1>8 DEF Merging, Underway
<1> QED
  BY <1>2, <1>3, <1>4, <1>6, <1>9 DEF UnderWork

\* New persons hold their own records; the pairs they are in remain to be judged.
LEMMA ResolvePersonsStep ==
    ASSUME TypeOK, TypeOK', NEW t \in Tx, UnderWork(t),
           ResolvePersons(t), Descending(PersonsSeen(t))
    PROVE  UnderWork(t)'
<1> DEFINE P == PersonsSeen(t)
           R == RowsSeen(t)
           C == CandsSeen(t)
           I == IdentSeen(t)
           new == {r \in batch[t] : R[r].holder = None}
<1>1. /\ pc[t] = "resolve" /\ pc'[t] = "identify"
      /\ UNCHANGED << person, row, ident, cand, wIdent, wCand, kind, batch, todo >>
      /\ batch[t] \subseteq Person /\ kind[t] = "ingest"
  BY DEF ResolvePersons, Go, TypeOK, store, work, UnderWork, Gathered
<1>2. /\ \A p \in Person : PersonsSeen(t)'[p] = IF p \in new THEN Resolved ELSE P[p]
      /\ \A r \in Person : RowsSeen(t)'[r] = IF r \in new THEN [holder |-> r, party |-> None]
                                             ELSE R[r]
      /\ CandsSeen(t)' = C /\ IdentSeen(t)' = I
      /\ \A r \in batch[t] : ids'[t][r] = IF r \in new THEN r ELSE R[r].holder
  <2>1. /\ Resolved # NoWrite
        /\ \A r \in Person : [holder |-> r, party |-> None] # NoWrite
    BY RowAssumption DEF Resolved, PersonRow, RecordRow
  <2>2. \A r \in batch[t] : RowSeen(t, r).holder = R[r].holder
    BY <1>1, Seen
  <2>3. /\ \A p \in Person : wPerson'[t][p] = IF p \in new THEN Resolved ELSE wPerson[t][p]
        /\ \A r \in Person : wRow'[t][r] = IF r \in new THEN [holder |-> r, party |-> None]
                                           ELSE wRow[t][r]
        /\ \A r \in batch[t] : ids'[t][r] = IF r \in new THEN r ELSE R[r].holder
    BY <1>1, <2>2 DEF ResolvePersons, TypeOK
  <2> QED
    BY <1>1, <2>1, <2>3
    DEF PersonsSeen, RowsSeen, CandsSeen, IdentSeen, PersonSeen, RowSeen, CandSeen
<1> DEFINE P2 == PersonsSeen(t)'
           R2 == RowsSeen(t)'
           f == Canonical(t)
           g == Canonical(t)'
<1>3. P \in Rows /\ R \in [Person -> RecordRow] /\ P2 \in Rows /\ Walks(P, f) /\ Walks(P2, g)
  BY CanonicalWalks, CanonicalWalksNext, SeenTyped
<1>4. Emptied(t) = None /\ Emptied(t)' = None /\ Unjudged(t) = {} /\ todo[t] = {}
      /\ StandsFor(t) = f /\ StandsFor(t)' = g
  BY <1>1 DEF Emptied, Unjudged, UnderWork, Gathered, StandsFor
<1>5. KeptTogether(P, R, I, None) /\ AllJudged(P, I, C, f, {}) /\ MatchesMet(C, f, {}) /\ OnlyAdds(t)
  BY <1>4 DEF UnderWork
<1>6. \A r \in new : P[r].state = "absent" /\ P[r].into = None
  BY <1>1, <1>5 DEF KeptTogether
<1> HIDE DEF P, R, C, I, P2, R2, f, g, new
<1>7. \A p \in Person : P2[p].into = P[p].into
  BY <1>2, <1>6 DEF Resolved, P2
<1>8. KeptTogether(P2, R2, I, None)
  <2>1. \A p \in Person : /\ p \notin new => P2[p] = P[p] /\ R2[p] = R[p]
                          /\ p \in new => /\ P2[p].state = "resolved" /\ P2[p].into = None
                                          /\ R2[p].holder = p /\ R2[p].party = None
    <3>1. ASSUME NEW p \in Person, p \notin new PROVE P2[p] = P[p] /\ R2[p] = R[p]
      BY <1>2, <3>1 DEF P2, R2
    <3>2. ASSUME NEW p \in Person, p \in new
          PROVE  /\ P2[p].state = "resolved" /\ P2[p].into = None
                 /\ R2[p].holder = p /\ R2[p].party = None
      <4>1. P2[p] = Resolved /\ R2[p] = [holder |-> p, party |-> None]
        BY <1>2, <3>2 DEF P2, R2
      <4> QED
        BY <4>1 DEF Resolved
    <3> QED
      BY <3>1, <3>2
  <2>2. \A p \in Person : P[p].state # "absent" => P2[p] = P[p]
    BY <1>6, <2>1
  <2>3. \A p \in Person : /\ P[p].into \in Person \cup {None}
                          /\ R[p].holder \in Person \cup {None}
                          /\ R[p].party \in Person \cup {None}
    BY <1>3 DEF Rows, PersonRow, RecordRow
  <2>4. \A x \in I : P2[x[1]].state = "resolved" /\ x[1] # None
    <3>1. \A x \in I : x[1] \in Person
      BY IdentsTyped DEF I, IdentifierRow
    <3> QED
      BY <1>5, <2>2, <3>1, SentinelAssumption DEF KeptTogether
  <2>5. \A p \in Person :
          /\ (P2[p].state = "merged") <=> (P2[p].into # None)
          /\ P2[p].into # None => P2[p].into < p /\ P2[P2[p].into].state # "absent"
          /\ (R2[p].holder = None) <=> (P2[p].state = "absent")
          /\ R2[p].holder # None => P2[R2[p].holder].state = "resolved" /\ R2[p].holder # None
          /\ R2[p].party # None => P2[R2[p].party].state = "resolved" /\ R2[p].party # None
    BY <1>5, <1>7, <2>1, <2>2, <2>3, SentinelAssumption DEF KeptTogether
  <2> QED
    BY <2>4, <2>5 DEF KeptTogether
<1>9. f = g
  BY <1>3, <1>7, WalkUnique DEF P
<1>10. AllJudged(P2, I, C, g, Unjudged(t)')
  <2>1. \A p \in Person : P[p].state # "absent" => P2[p].state # "absent"
    BY <1>2, <1>6 DEF P2
  <2> QED
    BY <1>5, <1>9, <2>1, PairParts DEF AllJudged, Known
<1>11. MatchesMet(C, g, {})
  BY <1>5, <1>9
<1>12. OnlyAdds(t)'
  BY <1>1, <1>2, <1>5, <1>6, <1>7 DEF OnlyAdds, P, C, P2, Resolved, HumanDecided
<1>13. Gathered(t)'
  <2>1. ASSUME NEW r \in batch[t]
        PROVE  /\ ids'[t][r] \in Person /\ P2[ids'[t][r]].state = "resolved"
               /\ R2[r].holder = ids'[t][r]
    <3>1. CASE r \in new
      <4>1. r \in Person /\ ids'[t][r] = r
        BY <1>1, <1>2, <3>1
      <4>2. P2[r] = Resolved /\ R2[r] = [holder |-> r, party |-> None]
        BY <1>2, <3>1, <4>1 DEF P2, R2
      <4> QED
        BY <4>1, <4>2 DEF Resolved
    <3>2. CASE r \notin new
      <4>1. R[r].holder # None /\ R[r].holder \in Person
        BY <1>1, <1>3, <3>2 DEF RecordRow, new
      <4>2. P[R[r].holder].state = "resolved"
        BY <1>1, <1>5, <4>1 DEF KeptTogether
      <4> QED
        BY <1>1, <1>2, <1>6, <3>2, <4>1, <4>2 DEF P2, R2
    <3> QED
      BY <3>1, <3>2
  <2>2. \A x \in due'[t] : \E r \in batch[t] : x[1] = ids'[t][r]
    <3>1. PICK draft : due' = [due EXCEPT ![t] = UNION {{ids'[t][r]} \X Hashes(draft[r]) : r \in batch[t]}]
      BY DEF ResolvePersons
    <3>2. due'[t] = UNION {{ids'[t][r]} \X Hashes(draft[r]) : r \in batch[t]}
      BY <3>1 DEF TypeOK
    <3> QED
      BY <3>2
  <2> QED
    BY <1>1, <1>4, <2>1, <2>2 DEF Gathered, P2, R2
<1>14. Merging(t)'
  BY <1>1 DEF Merging, Underway
<1> QED
  BY <1>1, <1>2, <1>4, <1>8, <1>10, <1>11, <1>12, <1>13, <1>14 DEF UnderWork, P2, R2, C, I, g

\* Persons gain the identifiers of their new drafts; the pairs they are in remain to be judged.
LEMMA UpsertIdentifiersStep ==
    ASSUME TypeOK, TypeOK', NEW t \in Tx, UnderWork(t), UpsertIdentifiers(t)
    PROVE  UnderWork(t)'
<1> DEFINE P == PersonsSeen(t)
           R == RowsSeen(t)
           C == CandsSeen(t)
           I == IdentSeen(t)
           I2 == IdentSeen(t)'
           f == StandsFor(t)
<1>1. /\ pc[t] = "identify" /\ pc'[t] = "publish"
      /\ UNCHANGED << person, row, ident, cand, wPerson, wRow, wCand, kind, batch, ids, todo >>
      /\ batch[t] \subseteq Person /\ kind[t] = "ingest" /\ todo[t] = {}
  BY DEF UpsertIdentifiers, Go, TypeOK, store, work, UnderWork, Gathered
<1>2. /\ PersonsSeen(t)' = P /\ RowsSeen(t)' = R /\ CandsSeen(t)' = C /\ Canonical(t)' = Canonical(t)
      /\ OnlyAdds(t)'
  <2>1. PersonsSeen(t)' = P /\ RowsSeen(t)' = R /\ CandsSeen(t)' = C
    BY <1>1 DEF PersonsSeen, RowsSeen, CandsSeen, PersonSeen, RowSeen, CandSeen
  <2>2. Canonical(t)' = Canonical(t)
    BY <1>1 DEF Canonical, PersonSeen
  <2> QED
    BY <1>1, <2>1, <2>2 DEF UnderWork, OnlyAdds, HumanDecided
<1>3. I2 = I \cup due[t]
  <2>1. WriteIdents(t, {}, due[t] \ I)
    BY DEF UpsertIdentifiers
  <2>2. I2 = (I \ {}) \cup (due[t] \ I)
    BY <1>1, <2>1, IdentsAfter
  <2> QED
    BY <2>2
<1>4. /\ Emptied(t) = None /\ Emptied(t)' = None /\ Unjudged(t)' = Unjudged(t)
      /\ Unjudged(t) = {q \in Pair : \E r \in batch[t] : ids[t][r] \in {q[1], q[2]}}
      /\ StandsFor(t)' = f
  BY <1>1, <1>2 DEF Emptied, Unjudged, StandsFor
<1>5. KeptTogether(P, R, I, None) /\ AllJudged(P, I, C, f, Unjudged(t))
  BY <1>4 DEF UnderWork
<1>6. /\ \A r \in batch[t] : ids[t][r] \in Person /\ P[ids[t][r]].state = "resolved"
      /\ \A x \in due[t] : \E r \in batch[t] : x[1] = ids[t][r]
      /\ \A r \in batch[t] : R[r].holder = ids[t][r]
  BY <1>1 DEF UnderWork, Gathered
<1> HIDE DEF P, R, C, I, I2, f
<1>7. KeptTogether(P, R, I2, None)
  <2>1. \A x \in I2 : P[x[1]].state = "resolved" /\ x[1] # None
    BY <1>3, <1>5, <1>6, SentinelAssumption DEF KeptTogether
  <2> QED
    BY <1>5, <2>1 DEF KeptTogether
<1>8. AllJudged(P, I2, C, f, Unjudged(t))
  <2>1. ASSUME NEW q \in Pair, Share(I2, q) PROVE q \in Unjudged(t) \/ Compared(C, f, q)
    <3>1. PICK h \in OfKind("full_name") : << q[1], h >> \in I2 /\ << q[2], h >> \in I2
      BY <2>1 DEF Share
    <3>2. CASE << q[1], h >> \in I /\ << q[2], h >> \in I
      BY <1>5, <3>2 DEF AllJudged, Share
    <3>3. CASE << q[1], h >> \in due[t] \/ << q[2], h >> \in due[t]
      <4>1. \E r \in batch[t] : ids[t][r] \in {q[1], q[2]}
        <5>1. CASE << q[1], h >> \in due[t]
          BY <1>6, <5>1
        <5>2. CASE << q[2], h >> \in due[t]
          BY <1>6, <5>2
        <5> QED
          BY <3>3, <5>1, <5>2
      <4> QED
        BY <1>4, <4>1
    <3> QED
      BY <1>3, <3>1, <3>2, <3>3
  <2> QED
    BY <1>5, <2>1 DEF AllJudged
<1>9. Gathered(t)' /\ Merging(t)'
  BY <1>1, <1>2, <1>6 DEF Gathered, Merging, Underway, P, R
<1> QED
  BY <1>1, <1>2, <1>4, <1>7, <1>8, <1>9 DEF UnderWork, P, R, C, I2, f

\* Party rows hang on the persons the records were resolved to, none of them merged.
LEMMA PublishStep ==
    ASSUME TypeOK, TypeOK', NEW t \in Tx, UnderWork(t), Publish(t)
    PROVE  UnderWork(t)'
<1> DEFINE P == PersonsSeen(t)
           R == RowsSeen(t)
           R2 == RowsSeen(t)'
<1>1. /\ pc[t] = "publish" /\ pc'[t] = "block"
      /\ UNCHANGED << person, row, ident, cand, wPerson, wIdent, wCand, kind, batch, ids, todo >>
      /\ batch[t] \subseteq Person /\ kind[t] = "ingest" /\ todo[t] = {}
  BY DEF Publish, Go, TypeOK, store, work, plan, UnderWork, Gathered
<1>2. /\ PersonsSeen(t)' = P /\ CandsSeen(t)' = CandsSeen(t) /\ Canonical(t)' = Canonical(t)
      /\ IdentSeen(t)' = IdentSeen(t) /\ OnlyAdds(t)'
  <2>1. PersonsSeen(t)' = P /\ CandsSeen(t)' = CandsSeen(t)
    BY <1>1 DEF PersonsSeen, CandsSeen, PersonSeen, CandSeen
  <2>2. Canonical(t)' = Canonical(t)
    BY <1>1 DEF Canonical, PersonSeen
  <2> QED
    BY <1>1, <2>1, <2>2 DEF UnderWork, OnlyAdds, HumanDecided, IdentSeen
<1>3. \A r \in Person : R2[r] = IF r \in batch[t] THEN [holder |-> R[r].holder, party |-> ids[t][r]]
                                ELSE R[r]
  <2>1. \A r \in batch[t] : [holder |-> R[r].holder, party |-> ids[t][r]] # NoWrite
    BY <1>1, RowAssumption, SeenTyped DEF RecordRow, TypeOK
  <2>2. \A r \in Person : wRow'[t][r] = IF r \in batch[t]
                                         THEN [holder |-> R[r].holder, party |-> ids[t][r]]
                                         ELSE wRow[t][r]
    BY <1>1, Seen DEF Publish, TypeOK
  <2> QED
    BY <1>1, <2>1, <2>2 DEF RowsSeen, RowSeen
<1>4. Emptied(t) = None /\ Emptied(t)' = None /\ Unjudged(t)' = Unjudged(t)
      /\ StandsFor(t)' = StandsFor(t)
  BY <1>1, <1>2 DEF Emptied, Unjudged, StandsFor
<1>5. \A r \in Person : /\ R2[r].holder = R[r].holder
                        /\ R2[r].party = R[r].party \/ (r \in batch[t] /\ R2[r].party = ids[t][r])
  <2>1. ASSUME NEW r \in Person
        PROVE  /\ R2[r].holder = R[r].holder
               /\ R2[r].party = R[r].party \/ (r \in batch[t] /\ R2[r].party = ids[t][r])
    <3>1. CASE r \in batch[t]
      <4>1. R2[r] = [holder |-> R[r].holder, party |-> ids[t][r]]
        BY <1>3, <3>1
      <4> QED
        BY <3>1, <4>1
    <3>2. CASE r \notin batch[t]
      BY <1>3, <3>2
    <3> QED
      BY <3>1, <3>2
  <2> QED
    BY <2>1
<1>6. \A r \in batch[t] : ids[t][r] \in Person /\ P[ids[t][r]].state = "resolved"
  BY <1>1 DEF UnderWork, Gathered
<1>7. KeptTogether(P, R, IdentSeen(t), None)
  BY <1>4 DEF UnderWork
<1> HIDE DEF P, R, R2
<1>8. KeptTogether(P, R2, IdentSeen(t), None)
  BY <1>5, <1>6, <1>7, SentinelAssumption DEF KeptTogether
<1>9. Gathered(t)' /\ Merging(t)'
  BY <1>1, <1>2, <1>6 DEF Gathered, Merging, Underway, P
<1> QED
  BY <1>1, <1>2, <1>4, <1>8, <1>9 DEF UnderWork, P, R2

\* Blocking finds every pair that remains to be judged.
LEMMA BlockStep ==
    ASSUME TypeOK, TypeOK', NEW t \in Tx, UnderWork(t), Block(t), kind[t] # "review",
           Descending(PersonsSeen(t))
    PROVE  UnderWork(t)'
<1> DEFINE P == PersonsSeen(t)
           R == RowsSeen(t)
           C == CandsSeen(t)
           I == IdentSeen(t)
           f == Canonical(t)
<1>1. /\ pc[t] = "block" /\ pc'[t] \in {"commit", "evaluate"}
      /\ pairs'[t] = CandidatePairs(t, Anchor(t))
      /\ pc'[t] = "commit" => pairs'[t] = {}
      /\ UNCHANGED << person, row, ident, cand, wPerson, wRow, wIdent, wCand, kind, todo >>
  BY DEF Block, Go, TypeOK, store, writes, plan
<1>2. /\ PersonsSeen(t)' = P /\ RowsSeen(t)' = R /\ CandsSeen(t)' = C
      /\ IdentSeen(t)' = I /\ Canonical(t)' = f /\ OnlyAdds(t)'
  BY <1>1, SeenKept DEF UnderWork
<1>3. Emptied(t) = None /\ Emptied(t)' = None /\ Unjudged(t)' = pairs'[t] /\ todo[t] = {}
      /\ StandsFor(t) = f /\ StandsFor(t)' = f
  BY <1>1, <1>2 DEF Emptied, Unjudged, UnderWork, Gathered, StandsFor
<1>4. KeptTogether(P, R, I, None) /\ AllJudged(P, I, C, f, Unjudged(t))
  BY <1>3 DEF UnderWork
<1>5. \A p \in Person : Unmerged(t, p) <=> P[p].state = "resolved"
  BY <1>4, Seen, SeenTyped DEF Unmerged, KeptTogether, PersonRow
<1>6. ASSUME NEW q \in pairs'[t] PROVE q \in Pair /\ Known(P, q)
  BY <1>1, <1>5, <1>6, PairParts DEF CandidatePairs, Known
<1>7. ASSUME NEW q \in Pair, Share(I, q), q \in Unjudged(t) PROVE q \in pairs'[t]
  <2>1. kind[t] = "ingest" /\ Unjudged(t) = {x \in Pair : \E r \in batch[t] : ids[t][r] \in {x[1], x[2]}}
    BY <1>1, <1>7 DEF Unjudged
  <2>2. PICK r \in batch[t] : ids[t][r] \in {q[1], q[2]}
    BY <1>7, <2>1
  <2>3. P[q[1]].state = "resolved" /\ P[q[2]].state = "resolved"
    BY <1>4, <1>7 DEF KeptTogether, Share
  <2>4. f[ids[t][r]] = ids[t][r]
    <3>1. ids[t][r] \in Person /\ P[ids[t][r]].into = None
      BY <1>4, <2>2, <2>3, PairParts DEF KeptTogether
    <3> QED
      BY <3>1, CanonicalWalks DEF Walks
  <2>5. q[1] \in Anchor(t) \/ q[2] \in Anchor(t)
    BY <2>1, <2>2, <2>4 DEF Anchor
  <2> QED
    BY <1>1, <1>5, <1>7, <2>3, <2>5, PairParts, SignalIsName DEF CandidatePairs
<1>8. AllJudged(P, I, C, f, pairs'[t])
  BY <1>4, <1>7 DEF AllJudged
<1>9. Gathered(t)' /\ Merging(t)'
  BY <1>1, <1>2, <1>3, <1>6 DEF Gathered, Merging, Underway
<1> QED
  BY <1>1, <1>2, <1>3, <1>4, <1>8, <1>9 DEF UnderWork

\* Every pair that shares a name gets a verdict, or has a reviewer's decision.
LEMMA EvaluateStep ==
    ASSUME TypeOK, TypeOK', NEW t \in Tx, UnderWork(t), EvaluatePairs(t), kind[t] # "review",
           Descending(PersonsSeen(t))
    PROVE  UnderWork(t)'
<1> DEFINE P == PersonsSeen(t)
           R == RowsSeen(t)
           C == CandsSeen(t)
           I == IdentSeen(t)
           f == Canonical(t)
           judged == {p \in pairs[t] :
                         /\ HasSignal(ComputeFeatures(Profile(t, p[1]), Profile(t, p[2])))
                         /\ CandSeen(t, p) = None \/ ~HumanDecided(CandSeen(t, p))}
<1>1. /\ pc[t] = "evaluate" /\ pc'[t] = IF judged = {} THEN "commit" ELSE "upsert"
      /\ \A p \in Pair : verdict'[t][p] = IF p \in judged THEN Outcome(t, p).decision ELSE None
      /\ UNCHANGED << person, row, ident, cand, wPerson, wRow, wIdent, wCand, kind, todo >>
  BY DEF EvaluatePairs, Go, TypeOK, store, writes, plan
<1>2. /\ PersonsSeen(t)' = P /\ RowsSeen(t)' = R /\ CandsSeen(t)' = C
      /\ IdentSeen(t)' = I /\ Canonical(t)' = f /\ OnlyAdds(t)'
  BY <1>1, SeenKept DEF UnderWork
<1>3. /\ judged \subseteq Pair
      /\ \A p \in Pair : verdict'[t][p] # None <=> p \in judged
  <2>1. \A p \in Pair : Outcome(t, p).decision # None
    BY EvaluateDecides, RowAssumption DEF Outcome
  <2>2. judged \subseteq Pair
    BY DEF TypeOK
  <2> QED
    BY <1>1, <2>1, <2>2
<1>4. /\ Emptied(t) = None /\ Emptied(t)' = None /\ todo[t] = {}
      /\ Unjudged(t) = pairs[t] /\ pairs[t] \subseteq Pair /\ Unjudged(t)' = judged
      /\ StandsFor(t) = f /\ StandsFor(t)' = f
  <2>1. pc'[t] = "commit" => Unjudged(t)' = {} /\ judged = {}
    BY <1>1 DEF Unjudged
  <2>2. pc'[t] = "upsert" => Unjudged(t)' = {q \in Pair : verdict'[t][q] # None}
    BY DEF Unjudged
  <2> QED
    BY <1>1, <1>2, <1>3, <2>1, <2>2
    DEF Emptied, Unjudged, StandsFor, UnderWork, Gathered, TypeOK
<1>5. KeptTogether(P, R, I, None) /\ AllJudged(P, I, C, f, pairs[t])
  BY <1>4 DEF UnderWork
<1>6. ASSUME NEW q \in Pair, Share(I, q), q \in pairs[t]
      PROVE  q \in judged \/ Compared(C, f, q)
  <2>1. HasSignal(ComputeFeatures(Profile(t, q[1]), Profile(t, q[2])))
    BY <1>6, SignalIsName
  <2>2. CASE C[q] = None
    BY <1>6, <2>1, <2>2, Seen
  <2>3. CASE C[q] # None
    <3>1. P[q[1]].into = None /\ P[q[2]].into = None
      BY <1>5, <1>6, PairParts DEF KeptTogether, Share
    <3> QED
      BY <2>3, <3>1, CanonicalWalks, OwnCandidate
  <2> QED
    BY <2>2, <2>3
<1>7. \A q \in judged : Known(P, q)
  BY <1>1 DEF UnderWork, Gathered
<1> HIDE DEF judged
<1>8. AllJudged(P, I, C, f, judged)
  BY <1>5, <1>6 DEF AllJudged
<1>9. Gathered(t)' /\ Merging(t)'
  BY <1>1, <1>2, <1>3, <1>4, <1>7 DEF Gathered, Merging, Underway
<1> QED
  BY <1>1, <1>2, <1>4, <1>5, <1>8, <1>9 DEF UnderWork

\* Every verdict is stored or gives way to a reviewer's decision; what it matches is to be merged.
LEMMA UpsertStep ==
    ASSUME TypeOK, TypeOK', NEW t \in Tx, UnderWork(t), UpsertCandidates(t), kind[t] # "review"
    PROVE  UnderWork(t)'
<1> DEFINE P == PersonsSeen(t)
           C == CandsSeen(t)
           I == IdentSeen(t)
           f == Canonical(t)
           C2 == CandsSeen(t)'
           stored == {p \in Pair : verdict[t][p] # None}
<1>1. /\ pc[t] = "upsert" /\ pc'[t] = IF todo'[t] = {} THEN "commit" ELSE "next"
      /\ \A p \in Pair : wCand'[t][p] = IF p \in stored THEN Upserted(C[p], verdict[t][p])
                                        ELSE wCand[t][p]
      /\ todo'[t] = {p \in stored : wCand'[t][p] = SystemCandidate("matched")}
      /\ UNCHANGED << person, row, ident, cand, wPerson, wRow, wIdent, kind >>
  BY Seen DEF UpsertCandidates, Go, TypeOK, store, plan
<1>2. /\ PersonsSeen(t)' = P /\ RowsSeen(t)' = RowsSeen(t) /\ IdentSeen(t)' = I
      /\ Canonical(t)' = f
  <2>1. PersonsSeen(t)' = P /\ RowsSeen(t)' = RowsSeen(t) /\ IdentSeen(t)' = I
    BY <1>1 DEF PersonsSeen, RowsSeen, IdentSeen, PersonSeen, RowSeen
  <2>2. Canonical(t)' = Canonical(t)
    BY <1>1 DEF Canonical, PersonSeen
  <2> QED
    BY <2>1, <2>2
<1>3. ASSUME NEW p \in stored
      PROVE  /\ wCand'[t][p] \in Candidate
             /\ \/ /\ C[p] # None /\ HumanDecided(C[p]) /\ wCand'[t][p] = C[p]
                \/ /\ ~(C[p] # None /\ HumanDecided(C[p]))
                   /\ wCand'[t][p] = SystemCandidate(verdict[t][p])
  <2>1. C[p] \in Candidate \cup {None} /\ verdict[t][p] \in Decisions
    BY SeenTyped DEF TypeOK
  <2>2. SystemCandidate(verdict[t][p]) \in Candidate
    BY <2>1 DEF SystemCandidate, Candidate
  <2> QED
    BY <1>1, <2>1, <2>2 DEF Upserted
<1>4. \A p \in Pair : C2[p] = IF p \in stored THEN wCand'[t][p] ELSE C[p]
  BY <1>1, <1>3, RowAssumption DEF CandsSeen, CandSeen
<1>5. /\ Emptied(t) = None /\ Emptied(t)' = None /\ todo[t] = {}
      /\ Unjudged(t) = stored /\ Unjudged(t)' = {} /\ todo'[t] \subseteq stored
      /\ StandsFor(t) = f /\ StandsFor(t)' = f
  BY <1>1, <1>2 DEF Emptied, Unjudged, StandsFor, UnderWork, Gathered
<1>6. /\ KeptTogether(P, RowsSeen(t), I, None) /\ AllJudged(P, I, C, f, stored)
      /\ MatchesMet(C, f, {}) /\ OnlyAdds(t)
  BY <1>5 DEF UnderWork
<1>7. \A p \in stored : C2[p] # None /\ Known(P, p)
  BY <1>1, <1>3, <1>4, RowAssumption DEF UnderWork, Gathered
<1>8. ASSUME NEW p \in stored, C2[p].decision = "matched"
      PROVE  Canonical(t)[p[1]] = Canonical(t)[p[2]] \/ p \in todo'[t]
  <2>1. C2[p] = wCand'[t][p]
    BY <1>4
  <2>2. CASE C[p] # None /\ HumanDecided(C[p]) /\ wCand'[t][p] = C[p]
    BY <1>6, <1>8, <2>1, <2>2 DEF MatchesMet
  <2>3. CASE wCand'[t][p] = SystemCandidate(verdict[t][p])
    <3>1. verdict[t][p] = "matched"
      BY <1>8, <2>1, <2>3 DEF SystemCandidate
    <3> QED
      BY <1>1, <2>3, <3>1
  <2> QED
    BY <1>3, <2>2, <2>3
<1>9. \A p \in Pair : C[p] # None => C2[p] # None
  BY <1>4, <1>7
<1>10. \A p \in Pair : C[p] # None /\ HumanDecided(C[p]) => C2[p] = C[p]
  BY <1>3, <1>4
<1>11. AllJudged(P, I, C2, f, {})
  <2>1. ASSUME NEW q \in Pair, Share(I, q) PROVE Compared(C2, f, q)
    <3>1. CASE Compared(C, f, q)
      BY <1>9, <3>1 DEF Compared
    <3>2. CASE q \in stored
      <4>1. P[q[1]].into = None /\ P[q[2]].into = None
        BY <1>6, <2>1, PairParts DEF KeptTogether, Share
      <4> QED
        BY <1>7, <3>2, <4>1, CanonicalWalks, OwnCandidate
    <3> QED
      BY <1>6, <2>1, <3>1, <3>2 DEF AllJudged
  <2>2. \A q \in Pair : C2[q] # None => Known(P, q)
    BY <1>4, <1>6, <1>7 DEF AllJudged
  <2> QED
    BY <2>1, <2>2 DEF AllJudged
<1> HIDE DEF P, C, C2, stored
<1>12. MatchesMet(C2, f, todo'[t])
  BY <1>4, <1>6, <1>8 DEF MatchesMet
<1>13. OnlyAdds(t)'
  BY <1>1, <1>2, <1>6, <1>9, <1>10 DEF OnlyAdds, HumanDecided, P, C, C2
<1>14. Gathered(t)' /\ Merging(t)'
  BY <1>1, <1>5, <1>7 DEF Gathered, Merging, Underway, C2
<1> QED
  BY <1>1, <1>2, <1>5, <1>6, <1>11, <1>12, <1>13, <1>14 DEF UnderWork, P, C2

\* The next matched pair counts as one person already, or its two survivors are merged.
LEMMA NextMatchedStep ==
    ASSUME TypeOK, TypeOK', NEW t \in Tx, UnderWork(t), NextMatched(t), kind[t] # "review",
           Descending(PersonsSeen(t))
    PROVE  UnderWork(t)'
<1> DEFINE P == PersonsSeen(t)
           C == CandsSeen(t)
           I == IdentSeen(t)
           f == Canonical(t)
<1>1. /\ pc[t] = "next"
      /\ UNCHANGED << person, row, ident, cand, wPerson, wRow, wIdent, wCand, kind >>
  BY DEF NextMatched, store, writes, plan
<1>2. /\ PersonsSeen(t)' = P /\ RowsSeen(t)' = RowsSeen(t) /\ CandsSeen(t)' = C
      /\ IdentSeen(t)' = I /\ Canonical(t)' = f /\ OnlyAdds(t)'
  BY <1>1, SeenKept DEF UnderWork
<1>3. PICK pair \in todo[t], left \in Person, right \in Person :
        /\ left = f[pair[1]]
        /\ right = f[pair[2]]
        /\ \/ left = right /\ Advance(t, pair)
           \/ left # right /\ StartMerge(t, pair, KeepAndDrop(left, right)) /\ UNCHANGED todo
  BY DEF NextMatched
<1>4. Emptied(t) = None /\ Unjudged(t) = {} /\ todo[t] \subseteq Pair /\ StandsFor(t) = f
  BY <1>1 DEF Emptied, Unjudged, StandsFor, TypeOK
<1>5. /\ KeptTogether(P, RowsSeen(t), I, None) /\ AllJudged(P, I, C, f, {})
      /\ MatchesMet(C, f, todo[t])
  BY <1>4 DEF UnderWork
<1>6. \A q \in todo[t] : C[q] # None
  BY DEF UnderWork, Gathered
<1>7. CASE left = right /\ Advance(t, pair)
  <2>1. /\ todo'[t] = todo[t] \ {pair} /\ pc'[t] \in {"commit", "next"}
        /\ pc'[t] = "commit" => todo'[t] = {}
    BY <1>7 DEF Advance, Go, TypeOK
  <2>2. MatchesMet(C, f, todo'[t])
    BY <1>3, <1>5, <1>7, <2>1 DEF MatchesMet
  <2>3. Emptied(t)' = None /\ Unjudged(t)' = {} /\ StandsFor(t)' = f
    BY <1>2, <2>1 DEF Emptied, Unjudged, StandsFor
  <2>4. Gathered(t)' /\ Merging(t)'
    BY <1>1, <1>2, <1>6, <2>1 DEF Gathered, Merging, Underway
  <2> QED
    BY <1>2, <1>5, <2>2, <2>3, <2>4 DEF UnderWork
<1>8. CASE left # right /\ StartMerge(t, pair, KeepAndDrop(left, right)) /\ UNCHANGED todo
  <2>1. /\ current'[t] = pair /\ pc'[t] = "check" /\ todo' = todo
        /\ keep'[t] = KeepAndDrop(left, right)[1] /\ drop'[t] = KeepAndDrop(left, right)[2]
    BY <1>8 DEF StartMerge, Go, TypeOK
  <2>2. {keep'[t], drop'[t]} = {left, right}
    BY <2>1 DEF KeepAndDrop
  <2>3. /\ pair[1] \in Person /\ pair[2] \in Person
        /\ P[pair[1]].state # "absent" /\ P[pair[2]].state # "absent"
    BY <1>3, <1>4, <1>5, <1>6, PairParts DEF AllJudged, Known
  <2>4. \A p \in {pair[1], pair[2]} : P[f[p]].state = "resolved"
    BY <1>5, <2>3, SurvivorResolved, CanonicalWalks
  <2>5. Emptied(t)' = None /\ Unjudged(t)' = {} /\ StandsFor(t)' = f
    BY <1>2, <2>1 DEF Emptied, Unjudged, StandsFor
  <2>6. Gathered(t)'
    BY <1>1, <1>2, <1>6, <2>1 DEF Gathered
  <2>7. Merging(t)'
    BY <1>1, <1>2, <1>3, <2>1, <2>2, <2>3, <2>4 DEF Merging, Underway
  <2> QED
    BY <1>2, <1>5, <2>1, <2>5, <2>6, <2>7 DEF UnderWork
<1> QED
  BY <1>3, <1>7, <1>8

\* With one session nobody has merged either person meanwhile.
LEMMA CheckMergeStep ==
    ASSUME TypeOK, TypeOK', NEW t \in Tx, MergeTarget(t), UnderWork(t), CheckMerge(t)
    PROVE  UnderWork(t)'
<1> DEFINE P == PersonsSeen(t)
<1>1. /\ pc[t] = "check" /\ Underway(t)
      /\ UNCHANGED << person, row, ident, cand, wPerson, wRow, wIdent, wCand, kind, current, keep, drop, choice >>
  BY DEF CheckMerge, store, writes, plan, merging, Underway
<1>2. /\ PersonsSeen(t)' = P /\ RowsSeen(t)' = RowsSeen(t) /\ CandsSeen(t)' = CandsSeen(t)
      /\ IdentSeen(t)' = IdentSeen(t) /\ Canonical(t)' = Canonical(t) /\ OnlyAdds(t)'
  BY <1>1, SeenKept DEF UnderWork
<1>3. /\ P[keep[t]].state = "resolved" /\ P[drop[t]].state = "resolved"
      /\ keep[t] \in Person /\ drop[t] \in Person
  BY <1>1, PairParts DEF UnderWork, Merging, MergeTarget, Pair
<1>4. Emptied(t) = None /\ Unjudged(t) = {} /\ StandsFor(t) = Canonical(t)
  BY <1>1 DEF Emptied, Unjudged, StandsFor
<1>5. Unmerged(t, keep[t]) /\ Unmerged(t, drop[t])
  BY <1>3, <1>4, Seen DEF Unmerged, UnderWork, KeptTogether
<1>6. pc'[t] = "move" /\ UNCHANGED todo
  BY <1>5 DEF CheckMerge, Go, TypeOK
<1>7. Emptied(t)' = None /\ Unjudged(t)' = {} /\ StandsFor(t)' = Canonical(t)
  BY <1>2, <1>6 DEF Emptied, Unjudged, StandsFor
<1>8. Gathered(t)' /\ Merging(t)'
  BY <1>1, <1>2, <1>6 DEF UnderWork, Gathered, Merging, Underway
<1> QED
  BY <1>2, <1>4, <1>6, <1>7, <1>8 DEF UnderWork

\* A merge under way works on two persons that are not merged.
LEMMA MergePair ==
    ASSUME NEW t \in Tx, MergeTarget(t), UnderWork(t), Underway(t)
    PROVE  /\ keep[t] \in Person /\ drop[t] \in Person
           /\ keep[t] < drop[t] /\ keep[t] # drop[t]
           /\ PersonsSeen(t)[keep[t]].state = "resolved"
           /\ PersonsSeen(t)[drop[t]].state = "resolved"
<1>1. << keep[t], drop[t] >> \in Pair
  BY DEF MergeTarget
<1>2. keep[t] \in Person /\ drop[t] \in Person /\ keep[t] < drop[t]
  BY <1>1 DEF Pair
<1>3. keep[t] # drop[t]
  <2>1. \A a, b \in Person : a < b => a # b
    BY PersonAssumption
  <2> QED
    BY <1>2, <2>1
<1> QED
  BY <1>2, <1>3 DEF UnderWork, Merging

\* The rows of the dropped person move to the kept one, which stands for it from then on.
LEMMA MoveRowsStep ==
    ASSUME TypeOK, TypeOK', NEW t \in Tx, MergeTarget(t), UnderWork(t), MoveRows(t)
    PROVE  UnderWork(t)'
<1> DEFINE P == PersonsSeen(t)
           R == RowsSeen(t)
           R2 == RowsSeen(t)'
           C == CandsSeen(t)
           I == IdentSeen(t)
           I2 == IdentSeen(t)'
           f == Canonical(t)
           g == StandsFor(t)'
           k == keep[t]
           d == drop[t]
<1>1. /\ pc[t] = "move" /\ pc'[t] = "mark" /\ Underway(t)
      /\ UNCHANGED << person, row, ident, cand, wPerson, wCand, kind, todo, current, keep, drop, choice >>
  BY DEF MoveRows, Go, TypeOK, store, plan, work, merging, Underway
<1>2. /\ PersonsSeen(t)' = P /\ CandsSeen(t)' = C /\ Canonical(t)' = f
      /\ OnlyAdds(t)'
  <2>1. PersonsSeen(t)' = P /\ CandsSeen(t)' = C
    BY <1>1 DEF PersonsSeen, CandsSeen, PersonSeen, CandSeen
  <2>2. Canonical(t)' = f
    BY <1>1 DEF Canonical, PersonSeen
  <2> QED
    BY <1>1, <2>1, <2>2 DEF UnderWork, OnlyAdds, HumanDecided
<1>3. /\ P[k].state = "resolved" /\ k \in Person /\ d \in Person /\ k # d
  BY <1>1, MergePair
<1>4. \A r \in Person : /\ R2[r].holder = IF R[r].holder = d THEN k ELSE R[r].holder
                        /\ R2[r].party = IF R[r].party = d THEN k ELSE R[r].party
  <2>1. ASSUME NEW r \in Person, r \in RowsOf(t, d)
        PROVE  R2[r] = Repoint(R[r], d, k)
    <3>1. Repoint(R[r], d, k) # NoWrite
      BY <1>3, RowAssumption, SeenTyped DEF Repoint, RecordRow
    <3>2. wRow'[t][r] = Repoint(R[r], d, k)
      BY <2>1, Seen DEF MoveRows, TypeOK
    <3> QED
      BY <3>1, <3>2 DEF RowsSeen, RowSeen
  <2>2. ASSUME NEW r \in Person, r \notin RowsOf(t, d)
        PROVE  R2[r] = R[r] /\ R[r].holder # d /\ R[r].party # d
    <3>1. wRow'[t][r] = wRow[t][r]
      BY <2>2 DEF MoveRows, TypeOK
    <3>2. R[r].holder # d /\ R[r].party # d
      BY <2>2, Seen DEF RowsOf
    <3> QED
      BY <1>1, <3>1, <3>2 DEF RowsSeen, RowSeen
  <2>3. ASSUME NEW r \in Person
        PROVE  /\ R2[r].holder = IF R[r].holder = d THEN k ELSE R[r].holder
               /\ R2[r].party = IF R[r].party = d THEN k ELSE R[r].party
    <3>1. CASE r \in RowsOf(t, d)
      <4>1. R2[r] = Repoint(R[r], d, k)
        BY <2>1, <3>1
      <4> QED
        BY <4>1 DEF Repoint
    <3>2. CASE r \notin RowsOf(t, d)
      BY <2>2, <3>2
    <3> QED
      BY <3>1, <3>2
  <2> QED
    BY <2>3
<1>5. \A p \in Person, h \in Hash : << p, h >> \in I2 <=>
         p # d /\ (<< p, h >> \in I \/ (p = k /\ << d, h >> \in I))
  <2> DEFINE moved == MovedIdents(t)
             taken == TakenIdents(t) \ I
  <2>1. moved \cap taken = {}
    BY <1>3 DEF MovedIdents, TakenIdents
  <2>2. I2 = (I \ moved) \cup taken
    BY <1>1, <2>1, IdentsAfter DEF MoveRows
  <2>3. \A p \in Person, h \in Hash : << p, h >> \in moved <=> p = d /\ << d, h >> \in I
    BY DEF MovedIdents
  <2>4. \A p \in Person, h \in Hash : << p, h >> \in TakenIdents(t) <=> p = k /\ << d, h >> \in I
    <3>1. ASSUME NEW x \in MovedIdents(t) PROVE \E h \in Hash : x = << d, h >> /\ << d, h >> \in I
      BY <3>1, IdentsTyped DEF MovedIdents, IdentifierRow
    <3>2. ASSUME NEW h \in Hash, << d, h >> \in I PROVE << k, h >> \in TakenIdents(t)
      <4>1. << d, h >> \in MovedIdents(t)
        BY <3>2 DEF MovedIdents
      <4> QED
        BY <4>1 DEF TakenIdents
    <3>3. ASSUME NEW p \in Person, NEW h \in Hash, << p, h >> \in TakenIdents(t)
          PROVE  p = k /\ << d, h >> \in I
      <4>1. PICK x \in MovedIdents(t) : << p, h >> = << k, x[2] >>
        BY <3>3 DEF TakenIdents
      <4>2. PICK h2 \in Hash : x = << d, h2 >> /\ << d, h2 >> \in I
        BY <3>1
      <4> QED
        BY <4>1, <4>2
    <3> QED
      BY <3>2, <3>3
  <2> HIDE DEF moved
  <2> QED
    BY <1>3, <2>2, <2>3, <2>4
<1>6. I2 \in SUBSET IdentifierRow
  BY IdentsTypedNext
<1>7. /\ Emptied(t) = None /\ Emptied(t)' = d /\ Unjudged(t) = {} /\ Unjudged(t)' = {}
      /\ StandsFor(t) = f
      /\ \A p \in Person : g[p] = IF f[p] = d THEN k ELSE f[p]
  BY <1>1, <1>2 DEF Emptied, Unjudged, StandsFor
<1>8. KeptTogether(P, R, I, None) /\ AllJudged(P, I, C, f, {})
  BY <1>7 DEF UnderWork
<1> HIDE DEF P, R, R2, C, I, I2, f, g, k, d
<1>9. KeptTogether(P, R2, I2, d)
  <2>1. ASSUME NEW x \in I2 PROVE P[x[1]].state = "resolved" /\ x[1] # d
    <3>1. PICK p \in Person, h \in Hash : x = << p, h >>
      BY <1>6, <2>1 DEF IdentifierRow
    <3>2. p # d /\ (<< p, h >> \in I \/ p = k)
      BY <1>5, <2>1, <3>1
    <3> QED
      BY <1>3, <1>8, <3>1, <3>2 DEF KeptTogether
  <2>2. \A p \in Person : R2[p].holder = None <=> R[p].holder = None
    BY <1>3, <1>4, SentinelAssumption
  <2>3. \A p \in Person : /\ R2[p].holder # None => P[R2[p].holder].state = "resolved" /\ R2[p].holder # d
                          /\ R2[p].party # None => P[R2[p].party].state = "resolved" /\ R2[p].party # d
    BY <1>3, <1>4, <1>8, SentinelAssumption DEF KeptTogether
  <2> QED
    BY <1>8, <2>1, <2>2, <2>3 DEF KeptTogether
<1>10. AllJudged(P, I2, C, g, {})
  <2>1. \A x \in Pair : x[1] \in Person /\ x[2] \in Person
    BY PairParts
  <2>2. ASSUME NEW q \in Pair, NEW p \in Person, NEW o \in Person, {p, o} = {q[1], q[2]},
               p # d, o # d, p # o, NEW h \in OfKind("full_name"), << p, h >> \in I, << o, h >> \in I
        PROVE  Compared(C, g, q)
    <3>1. Share(I, q)
      BY <2>1, <2>2 DEF Share
    <3>2. PICK x \in Pair : C[x] # None /\ {f[x[1]], f[x[2]]} = {q[1], q[2]}
      BY <1>8, <3>1 DEF AllJudged, Compared
    <3>3. f[x[1]] # d /\ f[x[2]] # d
      BY <2>2, <3>2
    <3>4. g[x[1]] = f[x[1]] /\ g[x[2]] = f[x[2]]
      BY <1>7, <2>1, <3>3
    <3> QED
      BY <3>2, <3>4 DEF Compared
  <2>3. ASSUME NEW q \in Pair, NEW o \in Person, {k, o} = {q[1], q[2]},
               o # d, o # k, NEW h \in OfKind("full_name"), << d, h >> \in I, << o, h >> \in I
        PROVE  Compared(C, g, q)
    <3>1. PICK y \in Pair : {y[1], y[2]} = {d, o}
      BY <1>3, <2>3, PairOf
    <3>2. Share(I, y)
      BY <2>1, <2>3, <3>1 DEF Share
    <3>3. PICK x \in Pair : C[x] # None /\ {f[x[1]], f[x[2]]} = {d, o}
      BY <1>8, <3>1, <3>2 DEF AllJudged, Compared
    <3>4. g[x[1]] = (IF f[x[1]] = d THEN k ELSE f[x[1]]) /\ g[x[2]] = (IF f[x[2]] = d THEN k ELSE f[x[2]])
      BY <1>7, <2>1
    <3>5. {g[x[1]], g[x[2]]} = {k, o}
      <4>1. CASE f[x[1]] = d /\ f[x[2]] = o
        BY <2>3, <3>4, <4>1
      <4>2. CASE f[x[1]] = o /\ f[x[2]] = d
        BY <2>3, <3>4, <4>2
      <4> QED
        BY <2>3, <3>3, <4>1, <4>2
    <3> QED
      BY <2>3, <3>3, <3>5 DEF Compared
  <2>4. ASSUME NEW q \in Pair, Share(I2, q) PROVE Compared(C, g, q)
    <3>1. PICK h \in OfKind("full_name") : << q[1], h >> \in I2 /\ << q[2], h >> \in I2
      BY <2>4 DEF Share
    <3>2. q[1] # q[2] /\ h \in Hash
      BY PairParts, PersonAssumption DEF OfKind
    <3>3. /\ q[1] # d /\ (<< q[1], h >> \in I \/ (q[1] = k /\ << d, h >> \in I))
          /\ q[2] # d /\ (<< q[2], h >> \in I \/ (q[2] = k /\ << d, h >> \in I))
      BY <1>5, <2>1, <3>1, <3>2
    <3>4. CASE << q[1], h >> \in I /\ << q[2], h >> \in I
      BY <2>1, <2>2, <3>2, <3>3, <3>4
    <3>5. CASE q[1] = k /\ << d, h >> \in I /\ << q[2], h >> \in I
      BY <2>1, <2>3, <3>2, <3>3, <3>5
    <3>6. CASE q[2] = k /\ << d, h >> \in I /\ << q[1], h >> \in I
      BY <2>1, <2>3, <3>2, <3>3, <3>6
    <3> QED
      BY <3>2, <3>3, <3>4, <3>5, <3>6
  <2> QED
    BY <1>8, <2>4 DEF AllJudged
<1>11. Gathered(t)'
  BY <1>1, <1>2 DEF UnderWork, Gathered, C
<1>12. Merging(t)'
  BY <1>1, <1>2 DEF UnderWork, Merging, Underway, P, C, f
<1> QED
  BY <1>1, <1>2, <1>7, <1>9, <1>10, <1>11, <1>12 DEF UnderWork, P, R2, C, I2, f, g

\* The pointer makes one person of the two: of their pair, and of every pair their survivors met.
LEMMA MarkMergedStep ==
    ASSUME TypeOK, TypeOK', NEW t \in Tx, MergeTarget(t), MergeTarget(t)', UnderWork(t),
           MarkMerged(t), Descending(PersonsSeen(t))
    PROVE  UnderWork(t)'
<1> DEFINE P == PersonsSeen(t)
           P2 == PersonsSeen(t)'
           R == RowsSeen(t)
           C == CandsSeen(t)
           I == IdentSeen(t)
           f == Canonical(t)
           g == Canonical(t)'
           k == keep[t]
           d == drop[t]
<1>1. /\ pc[t] = "mark" /\ Underway(t)
      /\ UNCHANGED << person, row, ident, cand, wRow, wIdent, wCand, kind, current, keep, drop, choice >>
  BY DEF MarkMerged, store, plan, merging, Underway
<1>2. /\ IF kind[t] = "review" THEN pc'[t] = "decide" /\ todo' = todo
         ELSE /\ todo'[t] = todo[t] \ {current[t]}
              /\ pc'[t] \in {"commit", "next"}
              /\ pc'[t] = "commit" => todo'[t] = {}
  BY DEF MarkMerged, Advance, Go, TypeOK
<1>3. /\ k \in Person /\ d \in Person /\ k < d /\ k # d
      /\ P[k].state = "resolved" /\ P[d].state = "resolved"
  BY <1>1, MergePair
<1>4. RowsSeen(t)' = R /\ CandsSeen(t)' = C /\ IdentSeen(t)' = I
  BY <1>1 DEF RowsSeen, CandsSeen, IdentSeen, RowSeen, CandSeen
<1>5. /\ P \in Rows /\ P2 \in Rows /\ Walks(P, f) /\ Walks(P2, g)
  BY CanonicalWalks, CanonicalWalksNext
<1>6. /\ P2[d].state = "merged" /\ P2[d].into = k
      /\ P2[k].state = "resolved" /\ P2[k].into = P[k].into
      /\ \A p \in Person \ {k, d} : P2[p] = P[p]
  <2>1. /\ wPerson'[t][d] = [state |-> "merged", into |-> k]
        /\ wPerson'[t][k] = [state |-> "resolved", into |-> P[k].into]
        /\ \A p \in Person \ {k, d} : wPerson'[t][p] = wPerson[t][p]
    BY <1>3, Seen DEF MarkMerged, TypeOK
  <2>2. P[k].into \in Person \cup {None}
    BY <1>3, <1>5 DEF Rows, PersonRow
  <2>3. /\ [state |-> "merged", into |-> k] # NoWrite
        /\ [state |-> "resolved", into |-> P[k].into] # NoWrite
    BY <1>3, <2>2, RowAssumption DEF PersonRow
  <2>4. /\ P2[d] = [state |-> "merged", into |-> k]
        /\ P2[k] = [state |-> "resolved", into |-> P[k].into]
        /\ \A p \in Person \ {k, d} : P2[p] = P[p]
    BY <1>1, <1>3, <2>1, <2>3 DEF PersonsSeen, PersonSeen
  <2> QED
    BY <2>4
<1>7. Emptied(t) = d /\ Emptied(t)' = None /\ Unjudged(t) = {} /\ Unjudged(t)' = {}
      /\ StandsFor(t)' = g
      /\ \A p \in Person : StandsFor(t)[p] = IF f[p] = d THEN k ELSE f[p]
  BY <1>1, <1>2 DEF Emptied, Unjudged, StandsFor
<1>8. /\ KeptTogether(P, R, I, d) /\ AllJudged(P, I, C, StandsFor(t), {})
      /\ MatchesMet(C, f, todo[t]) /\ OnlyAdds(t)
  BY <1>7 DEF UnderWork
<1>9. /\ kind[t] = "review" => current[t] = << k, d >> /\ todo[t] = {}
      /\ kind[t] # "review" => {f[current[t][1]], f[current[t][2]]} = {k, d}
      /\ current[t] \in Pair
      /\ \A q \in todo[t] : C[q] # None
  BY <1>1 DEF UnderWork, Gathered, Merging, MergeTarget
<1>15. Merging(t)' <=> (kind[t] = "review" => g[current[t][1]] = g[current[t][2]])
  BY <1>1, <1>2, <1>4 DEF UnderWork, Merging, Underway, MergeTarget
<1> HIDE DEF P, P2, R, C, I, f, g, k, d
<1>10. P[d].into = None /\ P[k].into = None /\ P2[k].into = None
  BY <1>3, <1>6, <1>8 DEF KeptTogether
<1>11. KeptTogether(P2, R, I, None)
  <2>1. \A p \in Person : /\ P[p].into \in Person \cup {None}
                          /\ R[p].holder \in Person \cup {None}
                          /\ R[p].party \in Person \cup {None}
    BY <1>5, SeenTyped DEF Rows, PersonRow, RecordRow, R
  <2>2. ASSUME NEW p \in Person
        PROVE  /\ P2[p].state = IF p = d THEN "merged" ELSE P[p].state
               /\ P2[p].into = IF p = d THEN k ELSE P[p].into
    BY <1>3, <1>6
  <2>3. \A x \in I : P2[x[1]].state = "resolved" /\ x[1] # None
    <3>1. \A x \in I : x[1] \in Person
      BY IdentsTyped DEF I, IdentifierRow
    <3> QED
      BY <1>8, <2>2, <3>1, SentinelAssumption DEF KeptTogether
  <2>4. \A p \in Person : /\ (P2[p].state = "merged") <=> (P2[p].into # None)
                          /\ P2[p].into # None => P2[p].into < p /\ P2[P2[p].into].state # "absent"
                          /\ (R[p].holder = None) <=> (P2[p].state = "absent")
    BY <1>3, <1>8, <2>1, <2>2, SentinelAssumption DEF KeptTogether
  <2>5. \A p \in Person : /\ R[p].holder # None => P2[R[p].holder].state = "resolved"
                          /\ R[p].party # None => P2[R[p].party].state = "resolved"
    BY <1>3, <1>8, <2>1, <2>2, SentinelAssumption DEF KeptTogether
  <2> QED
    BY <2>3, <2>4, <2>5 DEF KeptTogether
<1>12. AllJudged(P2, I, C, StandsFor(t), {})
  <2>1. \A p \in Person : /\ P2[p].state = "resolved" => P[p].state = "resolved"
                          /\ P[p].state # "absent" => P2[p].state # "absent"
    BY <1>3, <1>6
  <2> QED
    BY <1>8, <2>1, PairParts DEF AllJudged, Known
<1>13. \A p \in Person : P[p].into # None => P2[p].into = P[p].into
  BY <1>6, <1>10
<1>14. /\ \A p \in Person : g[p] = g[f[p]]
       /\ g[k] = g[d]
       /\ g[current[t][1]] = g[current[t][2]]
  <2>1. \A p \in Person : g[p] = g[f[p]]
    BY <1>5, <1>13, WalkExtends DEF P
  <2>2. g[k] = g[d]
    <3>1. g[d] = g[k]
      BY <1>3, <1>5, <1>6, SentinelAssumption DEF Walks
    <3> QED
      BY <3>1
  <2>3. ASSUME kind[t] = "review" PROVE g[current[t][1]] = g[current[t][2]]
    BY <1>9, <2>2, <2>3
  <2>4. ASSUME kind[t] # "review" PROVE g[current[t][1]] = g[current[t][2]]
    <3>1. current[t][1] \in Person /\ current[t][2] \in Person
      BY <1>9, PairParts
    <3> QED
      BY <1>9, <2>1, <2>2, <2>4, <3>1
  <2> QED
    BY <2>1, <2>2, <2>3, <2>4
<1>16. MatchesMet(C, g, todo'[t])
  <2>1. \A q \in Pair : f[q[1]] = f[q[2]] => g[q[1]] = g[q[2]]
    BY <1>14, PairParts
  <2>2. \A q \in todo[t] : q \in todo'[t] \/ q = current[t]
    BY <1>2, <1>9
  <2> QED
    BY <1>8, <1>14, <2>1, <2>2 DEF MatchesMet
<1>17. OnlyAdds(t)'
  <2>1. ASSUME NEW p \in Person
        PROVE  /\ person[p].state # "absent" => P2[p].state # "absent"
               /\ person[p].into # None => P2[p].into = person[p].into
    <3>1. /\ person[p].state # "absent" => P[p].state # "absent"
          /\ person[p].into # None => P[p].into = person[p].into
      BY <1>8 DEF OnlyAdds, P
    <3>2. P[p].state # "absent" => P2[p].state # "absent"
      BY <1>3, <1>6
    <3> QED
      BY <1>13, <3>1, <3>2
  <2> QED
    BY <1>1, <1>4, <1>8, <2>1 DEF OnlyAdds, P2, C, HumanDecided
<1>19. AllJudged(P2, I, C, g, {})
  <2>1. ASSUME NEW p \in Person PROVE StandsFor(t)[p] = g[p]
    <3>1. f[p] \in Person /\ P[f[p]].into = None
      BY <1>5, WalkEnds DEF P
    <3>2. g[k] = k
      BY <1>3, <1>5, <1>10 DEF Walks
    <3>3. CASE f[p] = d
      BY <1>7, <1>14, <3>2, <3>3
    <3>4. CASE f[p] # d
      <4>1. P2[f[p]].into = None
        BY <1>6, <1>10, <3>1, <3>4
      <4> QED
        BY <1>5, <1>7, <1>14, <3>1, <3>4, <4>1 DEF Walks
    <3> QED
      BY <3>3, <3>4
  <2> QED
    BY <1>12, <2>1, JudgedAlike
<1>18. Gathered(t)'
  BY <1>1, <1>2, <1>4, <1>9 DEF Gathered, C, UnderWork
<1> QED
  BY <1>4, <1>7, <1>11, <1>14, <1>15, <1>16, <1>17, <1>18, <1>19 DEF UnderWork, P2, R, C, I, g

\* A reviewer's decision is the first on its candidate.
LEMMA DecideStep ==
    ASSUME TypeOK, TypeOK', NEW t \in Tx, MergeTarget(t), UnderWork(t), DecideCandidate(t)
    PROVE  UnderWork(t)'
<1> DEFINE P == PersonsSeen(t)
           C == CandsSeen(t)
           I == IdentSeen(t)
           f == Canonical(t)
           C2 == CandsSeen(t)'
           q == current[t]
           decided == [decision |-> choice[t], by |-> t]
<1>1. /\ pc[t] = "decide" /\ pc'[t] = "commit" /\ kind[t] = "review" /\ todo[t] = {}
      /\ q \in Pair
      /\ UNCHANGED << person, row, ident, cand, wPerson, wRow, wIdent, kind, todo, choice >>
  BY DEF DecideCandidate, Go, TypeOK, store, plan, work, merging, MergeTarget, UnderWork,
         Merging, Gathered
<1>2. PersonsSeen(t)' = P /\ RowsSeen(t)' = RowsSeen(t) /\ IdentSeen(t)' = I
      /\ Canonical(t)' = f
  <2>1. PersonsSeen(t)' = P /\ RowsSeen(t)' = RowsSeen(t) /\ IdentSeen(t)' = I
    BY <1>1 DEF PersonsSeen, RowsSeen, IdentSeen, PersonSeen, RowSeen
  <2>2. Canonical(t)' = Canonical(t)
    BY <1>1 DEF Canonical, PersonSeen
  <2> QED
    BY <2>1, <2>2
<1>3. decided # None /\ decided # NoWrite
  BY RowAssumption DEF TypeOK, Candidate
<1>4. C2[q] = decided /\ \A p \in Pair \ {q} : C2[p] = C[p]
  <2>1. wCand'[t][q] = decided /\ \A p \in Pair \ {q} : wCand'[t][p] = wCand[t][p]
    BY <1>1 DEF DecideCandidate, TypeOK
  <2> QED
    BY <1>1, <1>3, <2>1 DEF CandsSeen, CandSeen
<1>5. Emptied(t) = None /\ Emptied(t)' = None /\ Unjudged(t) = {} /\ Unjudged(t)' = {}
      /\ StandsFor(t) = f /\ StandsFor(t)' = f
  BY <1>1, <1>2 DEF Emptied, Unjudged, StandsFor
<1>6. /\ KeptTogether(P, RowsSeen(t), I, None) /\ AllJudged(P, I, C, f, {})
      /\ MatchesMet(C, f, {}) /\ OnlyAdds(t)
  BY <1>1, <1>5 DEF UnderWork
<1>7. /\ C[q] = SystemCandidate("review") /\ cand[q] = SystemCandidate("review")
      /\ choice[t] = "matched" => f[q[1]] = f[q[2]]
  BY <1>1 DEF UnderWork, Merging
<1>8. C[q] # None /\ ~HumanDecided(cand[q])
  BY <1>7, RowAssumption, SentinelAssumption
  DEF SystemCandidate, Candidate, Decisions, HumanDecided
<1>9. decided.decision = choice[t]
  OBVIOUS
<1> HIDE DEF P, C, C2, I, f, q, decided
<1>10. AllJudged(P, I, C2, f, {})
  <2>1. \A p \in Pair : C[p] # None <=> C2[p] # None
    BY <1>3, <1>4, <1>8
  <2> QED
    BY <1>6, <2>1 DEF AllJudged, Compared
<1>11. MatchesMet(C2, f, {})
  BY <1>4, <1>6, <1>7, <1>9 DEF MatchesMet
<1>12. OnlyAdds(t)'
  BY <1>1, <1>2, <1>3, <1>4, <1>6, <1>8 DEF OnlyAdds, HumanDecided, P, C, C2
<1>13. Gathered(t)' /\ Merging(t)'
  BY <1>1 DEF Gathered, Merging, Underway
<1> QED
  BY <1>1, <1>2, <1>5, <1>6, <1>10, <1>11, <1>12, <1>13 DEF UnderWork, P, C2, I, f

\* After the end of a transaction it sees what is committed, and works on nothing.
LEMMA EndStep ==
    ASSUME TypeOK, TypeOK', NEW t \in Tx, Forget(t), Committed', Descending(person')
    PROVE  UnderWork(t)'
<1>1. /\ pc'[t] = "idle" /\ todo'[t] = {} /\ kind'[t] = "rerun"
      /\ \A p \in Person : wPerson'[t][p] = NoWrite /\ wRow'[t][p] = NoWrite
      /\ \A p \in Pair : wCand'[t][p] = NoWrite
      /\ wIdent'[t] = NoRows
  BY DEF Forget, Go, TypeOK
<1>2. /\ PersonsSeen(t)' = person' /\ RowsSeen(t)' = row' /\ CandsSeen(t)' = cand'
      /\ IdentSeen(t)' = ident'
  BY <1>1 DEF PersonsSeen, RowsSeen, CandsSeen, IdentSeen, PersonSeen, RowSeen, CandSeen, NoRows, TypeOK
<1>3. Canonical(t)' = Survivor'
  BY <1>2, CanonicalWalksNext, SurvivorWalksNext, WalkUnique
<1>4. Emptied(t)' = None /\ Unjudged(t)' = {} /\ StandsFor(t)' = Survivor'
  BY <1>1, <1>3 DEF Emptied, Unjudged, StandsFor
<1>5. OnlyAdds(t)' /\ Gathered(t)' /\ Merging(t)'
  BY <1>1, <1>2 DEF OnlyAdds, Gathered, Merging, Underway, HumanDecided
<1> QED
  BY <1>1, <1>2, <1>3, <1>4, <1>5 DEF UnderWork, Committed

\* A commit makes the transaction's rows the committed ones.
LEMMA CommitStep ==
    ASSUME TypeOK, TypeOK', NEW t \in Tx, UnderWork(t), Commit(t), Descending(PersonsSeen(t))
    PROVE  Committed' /\ UnderWork(t)'
<1>1. /\ pc[t] = "commit" /\ todo[t] = {} /\ Emptied(t) = None /\ Unjudged(t) = {} /\ Forget(t)
      /\ StandsFor(t) = Canonical(t)
  BY DEF Commit, UnderWork, Gathered, Emptied, Unjudged, StandsFor
<1>2. person' = PersonsSeen(t) /\ row' = RowsSeen(t) /\ cand' = CandsSeen(t)
      /\ ident' = IdentSeen(t)
  BY DEF Commit, PersonsSeen, RowsSeen, CandsSeen
<1>3. Survivor' = Canonical(t)
  BY <1>2, CanonicalWalks, SurvivorWalksNext, WalkUnique
<1>4. Committed'
  BY <1>1, <1>2, <1>3 DEF Committed, UnderWork
<1> QED
  BY <1>1, <1>2, <1>4, EndStep

\* What is committed stands as long as nothing is committed.
LEMMA CommittedKept ==
    ASSUME Committed, UNCHANGED store
    PROVE  Committed' /\ Survivor' = Survivor
<1>1. Survivor' = Survivor
  BY DEF Survivor, store
<1> QED
  BY <1>1 DEF Committed, store

\* A transaction only sees pointers at earlier-created persons.
LEMMA SeenDescends ==
    ASSUME PointersDescend, WritesDescend, NEW t \in Tx
    PROVE  Descending(PersonsSeen(t))
  BY DEF PointersDescend, WritesDescend, Descending, PersonsSeen, PersonSeen

-----------------------------------------------------------------------------
(* One command at a time.                                                  *)

\* Operators run one command at a time: there is one session.
Serial == \A t, u \in Tx : t = u

\* Every step preserves what a command alone at work keeps together.
LEMMA SerialStep ==
    ASSUME Serial, IndInv, IndInv', SerialInv, [Next]_vars
    PROVE  SerialInv'
<1>0. /\ TypeOK /\ TypeOK' /\ MergeTargets /\ MergeTargets'
      /\ PointersDescend /\ WritesDescend /\ PointersDescend'
      /\ Committed /\ \A t \in Tx : UnderWork(t)
  BY DEF IndInv, SerialInv
<1>1. ASSUME NEW t \in Tx, Committed', UnderWork(t)' PROVE SerialInv'
  <2>1. \A u \in Tx : u = t
    BY DEF Serial
  <2> QED
    BY <1>1, <2>1 DEF SerialInv
<1>2. ASSUME NEW t \in Tx, UNCHANGED store, UnderWork(t)' PROVE SerialInv'
  BY <1>0, <1>1, <1>2, CommittedKept
<1>3. ASSUME NEW t \in Tx, BeginIngest(t) \/ BeginRerun(t) \/ BeginReview(t) PROVE SerialInv'
  <2>1. UNCHANGED store
    BY <1>3 DEF BeginIngest, BeginRerun, BeginReview
  <2> QED
    BY <1>0, <1>2, <1>3, <2>1, BeginStep, BeginReviewStep
<1>4. ASSUME NEW t \in Tx PROVE Descending(PersonsSeen(t)) /\ MergeTarget(t) /\ MergeTarget(t)'
  BY <1>0, SeenDescends DEF MergeTargets
<1>5. ASSUME NEW t \in Tx, ResolvePersons(t) \/ UpsertIdentifiers(t) \/ Publish(t)
      PROVE  SerialInv'
  <2>1. UNCHANGED store
    BY <1>5 DEF ResolvePersons, UpsertIdentifiers, Publish
  <2> QED
    BY <1>0, <1>2, <1>4, <1>5, <2>1, ResolvePersonsStep, UpsertIdentifiersStep, PublishStep
<1>6. ASSUME NEW t \in Tx,
             Block(t) \/ EvaluatePairs(t) \/ UpsertCandidates(t) \/ NextMatched(t)
      PROVE  SerialInv'
  <2>1. UNCHANGED store /\ pc[t] \in {"block", "evaluate", "upsert", "next"}
    BY <1>6 DEF Block, EvaluatePairs, UpsertCandidates, NextMatched
  <2>2. kind[t] # "review"
    BY <1>4, <2>1 DEF MergeTarget
  <2> QED
    BY <1>0, <1>2, <1>4, <1>6, <2>1, <2>2, BlockStep, EvaluateStep, UpsertStep, NextMatchedStep
<1>7. ASSUME NEW t \in Tx,
             CheckMerge(t) \/ MoveRows(t) \/ MarkMerged(t) \/ DecideCandidate(t)
      PROVE  SerialInv'
  <2>1. UNCHANGED store
    BY <1>7 DEF CheckMerge, MoveRows, MarkMerged, DecideCandidate
  <2> QED
    BY <1>0, <1>2, <1>4, <1>7, <2>1, CheckMergeStep, MoveRowsStep, MarkMergedStep, DecideStep
<1>8. ASSUME NEW t \in Tx, FailReview(t) \/ Crash(t) \/ AbortDeadlocked(t) PROVE SerialInv'
  <2>1. UNCHANGED store /\ Forget(t)
    BY <1>8 DEF FailReview, Crash, AbortDeadlocked
  <2>2. Descending(person')
    BY <1>0 DEF PointersDescend, Descending
  <2> QED
    BY <1>0, <1>2, <2>1, <2>2, CommittedKept, EndStep
<1>9. ASSUME NEW t \in Tx, Commit(t) PROVE SerialInv'
  BY <1>0, <1>1, <1>4, <1>9, CommitStep
<1>10. CASE UNCHANGED vars
  <2>1. UNCHANGED << person, row, ident, cand, wPerson, wRow, wIdent, wCand >> /\ UNCHANGED store
    BY <1>10 DEF vars, store, writes
  <2>2. ASSUME NEW t \in Tx PROVE UnderWork(t)'
    <3>1. /\ PersonsSeen(t)' = PersonsSeen(t) /\ RowsSeen(t)' = RowsSeen(t)
          /\ CandsSeen(t)' = CandsSeen(t) /\ Canonical(t)' = Canonical(t)
          /\ IdentSeen(t)' = IdentSeen(t)
          /\ OnlyAdds(t) => OnlyAdds(t)'
      BY <2>1, SeenKept
    <3>2. UnderWork(t)
      BY <1>0
    <3>3. Emptied(t)' = Emptied(t) /\ Unjudged(t)' = Unjudged(t)
          /\ StandsFor(t)' = StandsFor(t)
      BY <1>10, <3>1 DEF Emptied, Unjudged, StandsFor, vars, plan, work, merging
    <3>4. Gathered(t)'
      BY <1>10, <2>1, <3>1, <3>2 DEF UnderWork, Gathered, vars, plan, work, merging
    <3>5. Merging(t)'
      BY <1>10, <2>1, <3>1, <3>2 DEF UnderWork, Merging, Underway, vars, plan, work, merging
    <3>6. todo' = todo
      BY <1>10 DEF vars, work
    <3> QED
      BY <3>1, <3>2, <3>3, <3>4, <3>5, <3>6 DEF UnderWork
  <2> QED
    BY <1>0, <2>1, <2>2, CommittedKept DEF SerialInv
<1> QED
  BY <1>3, <1>5, <1>6, <1>7, <1>8, <1>9, <1>10 DEF Next, Step

\* While one command runs at a time, what is committed and what the command has written keep
\* together at every step, crashes included.
THEOREM SerialInvariant ==
    ASSUME Serial
    PROVE  Spec => []SerialInv
<1>1. Init => SerialInv
  <2> SUFFICES ASSUME Init PROVE SerialInv
    OBVIOUS
  <2>1. /\ \A p \in Person : person[p] = Absent /\ row[p] = [holder |-> None, party |-> None]
        /\ \A q \in Pair : cand[q] = None
        /\ ident = {}
        /\ \A p \in Person : person[p].state = "absent" /\ person[p].into = None
        /\ \A p \in Person : row[p].holder = None /\ row[p].party = None
    BY DEF Init, Absent
  <2>2. Committed
    BY <2>1, PairParts DEF Committed, KeptTogether, AllJudged, Share, MatchesMet
  <2>3. ASSUME NEW t \in Tx PROVE UnderWork(t)
    <3>1. /\ PersonsSeen(t) = person /\ RowsSeen(t) = row /\ CandsSeen(t) = cand
          /\ IdentSeen(t) = ident
      BY DEF Init, PersonsSeen, RowsSeen, CandsSeen, IdentSeen, PersonSeen, RowSeen, CandSeen, NoRows
    <3>2. /\ pc[t] = "idle" /\ kind[t] = "rerun" /\ todo[t] = {}
      BY DEF Init
    <3>3. Emptied(t) = None /\ Unjudged(t) = {}
      BY <3>2 DEF Emptied, Unjudged
    <3>4. MatchesMet(cand, Canonical(t), {}) /\ AllJudged(person, ident, cand, StandsFor(t), {})
      BY <2>1 DEF MatchesMet, AllJudged, Share
    <3>5. OnlyAdds(t) /\ Gathered(t) /\ Merging(t)
      BY <3>1, <3>2 DEF OnlyAdds, Gathered, Merging, Underway
    <3> QED
      BY <2>2, <3>1, <3>2, <3>3, <3>4, <3>5 DEF Committed, UnderWork
  <2> QED
    BY <2>2, <2>3 DEF SerialInv
<1>2. SerialInv /\ IndInv /\ IndInv' /\ [Next]_vars => SerialInv'
  BY SerialStep
<1> QED
  BY <1>1, <1>2, IndInvariant, PTL DEF Spec

\* One command at a time, a merged person holds no identifier and no party row, and exactly the
\* merged persons carry a pointer.
THEOREM MergesComplete ==
    ASSUME Serial
    PROVE  Spec => []MergedPersonsEmpty
<1>1. SerialInv => MergedPersonsEmpty
  <2> SUFFICES ASSUME SerialInv PROVE MergedPersonsEmpty
    OBVIOUS
  <2>1. KeptTogether(person, row, ident, None)
    BY DEF SerialInv, Committed
  <2> QED
    BY <2>1, SentinelAssumption DEF KeptTogether, MergedPersonsEmpty
<1> QED
  BY <1>1, SerialInvariant, PTL

\* One command at a time, the two persons of a matched pair are one person.
THEOREM MatchesMerged ==
    ASSUME Serial
    PROVE  Spec => []MatchedIsOnePerson
<1>1. SerialInv => MatchedIsOnePerson
  BY DEF SerialInv, Committed, MatchesMet, MatchedIsOnePerson
<1> QED
  BY <1>1, SerialInvariant, PTL

\* One command at a time, every two unmerged persons that share a name have been compared, they
\* or persons since merged into them: blocking misses no pair, whichever record arrives first,
\* whatever name it is published under again, and whatever is merged meanwhile.
THEOREM NoPairMissed ==
    ASSUME Serial
    PROVE  Spec => []SharedNamesJudged
<1>1. SerialInv => SharedNamesJudged
  <2> SUFFICES ASSUME SerialInv, NEW q \in Pair, SharedName(q)
               PROVE  \E x \in Pair : cand[x] # None /\ {Survivor[x[1]], Survivor[x[2]]} = {q[1], q[2]}
    BY DEF SharedNamesJudged
  <2>1. AllJudged(person, ident, cand, Survivor, {})
    BY DEF SerialInv, Committed
  <2> QED
    BY <2>1 DEF AllJudged, Share, SharedName, Compared
<1> QED
  BY <1>1, SerialInvariant, PTL

\* One command at a time, a reviewer's decision never changes again: not by the pipeline and
\* not by another review, which refuses a decided candidate.
THEOREM DecisionsFinal ==
    ASSUME Serial
    PROVE  Spec => HumanDecisionsFinal
<1>1. SerialInv /\ [Next]_vars =>
         [\A p \in Pair : cand[p] # None /\ HumanDecided(cand[p]) => cand'[p] = cand[p]]_vars
  <2> SUFFICES ASSUME SerialInv, Next, NEW p \in Pair, cand[p] # None, HumanDecided(cand[p])
               PROVE  cand'[p] = cand[p]
    OBVIOUS
  <2>1. CASE UNCHANGED cand
    BY <2>1
  <2>2. ASSUME NEW t \in Tx, Commit(t) PROVE cand'[p] = cand[p]
    <3>1. OnlyAdds(t)
      BY DEF SerialInv, UnderWork
    <3> QED
      BY <2>2, <3>1, Seen DEF Commit, OnlyAdds
  <2> QED
    BY <2>1, <2>2
    DEF Next, Step, store, writes, BeginIngest, BeginRerun, BeginReview, ResolvePersons,
        UpsertIdentifiers, Publish, Block, EvaluatePairs, UpsertCandidates, NextMatched, CheckMerge, FailReview, MoveRows,
        MarkMerged, DecideCandidate, Crash, AbortDeadlocked
<1> QED
  BY <1>1, SerialInvariant, PTL DEF Spec, HumanDecisionsFinal

-----------------------------------------------------------------------------
(* The refinement of PersonPartition.                                      *)

Counted == [p \in Person |-> IF person[p] = Absent THEN None ELSE Survivor[p]]

\* What the committed survivors are: known persons stand for known persons, themselves
\* standing for themselves, none later than those they stand for.
LEMMA SurvivorsStand ==
    ASSUME TypeOK, PointersDescend, Committed
    PROVE  /\ Counted \in [Person -> Person \cup {None}]
           /\ \A p \in Person : Counted[p] # None <=> person[p].state # "absent"
           /\ Partition!Canonical(Counted)
<1>1. person \in Rows /\ Walks(person, Survivor) /\ Descending(person)
  BY SurvivorWalks DEF PointersDescend, Descending
<1>2. KeptTogether(person, row, ident, None)
  BY DEF Committed
<1>3. \A p \in Person : person[p] = Absent <=> person[p].state = "absent"
  <2>1. ASSUME NEW p \in Person PROVE person[p] = Absent <=> person[p].state = "absent"
    <3>1. person[p] \in PersonRow /\ (person[p].state = "absent" => person[p].into = None)
      BY <1>1, <1>2 DEF Rows, KeptTogether
    <3> QED
      BY <3>1 DEF PersonRow, Absent
  <2> QED
    BY <2>1
<1>4. \A p \in Person : /\ Survivor[p] \in Person /\ Survivor[p] <= p
                        /\ person[Survivor[p]].into = None
                        /\ person[p].state # "absent" => person[Survivor[p]].state = "resolved"
  BY <1>1, <1>2, WalkEnds, SurvivorResolved
<1>5. \A p \in Person : Survivor[Survivor[p]] = Survivor[p]
  BY <1>1, <1>4 DEF Walks
<1>6. /\ Counted \in [Person -> Person \cup {None}]
      /\ \A p \in Person : Counted[p] # None <=> person[p].state # "absent"
      /\ \A p \in Person : person[p].state # "absent" => Counted[p] = Survivor[p]
  BY <1>3, <1>4, SentinelAssumption DEF Counted
<1>7. Partition!Canonical(Counted)
  BY <1>4, <1>5, <1>6 DEF Partition!Canonical, Partition!Known
<1> QED
  BY <1>6, <1>7

\* The same after a step.
LEMMA SurvivorsStandNext ==
    ASSUME TypeOK', PointersDescend', Committed'
    PROVE  /\ Counted' \in [Person -> Person \cup {None}]
           /\ \A p \in Person : Counted'[p] # None <=> person'[p].state # "absent"
           /\ Partition!Canonical(Counted')
<1>1. person' \in Rows /\ Walks(person', Survivor') /\ Descending(person')
  BY SurvivorWalksNext DEF PointersDescend, Descending
<1>2. KeptTogether(person', row', ident', None)
  BY DEF Committed
<1>3. \A p \in Person : person'[p] = Absent <=> person'[p].state = "absent"
  <2>1. ASSUME NEW p \in Person PROVE person'[p] = Absent <=> person'[p].state = "absent"
    <3>1. person'[p] \in PersonRow /\ (person'[p].state = "absent" => person'[p].into = None)
      BY <1>1, <1>2 DEF Rows, KeptTogether
    <3> QED
      BY <3>1 DEF PersonRow, Absent
  <2> QED
    BY <2>1
<1>4. \A p \in Person : /\ Survivor'[p] \in Person /\ Survivor'[p] <= p
                        /\ person'[Survivor'[p]].into = None
                        /\ person'[p].state # "absent" => person'[Survivor'[p]].state = "resolved"
  BY <1>1, <1>2, WalkEnds, SurvivorResolved
<1>5. \A p \in Person : Survivor'[Survivor'[p]] = Survivor'[p]
  BY <1>1, <1>4 DEF Walks
<1>6. /\ Counted' \in [Person -> Person \cup {None}]
      /\ \A p \in Person : Counted'[p] # None <=> person'[p].state # "absent"
      /\ \A p \in Person : person'[p].state # "absent" => Counted'[p] = Survivor'[p]
  BY <1>3, <1>4, SentinelAssumption DEF Counted
<1>7. Partition!Canonical(Counted')
  BY <1>4, <1>5, <1>6 DEF Partition!Canonical, Partition!Known
<1> QED
  BY <1>6, <1>7

\* A commit only joins classes of persons and adds new ones; no other step shows.
LEMMA PartitionStep ==
    ASSUME IndInv, IndInv', SerialInv, SerialInv', [Next]_vars
    PROVE  [Partition!Resolve]_Counted
<1>0. /\ TypeOK /\ TypeOK' /\ PointersDescend /\ PointersDescend' /\ WritesDescend
      /\ Committed /\ Committed'
  BY DEF IndInv, SerialInv
<1>1. CASE UNCHANGED person
  BY <1>1 DEF Counted, Survivor
<1>2. ASSUME NEW t \in Tx, Commit(t) PROVE Partition!Resolve
  <2>1. person' = PersonsSeen(t) /\ OnlyAdds(t)
    BY <1>2 DEF Commit, PersonsSeen, SerialInv, UnderWork
  <2>2. /\ person \in Rows /\ Walks(person, Survivor) /\ Descending(person)
        /\ person' \in Rows /\ Walks(person', Survivor')
    BY <1>0, SurvivorWalks, SurvivorWalksNext DEF PointersDescend, Descending
  <2>3. \A p \in Person : Survivor'[p] = Survivor'[Survivor[p]]
    BY <2>1, <2>2, WalkExtends DEF OnlyAdds
  <2>4. /\ \A p \in Person : Counted[p] # None <=> person[p].state # "absent"
        /\ \A p \in Person : Counted'[p] # None <=> person'[p].state # "absent"
        /\ Counted' \in [Person -> Person \cup {None}]
        /\ Partition!Canonical(Counted')
    BY <1>0, SurvivorsStand, SurvivorsStandNext
  <2>5. /\ \A p \in Person : Counted[p] # None => Counted[p] = Survivor[p]
        /\ \A p \in Person : Counted'[p] # None => Counted'[p] = Survivor'[p]
    BY DEF Counted
  <2>6. Partition!Coarsens(Counted, Counted')
    BY <2>1, <2>3, <2>4, <2>5 DEF Partition!Coarsens, Partition!Known, OnlyAdds
  <2> QED
    BY <2>4, <2>6 DEF Partition!Resolve, Counted
<1> QED
  BY <1>1, <1>2
  DEF Next, Step, vars, store, writes, BeginIngest, BeginRerun, BeginReview, ResolvePersons,
      UpsertIdentifiers, Publish, Block, EvaluatePairs, UpsertCandidates, NextMatched, CheckMerge, FailReview,
      MoveRows, MarkMerged, DecideCandidate, Crash, AbortDeadlocked

\* One command at a time, the transactions implement the partition that only coarsens.
THEOREM ImplementsPartition ==
    ASSUME Serial
    PROVE  Spec => RefinesPartition
<1>1. Init => Partition!Init
  BY DEF Init, Partition!Init
<1>2. IndInv /\ IndInv' /\ SerialInv /\ SerialInv' /\ [Next]_vars => [Partition!Resolve]_Counted
  BY PartitionStep
<1> QED
  BY <1>1, <1>2, IndInvariant, SerialInvariant, PTL DEF Spec, RefinesPartition, Partition!Spec, Counted
=============================================================================
