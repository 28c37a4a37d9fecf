----------------------- MODULE StagedDecisionsProofs -----------------------
(***************************************************************************)
(* What the stages decide, for every set of records and every answer of    *)
(* the scorer.                                                             *)
(***************************************************************************)
EXTENDS StagedDecisions, TLAPS

\* pipeline.evaluate, unfolded: the stages in order, the first decisive one winning, else the
\* first that asks for a review.
LEMMA EvaluateStages ==
    ASSUME NEW f, NEW p
    PROVE  LET first == DeterministicDecide(f)
               second == RulesDecide(f)
               third == ScoringDecide(p)
           IN  Evaluate(f, p) =
                 IF first # None /\ Decisive(first) THEN first
                 ELSE IF second # None /\ Decisive(second) THEN second
                 ELSE IF third # None /\ Decisive(third) THEN third
                 ELSE IF second # None THEN second
                 ELSE IF third # None THEN third
                 ELSE Result("review", 50, "review")
<1> DEFINE results == << DeterministicDecide(f), RulesDecide(f), ScoringDecide(p) >>
           decisive == {i \in 1..3 : results[i] # None /\ Decisive(results[i])}
           pending == {i \in 2..3 : results[i] # None}
           First(S) == CHOOSE i \in S : \A j \in S : i <= j
<1>1. /\ results[1] = DeterministicDecide(f)
      /\ results[2] = RulesDecide(f)
      /\ results[3] = ScoringDecide(p)
  OBVIOUS
<1>2. Evaluate(f, p) = IF decisive # {} THEN results[First(decisive)]
                       ELSE IF pending # {} THEN results[First(pending)]
                       ELSE Result("review", 50, "review")
  BY Zenon DEF Evaluate
<1>3. ASSUME NEW S \in SUBSET (1..3), NEW k \in S, \A j \in S : k <= j
      PROVE  First(S) = k
  <2>1. First(S) \in S /\ \A j \in S : First(S) <= j
    BY <1>3
  <2> HIDE DEF First
  <2>2. /\ First(S) \in 1..3 /\ k \in 1..3
        /\ First(S) <= k /\ k <= First(S)
    BY <1>3, <2>1
  <2> QED
    BY <2>2
<1> HIDE DEF results, First
<1>4. CASE 1 \in decisive
  <2>1. First(decisive) = 1
    BY <1>3, <1>4
  <2> QED
    BY <1>1, <1>2, <1>4, <2>1
<1>5. CASE 1 \notin decisive /\ 2 \in decisive
  <2>1. First(decisive) = 2
    BY <1>3, <1>5
  <2> QED
    BY <1>1, <1>2, <1>5, <2>1
<1>6. CASE 1 \notin decisive /\ 2 \notin decisive /\ 3 \in decisive
  <2>1. First(decisive) = 3
    BY <1>3, <1>6
  <2> QED
    BY <1>1, <1>2, <1>6, <2>1
<1>7. CASE decisive = {} /\ 2 \in pending
  <2>1. First(pending) = 2
    BY <1>3, <1>7
  <2> QED
    BY <1>1, <1>2, <1>7, <2>1
<1>8. CASE decisive = {} /\ 2 \notin pending /\ 3 \in pending
  <2>1. First(pending) = 3
    BY <1>3, <1>8
  <2> QED
    BY <1>1, <1>2, <1>8, <2>1
<1>9. CASE decisive = {} /\ pending = {}
  BY <1>1, <1>2, <1>9
<1> QED
  BY <1>4, <1>5, <1>6, <1>7, <1>8, <1>9

\* When a pair is matched: on a shared identifier, on the first rule, or by the scorer when
\* neither rejecting rule applies; and when the rules alone reject it.
LEMMA WhenDecided ==
    ASSUME NEW f, NEW p \in Probability
    PROVE  LET linked == f.same_name_dob /\ (f.shared_case \/ f.related_case_link)
               against == f.same_name /\ (f.dob_missing_either \/ DobDiffers(f))
           IN  /\ Evaluate(f, p).decision = "matched" <=>
                     \/ f.same_source_id \/ linked
                     \/ p # None /\ p >= AutoMatch /\ ~against
               /\ p = None /\ Evaluate(f, p).decision = "rejected" => against
<1> DEFINE first == DeterministicDecide(f)
           second == RulesDecide(f)
           third == ScoringDecide(p)
           linked == f.same_name_dob /\ (f.shared_case \/ f.related_case_link)
           against == f.same_name /\ (f.dob_missing_either \/ DobDiffers(f))
<1>1. Evaluate(f, p) =
        IF first # None /\ Decisive(first) THEN first
        ELSE IF second # None /\ Decisive(second) THEN second
        ELSE IF third # None /\ Decisive(third) THEN third
        ELSE IF second # None THEN second
        ELSE IF third # None THEN third
        ELSE Result("review", 50, "review")
  BY EvaluateStages, Zenon
<1>2. /\ f.same_source_id => first # None /\ first.decision = "matched"
      /\ ~f.same_source_id => first = None
  BY ResultAssumption DEF DeterministicDecide, Result, Decisions, Stages
<1>3. /\ linked => second # None /\ second.decision = "matched"
      /\ ~linked /\ second # None => second.decision \in {"review", "rejected"}
      /\ second # None /\ second.decision = "rejected" => against
      /\ ~linked /\ against => second # None /\ second.decision = "rejected"
  BY ResultAssumption DEF RulesDecide, Linked, Result, Decisions, Stages, AgeConsistent, DobDiffers
<1>4. /\ p = None => third = None
      /\ p # None => /\ p \in 0..100 /\ third # None
                     /\ third.decision = "matched" <=> p >= AutoMatch
                     /\ third.decision \in Decisions
  BY ResultAssumption, ProbabilityAssumption, ThresholdAssumption
  DEF ScoringDecide, Result, Decisions, Stages
<1>5. Result("review", 50, "review").decision = "review"
  BY DEF Result
<1> HIDE DEF first, second, third, linked, against
<1>6. /\ Evaluate(f, p).decision = "matched" <=>
           f.same_source_id \/ linked \/ (p # None /\ p >= AutoMatch /\ ~against)
      /\ p = None /\ Evaluate(f, p).decision = "rejected" => against
  BY <1>1, <1>2, <1>3, <1>4, <1>5 DEF Decisive, Decisions
<1> QED
  BY <1>6 DEF linked, against
-----------------------------------------------------------------------------
\* The scorer's answer is one of those it may give.
Answerable == probability \in Probability

LEMMA AnswerKept == Spec => []Answerable
<1>1. Init => Answerable
  BY DEF Init, Answerable
<1>2. Answerable /\ [Next]_vars => Answerable'
  BY DEF Next, Attach, vars, Answerable
<1> QED
  BY <1>1, <1>2, PTL DEF Spec

\* Features look at the two profiles alike.
LEMMA FeaturesSymmetric ==
    ASSUME NEW a, NEW b
    PROVE  ComputeFeatures(a, b) = ComputeFeatures(b, a)
<1>1. \A S, T : Meet(S, T) = Meet(T, S)
  BY DEF Meet
<1> QED
  BY <1>1 DEF ComputeFeatures, Related

\* The verdict on a pair does not depend on which of the two persons comes first.
THEOREM OrderNeverMatters == Spec => []OrderIrrelevant
<1>1. OrderIrrelevant
  BY FeaturesSymmetric DEF OrderIrrelevant, Decided, Features
<1> QED
  BY <1>1, PTL

\* More records of a person leave every agreement in place.
LEMMA AgreementsGrow ==
    ASSUME NEW a, NEW b, NEW c, NEW d, a \subseteq c, b \subseteq d
    PROVE  LET f == Features(a, b)
               g == Features(c, d)
           IN  /\ f.same_source_id => g.same_source_id
               /\ f.same_name => g.same_name
               /\ f.same_dob => g.same_dob
               /\ f.same_name_dob => g.same_name_dob
               /\ f.shared_case => g.shared_case
               /\ f.related_case_link => g.related_case_link
               /\ ~f.dob_missing_either => ~g.dob_missing_either
<1>1. ASSUME NEW S, NEW T, S \subseteq T
      PROVE  /\ ProfileOf(S).source_ids \subseteq ProfileOf(T).source_ids
             /\ ProfileOf(S).names \subseteq ProfileOf(T).names
             /\ ProfileOf(S).dobs \subseteq ProfileOf(T).dobs
             /\ ProfileOf(S).name_dobs \subseteq ProfileOf(T).name_dobs
             /\ ProfileOf(S).cases \subseteq ProfileOf(T).cases
  BY <1>1 DEF ProfileOf
<1>2. ASSUME NEW S, NEW T, S \subseteq T
      PROVE  /\ Cited(ProfileOf(S)) \subseteq Cited(ProfileOf(T))
             /\ Numbers(ProfileOf(S)) \subseteq Numbers(ProfileOf(T))
  BY <1>1, <1>2 DEF Cited, Numbers
<1>3. ASSUME NEW R, NEW S, NEW T, NEW U, R \subseteq T, S \subseteq U, Meet(R, S)
      PROVE  Meet(T, U)
  BY <1>3 DEF Meet
<1>4. /\ Features(a, b).same_source_id => Features(c, d).same_source_id
      /\ Features(a, b).same_name => Features(c, d).same_name
  BY <1>1, <1>3 DEF Features, ComputeFeatures
<1>5. /\ Features(a, b).same_dob => Features(c, d).same_dob
      /\ Features(a, b).same_name_dob => Features(c, d).same_name_dob
      /\ Features(a, b).shared_case => Features(c, d).shared_case
  BY <1>1, <1>3 DEF Features, ComputeFeatures
<1>6. Features(a, b).related_case_link => Features(c, d).related_case_link
  BY <1>2, <1>3 DEF Features, ComputeFeatures, Related
<1>7. ~Features(a, b).dob_missing_either => ~Features(c, d).dob_missing_either
  BY <1>1 DEF Features, ComputeFeatures
<1> QED
  BY <1>4, <1>5, <1>6, <1>7

\* No evidence published later turns a match into anything else.
THEOREM MatchesStand == Spec => NeverUnmatched
<1>1. Answerable /\ [Next]_vars =>
        [Blocked /\ Decided(left, right) = "matched" => Decided(left', right') = "matched"]_vars
  <2> SUFFICES ASSUME Answerable, Next,
                      Blocked, Decided(left, right) = "matched"
               PROVE  Decided(left', right') = "matched"
    BY Zenon
  <2> DEFINE f == Features(left, right)
             g == Features(left', right')
  <2>1. left \subseteq left' /\ right \subseteq right'
    BY DEF Next, Attach
  <2>2. /\ f.same_source_id => g.same_source_id
        /\ f.same_name => g.same_name
        /\ f.same_dob => g.same_dob
        /\ f.same_name_dob => g.same_name_dob
        /\ f.shared_case => g.shared_case
        /\ f.related_case_link => g.related_case_link
        /\ ~f.dob_missing_either => ~g.dob_missing_either
    BY <2>1, AgreementsGrow
  <2>3. f.same_source_id \/ f.same_name
    BY DEF Blocked, HasSignal
  <2> HIDE DEF f, g
  <2>4. Evaluate(f, probability).decision = "matched"
    BY DEF Decided, f
  <2>5. CASE f.same_source_id \/ (f.same_name_dob /\ (f.shared_case \/ f.related_case_link))
    <3>1. Evaluate(g, probability).decision = "matched"
      BY <2>2, <2>5, WhenDecided DEF Answerable
    <3> QED
      BY <3>1 DEF Decided, g
  <2>6. CASE /\ ~f.same_source_id
             /\ ~(f.same_name_dob /\ (f.shared_case \/ f.related_case_link))
    <3>1. /\ probability # None /\ probability >= AutoMatch
          /\ ~(f.same_name /\ (f.dob_missing_either \/ DobDiffers(f)))
      BY <2>4, <2>6, WhenDecided DEF Answerable
    <3>2. ~f.dob_missing_either /\ f.same_dob
      BY <2>3, <2>6, <3>1 DEF DobDiffers
    <3>3. ~(g.same_name /\ (g.dob_missing_either \/ DobDiffers(g)))
      BY <2>2, <3>2 DEF DobDiffers
    <3>4. Evaluate(g, probability).decision = "matched"
      BY <3>1, <3>3, WhenDecided DEF Answerable
    <3> QED
      BY <3>4 DEF Decided, g
  <2> QED
    BY <2>5, <2>6
<1> QED
  BY <1>1, AnswerKept, PTL DEF Spec, NeverUnmatched

\* The features of two persons say what their records say one by one.
LEMMA EvidenceFeatures ==
    LET f == Features(left, right)
    IN  /\ f.same_source_id <=> SameIdentity
        /\ f.same_name_dob <=> SameNameDob
        /\ f.shared_case \/ f.related_case_link <=> CaseLink
        /\ f.same_name_dob => f.same_dob /\ ~f.dob_missing_either
<1> DEFINE f == Features(left, right)
           a == ProfileOf(left)
           b == ProfileOf(right)
<1>1. f.same_source_id <=> SameIdentity
  BY DEF Features, ComputeFeatures, ProfileOf, Meet, SameIdentity
<1>2. f.same_name_dob <=> SameNameDob
  <2>1. f.same_name_dob <=> Meet(a.name_dobs, b.name_dobs)
    BY DEF Features, ComputeFeatures
  <2>2. a.name_dobs = {<< r.name, r.dob >> : r \in {s \in left : s.dob # None}}
    BY DEF ProfileOf
  <2>3. b.name_dobs = {<< r.name, r.dob >> : r \in {s \in right : s.dob # None}}
    BY DEF ProfileOf
  <2> HIDE DEF f, a, b
  <2>4. ASSUME SameNameDob PROVE Meet(a.name_dobs, b.name_dobs)
    <3>1. PICK r \in left, s \in right : r.name = s.name /\ r.dob = s.dob /\ r.dob # None
      BY <2>4 DEF SameNameDob
    <3>2. << r.name, r.dob >> \in a.name_dobs /\ << s.name, s.dob >> \in b.name_dobs
      BY <2>2, <2>3, <3>1
    <3> QED
      BY <3>1, <3>2 DEF Meet
  <2>5. ASSUME Meet(a.name_dobs, b.name_dobs) PROVE SameNameDob
    <3>1. PICK x \in a.name_dobs : x \in b.name_dobs
      BY <2>5 DEF Meet
    <3>2. PICK r \in left : r.dob # None /\ x = << r.name, r.dob >>
      BY <2>2, <3>1
    <3>3. PICK s \in right : s.dob # None /\ x = << s.name, s.dob >>
      BY <2>3, <3>1
    <3>4. r.name = s.name /\ r.dob = s.dob
      BY <3>2, <3>3
    <3> QED
      BY <3>2, <3>4 DEF SameNameDob
  <2> QED
    BY <2>1, <2>4, <2>5
<1>3. f.shared_case \/ f.related_case_link <=> CaseLink
  <2>1. f.shared_case \/ f.related_case_link <=>
          Meet(a.cases, b.cases) \/ Meet(Cited(a), Numbers(b)) \/ Meet(Cited(b), Numbers(a))
    BY DEF Features, ComputeFeatures, Related
  <2>2. /\ \A c : c \in a.cases <=> \E r \in left : c \in r.cases
        /\ \A c : c \in b.cases <=> \E r \in right : c \in r.cases
    BY DEF ProfileOf
  <2> HIDE DEF f, a, b
  <2>3. CaseLink <=> \E c \in a.cases, d \in b.cases :
            \/ c = d
            \/ c.cites # None /\ c.cites = d.number
            \/ d.cites # None /\ d.cites = c.number
    BY <2>2, Zenon DEF CaseLink
  <2>4. Meet(a.cases, b.cases) <=> \E c \in a.cases, d \in b.cases : c = d
    BY DEF Meet
  <2>5. \A p, q : Meet(Cited(p), Numbers(q)) <=>
            \E c \in p.cases, d \in q.cases : c.cites # None /\ c.cites = d.number
    BY DEF Meet, Cited, Numbers
  <2> QED
    BY <2>1, <2>3, <2>4, <2>5
<1>4. f.same_name_dob => f.same_dob /\ ~f.dob_missing_either
  <2>1. SameNameDob => \E r \in left, s \in right : r.dob = s.dob /\ r.dob # None
    BY DEF SameNameDob
  <2>2. (\E r \in left, s \in right : r.dob = s.dob /\ r.dob # None)
           => \E x : x \in a.dobs /\ x \in b.dobs
    BY DEF ProfileOf
  <2>3. (\E x : x \in a.dobs /\ x \in b.dobs) => f.same_dob /\ ~f.dob_missing_either
    BY DEF Features, ComputeFeatures, Meet
  <2> QED
    BY <1>2, <2>1, <2>2, <2>3
<1> QED
  BY <1>1, <1>2, <1>3, <1>4

\* Without a scorer, persons are matched on exactly the evidence the rules name, never on a
\* name alone.
THEOREM NeverOnNameAlone == Spec => []MatchedOnEvidence
<1>1. Answerable => MatchedOnEvidence
  BY EvidenceFeatures, WhenDecided DEF Answerable, MatchedOnEvidence, Decided
<1> QED
  BY <1>1, AnswerKept, PTL

\* Without a scorer, two persons of one name and date of birth are never rejected.
THEOREM AgreementStands == Spec => []AgreementNotRejected
<1>1. Answerable => AgreementNotRejected
  BY EvidenceFeatures, WhenDecided DEF Answerable, AgreementNotRejected, Decided, DobDiffers
<1> QED
  BY <1>1, AnswerKept, PTL
=============================================================================
