-------------------------- MODULE StagedDecisions --------------------------
(***************************************************************************)
(* The verdict on one pair of persons while evidence accrues: the records  *)
(* of the two persons grow (a publication attaches one, a merge re-points  *)
(* one), and the pair is evaluated after each change                       *)
(* (entity_resolution/features.py, pipeline.evaluate).                     *)
(*                                                                         *)
(* One record is what one participant row of a source says of a person:    *)
(* a stable identifier, a name, perhaps a date of birth, and its cases.    *)
(***************************************************************************)
EXTENDS ResolutionStages

CONSTANTS
    Record,         \* records [source_id, name, dob, cases], dob possibly None
    Probability     \* what the scorer may answer: percentages, or None when it declines

ASSUME ProbabilityAssumption == Probability \subseteq 0..100 \cup {None}

VARIABLES
    left, right,    \* the records of the two persons
    probability     \* the scorer's answer for the pair

vars == << left, right, probability >>

\* load_profiles: what the records of a person make of its profile.
ProfileOf(records) ==
    [ source_ids |-> {r.source_id : r \in records},
      names      |-> {r.name : r \in records},
      dobs       |-> {r.dob : r \in records} \ {None},
      name_dobs  |-> {<< r.name, r.dob >> : r \in {s \in records : s.dob # None}},
      cases      |-> UNION {r.cases : r \in records} ]

Features(a, b) == ComputeFeatures(ProfileOf(a), ProfileOf(b))
Decided(a, b) == Evaluate(Features(a, b), probability).decision
Blocked == HasSignal(Features(left, right))

-----------------------------------------------------------------------------
Init ==
    /\ \E r, s \in Record : r # s /\ left = {r} /\ right = {s}
    /\ probability \in Probability

\* A record joins one of the two persons.
Attach(r) ==
    /\ r \notin left \cup right
    /\ \/ left' = left \cup {r} /\ UNCHANGED right
       \/ right' = right \cup {r} /\ UNCHANGED left
    /\ UNCHANGED probability

Next == \E r \in Record : Attach(r)

Spec == Init /\ [][Next]_vars
-----------------------------------------------------------------------------
(* The reference reading of the evidence, record against record.           *)

SameIdentity == \E r \in left, s \in right : r.source_id = s.source_id
SameNameDob == \E r \in left, s \in right : r.name = s.name /\ r.dob = s.dob /\ r.dob # None
CaseLink == \E r \in left, s \in right : \E c \in r.cases, d \in s.cases :
    c = d \/ (c.cites # None /\ c.cites = d.number) \/ (d.cites # None /\ d.cites = c.number)

\* Which of the two persons comes first in the pair decides nothing.
OrderIrrelevant == Decided(left, right) = Decided(right, left)

\* While the scorer declines, a pair is matched exactly on one stable identifier, or on one
\* name with its date of birth together with a case they share or that cites the other: never
\* on a name alone (docs/ENTITY_RESOLUTION.md "Never on a name alone").
MatchedOnEvidence == Blocked /\ probability = None =>
    (Decided(left, right) = "matched" <=> SameIdentity \/ (SameNameDob /\ CaseLink))

\* Two persons with one name and date of birth are never rejected by a rule: whatever else
\* their records say, they are merged or a person looks at them.
AgreementNotRejected == SameNameDob /\ probability = None => Decided(left, right) # "rejected"

\* A matched pair stays matched whatever is published about it later, as long as the scorer
\* keeps its answer: the irreversible merge is never contradicted by the stages.
NeverUnmatched ==
    [][Blocked /\ Decided(left, right) = "matched" => Decided(left', right') = "matched"]_vars
=============================================================================
