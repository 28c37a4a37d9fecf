------------------------- MODULE ResolutionStages -------------------------
(***************************************************************************)
(* The pure half of person entity resolution: the feature vector of a pair *)
(* of person profiles and the staged verdict on it                         *)
(* (entity_resolution/features.py, deterministic.py, rules.py, scoring.py, *)
(* pipeline.evaluate).                                                     *)
(*                                                                         *)
(* A profile is a record of sets of hashes and of the cases the person is  *)
(* a party to.  A hash is only ever compared for equality, so any value    *)
(* serves.  Probabilities are integers in percent.                         *)
(***************************************************************************)
EXTENDS Naturals

CONSTANTS
    AutoMatch,      \* percent: a scored pair at or above it is matched
    AutoReject,     \* percent: a scored pair below it is rejected
    None            \* no value: no stage result, no score, no citation

ASSUME ThresholdAssumption ==
    /\ AutoMatch \in 0..100
    /\ AutoReject \in 0..100
    /\ AutoReject < AutoMatch
    /\ None \notin 0..100

Decisions == {"matched", "rejected", "review"}
Stages == {"deterministic", "rule", "probabilistic", "review"}

-----------------------------------------------------------------------------
(* Features.                                                               *)

\* Mutation of Meet: one person's hashes must be the other's.
Coincide(S, T) == S = T /\ S # {}

Meet(S, T) == S \cap T # {}

Cited(p) == {c.cites : c \in p.cases} \ {None}
Numbers(p) == {c.number : c \in p.cases}
Courts(p) == {c.court : c \in p.cases}

\* Mutation of Related: only the first person's cases are asked what they cite.
CitesOther(a, b) == Meet(Cited(a), Numbers(b))

Related(a, b) == Meet(Cited(a), Numbers(b)) \/ Meet(Cited(b), Numbers(a))

\* compute_features: the filing gap is stored but decides nothing, and is left out.
ComputeFeatures(a, b) ==
    [ same_source_id     |-> Meet(a.source_ids, b.source_ids),
      same_name          |-> Meet(a.names, b.names),
      same_dob           |-> Meet(a.dobs, b.dobs),
      dob_missing_either |-> a.dobs = {} \/ b.dobs = {},
      same_name_dob      |-> Meet(a.name_dobs, b.name_dobs),
      shared_case        |-> Meet(a.cases, b.cases),
      related_case_link  |-> Related(a, b),
      same_court         |-> Meet(Courts(a), Courts(b)) ]

\* age_consistent is None unless both dates of birth are known: only "true" is ever tested.
AgeConsistent(f) == ~f.dob_missing_either /\ f.same_dob
DobDiffers(f) == ~f.dob_missing_either /\ ~f.same_dob
HasSignal(f) == f.same_source_id \/ f.same_name

-----------------------------------------------------------------------------
(* Stages.  A result is [decision, score, stage] or None.                  *)

Result(decision, score, stage) == [decision |-> decision, score |-> score, stage |-> stage]
ASSUME ResultAssumption ==
    \A d \in Decisions, score \in 0..100, stage \in Stages : Result(d, score, stage) # None
Decisive(r) == r.decision # "review"

DeterministicDecide(f) ==
    IF f.same_source_id THEN Result("matched", 100, "deterministic") ELSE None

Linked(f) == f.same_name_dob /\ (f.shared_case \/ f.related_case_link)

\* The rules in order; the first whose condition holds decides.
RulesDecide(f) ==
    LET sameCourt == f.same_name_dob /\ f.same_court /\ AgeConsistent(f) /\ ~DobDiffers(f)
    IN  IF Linked(f) THEN Result("matched", 98, "rule")
        ELSE IF sameCourt THEN Result("review", 70, "rule")
        ELSE IF f.same_name /\ f.dob_missing_either THEN Result("rejected", 10, "rule")
        ELSE IF f.same_name /\ DobDiffers(f) THEN Result("rejected", 2, "rule")
        ELSE None

\* The scorer's answer is a percentage, or None when it declines (StubScorer always does).
ScoringDecide(probability) ==
    IF probability = None THEN None
    ELSE Result(CASE probability >= AutoMatch -> "matched"
                  [] probability < AutoReject -> "rejected"
                  [] OTHER -> "review",
                probability, "probabilistic")

\* evaluate: the first decisive stage ends the pipeline; otherwise the first review result
\* stands, and a pair no stage had an opinion on is queued by the review stage itself.
Evaluate(f, probability) ==
    LET results == << DeterministicDecide(f), RulesDecide(f), ScoringDecide(probability) >>
        decisive == {i \in 1..3 : results[i] # None /\ Decisive(results[i])}
        pending == {i \in 2..3 : results[i] # None}
        First(S) == CHOOSE i \in S : \A j \in S : i <= j
    IN  IF decisive # {} THEN results[First(decisive)]
        ELSE IF pending # {} THEN results[First(pending)]
        ELSE Result("review", 50, "review")
=============================================================================
