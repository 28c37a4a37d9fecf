------------------------- MODULE MCMetricPublication -------------------------
(***************************************************************************)
(* Small instances of MetricPublication.  Two parts of the data: the first *)
(* moves the rate of subject 1, the second those of both and whether       *)
(* subject 2 has any draft; a ratio depends on all the data.  Registry 2   *)
(* has a new definition of the rate, and draws another ratio under the     *)
(* definition it keeps.                                                    *)
(***************************************************************************)
EXTENDS MetricPublication, TLC

Rate(c, s) == IF s = 1 THEN <<c[1], c[2]>> ELSE <<c[2]>>
MCDefinition == [t \in Slots |-> [r \in Registries |-> IF t = "rate" THEN r ELSE 1]]
MCDrafts ==
  [c \in Contents |-> [r \in Registries |-> [s \in Subjects |->
     [t \in IF s = 1 THEN Slots ELSE IF c[2] = 1 THEN Slots \ Adjusted ELSE {} |->
        IF t = "rate" THEN Rate(c, s) ELSE IF r = 1 THEN <<c[1], c[2]>> ELSE <<c[2], c[1]>>]]]]
MCValues == {<<x>> : x \in Levels} \cup (Levels \X Levels)
MCImpacted == [c \in Cells |-> IF c = 1 THEN {1} ELSE Subjects]
MCFirstData == [c \in Cells |-> c - 1]

=============================================================================
