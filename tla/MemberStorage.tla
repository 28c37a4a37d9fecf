---------------------------- MODULE MemberStorage ----------------------------
(***************************************************************************)
(* The members behind the computed figures, as they were stored before     *)
(* migration 0013 (one set for each observation) and as they are stored    *)
(* now (one family for each definition of a subject).                      *)
(***************************************************************************)
EXTENDS CaseMetrics

Conversion == INSTANCE MemberConversion WITH NoSlot <- None

\* The members that were stored with every observation survive the migration to
\* families and back, and the family it makes is the one the engine makes now,
\* but for the rows without a value of a category that has no figure in their
\* year (alembic 0013).
MigrationKeepsMembers ==
  EveryFigure(LAMBDA f : f.drafts # {} =>
      LET key(d) == <<d.year, Window(f, d), d.dimension>>
          stored == [o \in {key(d) : d \in f.drafts} |->
                       Families!Multiset(Members(f, CHOOSE d \in f.drafts : key(d) = o))]
          family == Conversion!ConvertUp(f.family.kind, f.family.mode, f.family.slots, stored)
          shown == {r \in f.family.rows :
                      f.family.mode = "belongs_to" =>
                        \E d \in f.drafts : d.year = r.profile.year /\ d.dimension = r.profile.dimension}
      IN /\ Conversion!Converts(f.family.mode, stored)
         /\ Conversion!ConvertDown(family, DOMAIN stored) = stored
         /\ f.def.byYear => (shown = f.family.rows <=> Families!Digest(family) = Families!Digest(f.family)))

\* The figures of one subject agree with each other and with the members stored
\* behind them, whatever kind of definition computed them, and those members come
\* through the migration to families unchanged (compute.py, members.py, censoring.py,
\* alembic 0013).
FiguresCohere == FamiliesExplain /\ SurvivalMeetsRate /\ MigrationKeepsMembers
=============================================================================
