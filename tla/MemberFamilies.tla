--------------------------- MODULE MemberFamilies ---------------------------
(***************************************************************************)
(* Member families (metrics/members.py): the rows behind every observation *)
(* of one metric for one subject and source, each kept once, and the       *)
(* projection that cuts one observation's members out of them again.  A    *)
(* flag mask is the set of the windows whose bit is set; a metric without  *)
(* windows has the single slot None.                                       *)
(***************************************************************************)
EXTENDS Integers, FiniteSets, FiniteSetsExt

CONSTANT NoSlot   \* the slot, year or dimension that is not there

ModeFor(kind, dimension) ==
  IF kind = "distribution" THEN "counted_in"
  ELSE IF kind = "median" /\ dimension # NoSlot THEN "belongs_to" ELSE "plain"

(***************************************************************************)
(* An atom stands for one row; "row" tells apart two rows that agree on    *)
(* everything else (the defendants of one case) and is not kept.           *)
(***************************************************************************)
Atom(row, id, year, dimension, counted, followed) ==
  [row |-> row, id |-> id, year |-> year, dimension |-> dimension,
   counted |-> counted, followed |-> followed]

Key(a) == <<a.id, a.year, a.dimension>>

\* The flags of one slot as a code: counted is the high bit.
Code(a, slot) == (IF slot \in a.counted THEN 2 ELSE 0) + (IF slot \in a.followed THEN 1 ELSE 0)

\* The k-th smallest code of the atoms in a slot.
Kth(atoms, slot, k) ==
  Min({c \in 0 .. 3 : Cardinality({a \in atoms : Code(a, slot) <= c}) >= k})

\* Rows that share a key are paired by sorted order, slot by slot.
Paired(atoms, slots, k) ==
  LET some == CHOOSE a \in atoms : TRUE
      code == [s \in slots |-> Kth(atoms, s, k)]
  IN [id |-> some.id, year |-> some.year, dimension |-> some.dimension,
      counted |-> {s \in slots : code[s] \div 2 = 1},
      followed |-> {s \in slots : code[s] % 2 = 1}]

(***************************************************************************)
(* The canonical rows: paired, and identical rows merged with a            *)
(* multiplicity.                                                           *)
(***************************************************************************)
Canonical(atoms, slots) ==
  LET group(k) == {a \in atoms : Key(a) = k}
      rowsOf(k) == LET g == group(k)
                       paired == [n \in 1 .. Cardinality(g) |-> Paired(g, slots, n)]
                   IN {[profile |-> paired[n],
                        copies |-> Cardinality({m \in DOMAIN paired : paired[m] = paired[n]})] :
                       n \in DOMAIN paired}
  IN UNION {rowsOf(k) : k \in {Key(a) : a \in atoms}}

MemberFamily(kind, mode, slots, atoms) ==
  [kind |-> kind, mode |-> mode, slots |-> slots, rows |-> Canonical(atoms, slots)]

\* What the digest stands for: two families are the same members.
Digest(family) == <<family.kind, family.rows>>

(***************************************************************************)
(* One observation of the family: the rows of a year (NoSlot: the whole    *)
(* window), the flags of a slot, the members of a dimension value.         *)
(***************************************************************************)
Project(family, year, slot, dimension) ==
  LET kept == {r \in family.rows :
                 /\ year = NoSlot \/ r.profile.year = year
                 /\ family.mode = "belongs_to" /\ dimension # NoSlot =>
                      r.profile.dimension = dimension}
  IN {[row |-> r, id |-> r.profile.id, copies |-> r.copies,
       counted |-> IF family.mode = "counted_in" THEN r.profile.dimension = dimension
                   ELSE slot \in r.profile.counted,
       followed |-> slot \in r.profile.followed] : r \in kept}

Copies(members) == MapThenSumSet(LAMBDA m : m.copies, members)
Counted(members) == Copies({m \in members : m.counted})
Followed(members) == Copies({m \in members : m.followed})

\* The multiset of (id, counted, followed) of an observation, as a function.
Multiset(members) ==
  LET kinds == {<<m.id, m.counted, m.followed>> : m \in members}
  IN [k \in kinds |-> Copies({m \in members : <<m.id, m.counted, m.followed>> = k})]

=============================================================================
