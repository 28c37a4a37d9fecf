-------------------------- MODULE MemberConversion --------------------------
(***************************************************************************)
(* The migration that replaced the members stored with every observation   *)
(* by one family for all observations of a metric (alembic/versions/       *)
(* 0013_member_storage.py), both ways.  The stored members of a group of   *)
(* observations are a function from observations <<year, slot, dimension>> *)
(* to bags of <<id, counted, followed>>.                                   *)
(***************************************************************************)
EXTENDS MemberFamilies, Bags, BagsExt

YearsOf(members) == {o[1] : o \in DOMAIN members} \ {NoSlot}

\* The observations of one year by cell: the slot, or the dimension value.
Cells(mode, members, year) ==
  LET of == {o \in DOMAIN members : o[1] = year}
      cell(o) == IF mode = "plain" THEN o[2] ELSE o[3]
  IN [c \in {cell(o) : o \in of} |-> members[CHOOSE o \in of : cell(o) = c]]

At(cells, c) == IF c \in DOMAIN cells THEN cells[c] ELSE EmptyBag

(***************************************************************************)
(* What the whole window holds beyond its years; the conversion stops at a *)
(* year that holds what the whole window lacks.                            *)
(***************************************************************************)
InYears(mode, members, c) ==
  FoldSet(LAMBDA y, b : b (+) At(Cells(mode, members, y), c), EmptyBag,
          YearsOf(members))

Leftover(mode, members) ==
  LET whole == Cells(mode, members, NoSlot)
      rest == [c \in DOMAIN whole |-> whole[c] (-) InYears(mode, members, c)]
  IN [c \in {d \in DOMAIN rest : YearsOf(members) = {} \/ rest[d] # EmptyBag} |-> rest[c]]

YearsFitWhole(mode, members) ==
  LET whole == Cells(mode, members, NoSlot)
  IN \A c \in DOMAIN whole : InYears(mode, members, c) \sqsubseteq whole[c]

Groups(mode, members) ==
  [y \in YearsOf(members) \cup {NoSlot} |->
     IF y = NoSlot THEN Leftover(mode, members) ELSE Cells(mode, members, y)]

(***************************************************************************)
(* The atoms of one year, as a bag of profiles.                            *)
(***************************************************************************)
AtomProfile(id, year, dimension, counted, followed) ==
  [id |-> id, year |-> year, dimension |-> dimension, counted |-> counted, followed |-> followed]
Slot(flag) == IF flag THEN {NoSlot} ELSE {}
Ids(cells) == UNION {{m[1] : m \in DOMAIN cells[c]} : c \in DOMAIN cells}

\* Copies of an id in one cell whose code is at most "code".
UpTo(cell, id, code) ==
  MapThenSumSet(LAMBDA m : CopiesIn(m, cell),
                {m \in DOMAIN cell : m[1] = id /\ (IF m[2] THEN 2 ELSE 0) + (IF m[3] THEN 1 ELSE 0) <= code})

PlainFits(cells) ==
  \A id \in Ids(cells), c, d \in DOMAIN cells : UpTo(cells[c], id, 3) = UpTo(cells[d], id, 3)

PlainAtoms(year, cells) ==
  LET some == CHOOSE c \in DOMAIN cells : TRUE
      kth(c, id, k) == Min({code \in 0 .. 3 : UpTo(cells[c], id, code) >= k})
      atom(id, k) == AtomProfile(id, year, NoSlot, {c \in DOMAIN cells : kth(c, id, k) \div 2 = 1},
                             {c \in DOMAIN cells : kth(c, id, k) % 2 = 1})
  IN BagUnion({[p \in {atom(id, k) : k \in 1 .. UpTo(cells[some], id, 3)} |->
                  Cardinality({k \in 1 .. UpTo(cells[some], id, 3) : atom(id, k) = p})] :
                 id \in Ids(cells)})

CountedIn(cells, id) == {c \in DOMAIN cells : \E m \in DOMAIN cells[c] : m[1] = id /\ m[2]}
FollowedIn(cells, id) == UNION {{m[3] : m \in {n \in DOMAIN cells[c] : n[1] = id}} : c \in DOMAIN cells}

DistributionFits(cells) ==
  \A id \in Ids(cells) :
    /\ \A c \in DOMAIN cells : \A m \in DOMAIN cells[c] : m[1] = id => CopiesIn(m, cells[c]) = 1
    /\ Cardinality(CountedIn(cells, id)) <= 1 /\ Cardinality(FollowedIn(cells, id)) = 1

DistributionAtoms(year, cells) ==
  SetToBag({AtomProfile(id, year,
                    IF CountedIn(cells, id) = {} THEN NoSlot ELSE CHOOSE c \in CountedIn(cells, id) : TRUE,
                    {}, Slot(TRUE \in FollowedIn(cells, id))) : id \in Ids(cells)})

BelongingAtoms(year, cells) ==
  LET atom(c, m) == AtomProfile(m[1], year, c, Slot(m[2]), Slot(m[3]))
  IN BagUnion({[p \in {atom(c, m) : m \in DOMAIN cells[c]} |->
                  CopiesIn(<<p.id, p.counted # {}, p.followed # {}>>, cells[c])] :
                 c \in DOMAIN cells})

GroupAtoms(mode, year, cells) ==
  CASE mode = "plain" -> PlainAtoms(year, cells)
    [] mode = "counted_in" -> DistributionAtoms(year, cells)
    [] mode = "belongs_to" -> BelongingAtoms(year, cells)

(***************************************************************************)
(* The conversions.  "Converts" fails where the code raises and leaves the *)
(* database as it was.                                                     *)
(***************************************************************************)
Converts(mode, members) ==
  /\ YearsFitWhole(mode, members)
  /\ \A y \in DOMAIN Groups(mode, members) :
       LET cells == Groups(mode, members)[y]
       IN CASE mode = "plain" -> PlainFits(cells)
            [] mode = "counted_in" -> DistributionFits(cells)
            [] OTHER -> TRUE

ConvertUp(kind, mode, slots, members) ==
  LET groups == Groups(mode, members)
      atoms == BagUnion({GroupAtoms(mode, y, groups[y]) : y \in {g \in DOMAIN groups : groups[g] # <<>>}})
  IN [kind |-> kind, mode |-> mode, slots |-> slots,
      rows |-> {[profile |-> p, copies |-> CopiesIn(p, atoms)] : p \in DOMAIN atoms}]

\* One observation written out again; the migration has its own projection.
Expand(family, o) ==
  LET kept == {r \in family.rows :
                 /\ o[1] = NoSlot \/ r.profile.year = o[1]
                 /\ family.mode = "belongs_to" /\ o[3] # NoSlot => r.profile.dimension = o[3]}
      member(r) == <<r.profile.id,
                     IF family.mode = "counted_in" THEN r.profile.dimension = o[3]
                     ELSE o[2] \in r.profile.counted,
                     o[2] \in r.profile.followed>>
  IN [m \in {member(r) : r \in kept} |->
        MapThenSumSet(LAMBDA r : r.copies, {r \in kept : member(r) = m})]

ConvertDown(family, observations) == [o \in observations |-> Expand(family, o)]

=============================================================================
