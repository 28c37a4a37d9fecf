---------------------------- MODULE FigureProofs ----------------------------
(***************************************************************************)
(* What holds of the figures for every rows, merges and registry that      *)
(* loads: the definitions are sound, the figures are those of the rows with*)
(* every alias resolved, what is withheld of a suppressed one shows in no  *)
(* list of rows, and the pages of a comparison part its rows.              *)
(***************************************************************************)
EXTENDS FigureReads, WellFoundedInduction, FiniteSetTheorems, FunctionTheorems, TLAPS

-----------------------------------------------------------------------------
(* Induction over a set of numbers.                                        *)

\* A set of numbers that holds zero and every successor of its elements holds all numbers.
LEMMA AllNumbers ==
  ASSUME NEW S \in SUBSET Nat, 0 \in S, \A n \in S : n + 1 \in S
  PROVE  S = Nat
<1>1. CASE Nat \ S # {}
  <2>1. PICK x \in Nat \ S : \A y \in Nat \ S : ~(<<y, x>> \in OpToRel(<, Nat))
    BY <1>1, NatLessThanWellFounded, WFMin
  <2>2. \A y \in Nat \ S : ~(y < x)
    BY <2>1 DEF OpToRel
  <2>3. x # 0 /\ x - 1 \in Nat /\ x - 1 < x /\ (x - 1) + 1 = x
    <3>1. x \in Nat /\ x # 0
      OBVIOUS
    <3> QED
      BY <3>1
  <2>4. x - 1 \in S
    BY <2>2, <2>3
  <2>5. (x - 1) + 1 \in S
    BY <2>4
  <2> QED
    BY <2>3, <2>5
<1> QED
  BY <1>1

-----------------------------------------------------------------------------
(* Chains of merged persons.                                               *)

MergesDescend(into) ==
  /\ into \in [Persons -> Persons \cup {None}]
  /\ \A p \in Persons : into[p] # None => into[p] \in Persons /\ into[p] < p

Next_(into, p) == IF p \in Persons /\ into[p] # None THEN into[p] ELSE p
Chain(into, p, last, step) ==
  step = [n \in 0 .. last |-> IF n = 0 THEN p ELSE Next_(into, step[n - 1])]

\* The steps along a chain are well defined.
LEMMA ChainExists ==
  ASSUME NEW into, NEW p, NEW last \in Nat
  PROVE  \E step : Chain(into, p, last, step)
<1> DEFINE S == {n \in Nat : \E step : Chain(into, p, n, step)}
<1>1. 0 \in S
  <2>1. Chain(into, p, 0, [n \in 0 .. 0 |-> p])
    BY DEF Chain
  <2> QED
    BY <2>1
<1>2. ASSUME NEW n \in S PROVE n + 1 \in S
  <2>1. PICK step : Chain(into, p, n, step)
    OBVIOUS
  <2> DEFINE longer == [i \in 0 .. n + 1 |-> IF i = n + 1 THEN Next_(into, step[n]) ELSE step[i]]
  <2>2. \A i \in 0 .. n : step[i] = IF i = 0 THEN p ELSE Next_(into, step[i - 1])
    BY <2>1 DEF Chain
  <2>3. ASSUME NEW i \in 0 .. n + 1
        PROVE  longer[i] = IF i = 0 THEN p ELSE Next_(into, longer[i - 1])
    <3>1. CASE i = n + 1
      <4>1. i # 0 /\ i - 1 = n /\ n \in 0 .. n + 1 /\ n # n + 1
        BY <3>1
      <4> QED
        BY <3>1, <4>1
    <3>2. CASE i = 0
      BY <2>2, <3>2
    <3>3. CASE i # n + 1 /\ i # 0
      <4>1. i \in 0 .. n /\ i - 1 \in 0 .. n + 1 /\ i - 1 # n + 1
        BY <3>3
      <4>2. longer[i] = step[i] /\ longer[i - 1] = step[i - 1]
        BY <4>1, <3>3
      <4> QED
        BY <2>2, <3>3, <4>1, <4>2
    <3> QED
      BY <3>1, <3>2, <3>3
  <2> HIDE DEF longer
  <2>4. longer = [i \in 0 .. n + 1 |-> IF i = 0 THEN p ELSE Next_(into, longer[i - 1])]
    <3>1. longer = [i \in 0 .. n + 1 |-> longer[i]]
      BY DEF longer
    <3> QED
      BY <2>3, <3>1
  <2>5. Chain(into, p, n + 1, longer)
    BY <2>4 DEF Chain
  <2>6. n + 1 \in Nat
    OBVIOUS
  <2> QED
    BY <2>5, <2>6
<1> HIDE DEF S
<1>3. S = Nat
  <2>1. S \in SUBSET Nat
    BY DEF S
  <2> QED
    BY <1>1, <1>2, <2>1, AllNumbers
<1> QED
  BY <1>3 DEF S

\* A chain of descending pointers has ended after as many steps as there are persons.
LEMMA ChainEnds ==
  ASSUME NEW into, MergesDescend(into), NEW p \in Persons,
         NEW step, Chain(into, p, Cardinality(Persons), step)
  PROVE  LET q == step[Cardinality(Persons)] IN q \in Persons /\ into[q] = None
<1> DEFINE last == Cardinality(Persons)
<1>0. last \in Nat /\ IsFiniteSet(Persons) /\ Persons \subseteq Nat
  BY PersonsAssumption, FS_CardinalityType
<1>1. \A n \in 0 .. last : step[n] = IF n = 0 THEN p ELSE Next_(into, step[n - 1])
  BY DEF Chain
<1> HIDE DEF last
<1>2. \A n \in 0 .. last : step[n] \in Persons
  <2> DEFINE S == {n \in Nat : n <= last => step[n] \in Persons}
  <2>1. 0 \in S
    BY <1>0, <1>1
  <2>2. ASSUME NEW n \in S PROVE n + 1 \in S
    <3>1. CASE n + 1 <= last
      <4>1. n <= last /\ n + 1 \in 0 .. last /\ n + 1 # 0 /\ (n + 1) - 1 = n /\ n + 1 \in Nat
        BY <1>0, <3>1
      <4>2. step[n] \in Persons /\ step[n + 1] = Next_(into, step[n])
        BY <1>1, <4>1
      <4>3. step[n + 1] \in Persons
        BY <4>2 DEF Next_, MergesDescend
      <4> QED
        BY <4>1, <4>3
    <3> QED
      BY <3>1
  <2>3. S = Nat
    <3>1. S \in SUBSET Nat
      OBVIOUS
    <3> HIDE DEF S
    <3> QED
      BY <2>1, <2>2, <3>1, AllNumbers
  <2> QED
    BY <1>0, <2>3
<1>3. ASSUME into[step[last]] # None
      PROVE  \A n \in 0 .. last : \A k \in Nat : n + k <= last /\ k > 0 => step[n + k] < step[n]
  <2> DEFINE Ends(n) == into[step[n]] = None
             Over == {k \in Nat : k <= last => into[step[last - k]] # None}
  <2>1. 0 \in Over
    BY <1>0, <1>3
  <2>2. ASSUME NEW k \in Over PROVE k + 1 \in Over
    <3>1. CASE k + 1 <= last
      <4> DEFINE n == last - (k + 1)
      <4>1. /\ n \in 0 .. last /\ n + 1 \in 0 .. last /\ n + 1 # 0 /\ (n + 1) - 1 = n
            /\ last - k = n + 1 /\ k <= last
        BY <1>0, <3>1
      <4>2. step[n + 1] = Next_(into, step[n]) /\ into[step[n + 1]] # None
        BY <1>1, <4>1
      <4>3. into[step[n]] # None
        BY <4>2 DEF Next_
      <4> QED
        BY <4>3
    <3> QED
      BY <3>1
  <2>3. Over = Nat
    <3>1. Over \in SUBSET Nat
      OBVIOUS
    <3> HIDE DEF Over
    <3> QED
      BY <2>1, <2>2, <3>1, AllNumbers
  <2>4. ASSUME NEW n \in 0 .. last PROVE into[step[n]] # None
    <3>1. last - n \in Nat /\ last - n <= last /\ last - (last - n) = n
      BY <1>0
    <3> QED
      BY <2>3, <3>1
  <2>5. ASSUME NEW n \in 0 .. last, n + 1 <= last PROVE step[n + 1] < step[n]
    <3>1. n + 1 \in 0 .. last /\ n + 1 # 0 /\ (n + 1) - 1 = n
      BY <1>0, <2>5
    <3>2. step[n + 1] = into[step[n]]
      BY <1>1, <1>2, <2>4, <3>1 DEF Next_
    <3> QED
      BY <1>2, <2>4, <3>2 DEF MergesDescend
  <2>6. ASSUME NEW n \in 0 .. last
        PROVE  \A k \in Nat : n + k <= last /\ k > 0 => step[n + k] < step[n]
    <3> DEFINE D == {k \in Nat : n + k <= last /\ k > 0 => step[n + k] < step[n]}
    <3>1. 0 \in D
      OBVIOUS
    <3>2. ASSUME NEW k \in D PROVE k + 1 \in D
      <4>1. CASE n + (k + 1) <= last
        <5>1. /\ n + k \in 0 .. last /\ (n + k) + 1 <= last /\ n + (k + 1) = (n + k) + 1
              /\ n + k <= last /\ n + (k + 1) \in 0 .. last
          BY <1>0, <4>1
        <5>2. step[(n + k) + 1] < step[n + k]
          BY <2>5, <5>1
        <5>3. k = 0 => n + k = n
          OBVIOUS
        <5>4. step[n + k] \in Nat /\ step[n] \in Nat /\ step[n + (k + 1)] \in Nat
          BY <1>0, <1>2, <5>1
        <5>5. step[n + (k + 1)] < step[n]
          <6>1. CASE k = 0
            BY <5>1, <5>2, <5>3, <6>1
          <6>2. CASE k > 0
            <7>1. step[n + k] < step[n]
              BY <3>2, <5>1, <6>2
            <7>2. step[n + (k + 1)] < step[n + k]
              BY <5>1, <5>2
            <7> QED
              BY <5>4, <7>1, <7>2
          <6> QED
            BY <6>1, <6>2
        <5> QED
          BY <5>5
      <4> QED
        BY <4>1
    <3>3. D = Nat
      <4>1. D \in SUBSET Nat
        OBVIOUS
      <4> HIDE DEF D
      <4> QED
        BY <3>1, <3>2, <4>1, AllNumbers
    <3> QED
      BY <3>3
  <2> QED
    BY <2>6
<1>4. ASSUME into[step[last]] # None PROVE FALSE
  <2> DEFINE f == [n \in 0 .. last |-> step[n]]
  <2>1. f \in [0 .. last -> Persons]
    BY <1>2
  <2>2. IsFiniteSet(0 .. last) /\ Cardinality(0 .. last) = last + 1
    BY <1>0, FS_Interval
  <2>3. Cardinality(Persons) < Cardinality(0 .. last)
    BY <1>0, <2>2 DEF last
  <2> HIDE DEF f
  <2>4. PICK x \in 0 .. last, y \in 0 .. last : x # y /\ f[x] = f[y]
    BY <1>0, <2>1, <2>2, <2>3, FS_PigeonHole
  <2>5. ASSUME NEW a \in 0 .. last, NEW b \in 0 .. last, a < b PROVE step[a] # step[b]
    <3>1. b - a \in Nat /\ b - a > 0 /\ a + (b - a) = b /\ b <= last
      BY <1>0, <2>5
    <3>2. step[b] < step[a]
      BY <1>3, <1>4, <3>1
    <3>3. step[a] \in Nat /\ step[b] \in Nat
      BY <1>0, <1>2
    <3> QED
      BY <3>2, <3>3
  <2>6. x < y \/ y < x
    BY <1>0, <2>4
  <2>7. step[x] = step[y]
    BY <2>4 DEF f
  <2> QED
    BY <2>4, <2>5, <2>6, <2>7
<1>5. last \in 0 .. last
  BY <1>0
<1>6. step[last] \in Persons /\ into[step[last]] = None
  BY <1>2, <1>4, <1>5
<1> QED
  BY <1>6 DEF last

\* Who has no pointer to follow is its own survivor.
LEMMA SurvivorStays ==
  ASSUME NEW into, NEW p, Next_(into, p) = p
  PROVE  Survivor(into, p) = p
<1> DEFINE last == Cardinality(Persons)
           end == CHOOSE step : Chain(into, p, last, step)
<1>0. last \in Nat
  BY PersonsAssumption, FS_CardinalityType
<1>1. Chain(into, p, last, end)
  BY <1>0, ChainExists
<1>2. Survivor(into, p) = end[last]
  BY DEF Survivor, Chain, Next_
<1> HIDE DEF end
<1>3. \A n \in 0 .. last : end[n] = IF n = 0 THEN p ELSE Next_(into, end[n - 1])
  BY <1>1 DEF Chain
<1> HIDE DEF last
<1> DEFINE S == {n \in Nat : n <= last => end[n] = p}
<1>4. 0 \in S
  BY <1>0, <1>3
<1>5. ASSUME NEW n \in S PROVE n + 1 \in S
  <2>1. CASE n + 1 <= last
    <3>1. n <= last /\ n + 1 \in 0 .. last /\ n + 1 # 0 /\ (n + 1) - 1 = n
      BY <1>0, <2>1
    <3>2. end[n + 1] = Next_(into, end[n]) /\ end[n] = p
      BY <1>3, <3>1
    <3> QED
      BY <3>2
  <2> QED
    BY <2>1
<1>6. S = Nat
  <2>1. S \in SUBSET Nat
    OBVIOUS
  <2> HIDE DEF S
  <2> QED
    BY <1>4, <1>5, <2>1, AllNumbers
<1>7. end[last] = p
  BY <1>0, <1>6
<1> QED
  BY <1>2, <1>7 DEF last

\* The survivor of a person is a person that is not merged; of anything else, itself.
LEMMA SurvivorStands ==
  ASSUME NEW into, MergesDescend(into), NEW p
  PROVE  /\ p \in Persons => Survivor(into, p) \in Persons /\ into[Survivor(into, p)] = None
         /\ p \notin Persons => Survivor(into, p) = p
<1> DEFINE end == CHOOSE step : Chain(into, p, Cardinality(Persons), step)
<1>1. Chain(into, p, Cardinality(Persons), end)
  BY PersonsAssumption, FS_CardinalityType, ChainExists
<1>2. Survivor(into, p) = end[Cardinality(Persons)]
  BY DEF Survivor, Chain, Next_
<1>3. CASE p \in Persons
  BY <1>1, <1>2, <1>3, ChainEnds
<1>4. CASE p \notin Persons
  BY <1>4, SurvivorStays DEF Next_
<1> QED
  BY <1>3, <1>4

\* A person that is not merged is its own survivor.
LEMMA StandingSurvives ==
  ASSUME NEW into, MergesDescend(into), NEW p \in Persons, into[p] = None
  PROVE  Survivor(into, p) = p
  BY SurvivorStays DEF Next_

-----------------------------------------------------------------------------
(* Rows with every alias resolved.                                         *)

Resolved(into, r) == IF r.table \in PersonTables THEN [r EXCEPT !.person = Survivor(into, @)] ELSE r
AllResolved(into, all) == {Resolved(into, r) : r \in all}
AllWellFormed(all) == \A r \in all : WellFormed(r)

\* A survivor is its own survivor.
LEMMA SurvivorTwice ==
  ASSUME NEW into, MergesDescend(into), NEW p
  PROVE  Survivor(into, Survivor(into, p)) = Survivor(into, p)
<1>1. ASSUME NEW q \in Persons, into[q] = None PROVE Survivor(into, q) = q
  BY <1>1, StandingSurvives
<1>2. CASE p \in Persons
  BY <1>1, <1>2, SurvivorStands
<1>3. CASE p \notin Persons
  BY <1>3, SurvivorStands
<1> QED
  BY <1>2, <1>3

\* Resolving changes nothing of a row but its person, and resolving twice nothing more.
LEMMA ResolvedRow ==
  ASSUME NEW into, MergesDescend(into), NEW r, WellFormed(r)
  PROVE  /\ WellFormed(Resolved(into, r))
         /\ DOMAIN Resolved(into, r) = DOMAIN r
         /\ \A column \in DOMAIN r : column # "person" => Resolved(into, r)[column] = r[column]
         /\ r.table \in PersonTables =>
              /\ Resolved(into, r).person = Survivor(into, r.person)
              /\ [Resolved(into, r) EXCEPT !.person = Survivor(into, @)] = [r EXCEPT !.person = Survivor(into, @)]
              /\ Resolved(into, r) = [r EXCEPT !.person = Survivor(into, @)]
         /\ r.table \notin PersonTables => Resolved(into, r) = r
<1> DEFINE s == Resolved(into, r)
<1>1. CASE r.table \notin PersonTables
  BY <1>1 DEF Resolved
<1>2. CASE r.table \in PersonTables
  <2>1. {"table", "id", "person"} \subseteq DOMAIN r /\ Identifying(r.table) \subseteq DOMAIN r
    BY <1>2 DEF WellFormed, Identifying
  <2>2. s = [column \in DOMAIN r |-> IF column = "person" THEN Survivor(into, r.person) ELSE r[column]]
    BY <1>2 DEF Resolved
  <2> HIDE DEF s
  <2>3. DOMAIN s = DOMAIN r /\ s.person = Survivor(into, r.person)
    BY <2>1, <2>2
  <2>4. \A column \in DOMAIN r : column # "person" => s[column] = r[column]
    BY <2>2
  <2>5. s.table = r.table
    BY <2>1, <2>4
  <2>6. s = [column \in DOMAIN s |-> s[column]]
    BY <2>2, <2>3
  <2>7. WellFormed(s)
    <3>1. r.table = "charge" => s.id \in Nat /\ s.disposed \in Int \cup {None}
      BY <2>1, <2>4 DEF WellFormed, Identifying
    <3> QED
      BY <2>1, <2>3, <2>5, <2>6, <3>1 DEF WellFormed
  <2>8. [s EXCEPT !.person = Survivor(into, @)] = s
    BY <2>3, <2>6, SurvivorTwice
  <2>9. s = [r EXCEPT !.person = Survivor(into, @)]
    BY <1>2 DEF s, Resolved
  <2> QED
    BY <1>2, <2>3, <2>4, <2>7, <2>8, <2>9 DEF s
<1> QED
  BY <1>1, <1>2

\* In parts: any other column, the table, the person.
LEMMA ResolvedColumn ==
  ASSUME NEW into, MergesDescend(into), NEW r, WellFormed(r), NEW column \in DOMAIN r, column # "person"
  PROVE  Resolved(into, r)[column] = r[column]
<1>1. CASE r.table \notin PersonTables
  BY <1>1 DEF Resolved
<1>2. CASE r.table \in PersonTables
  <2>1. Resolved(into, r) = [c \in DOMAIN r |-> IF c = "person" THEN Survivor(into, r.person) ELSE r[c]]
    BY <1>2 DEF Resolved
  <2> QED
    BY <2>1
<1> QED
  BY <1>1, <1>2

\* Resolving a row leaves it in its table, and leaves the rows of other tables as they are.
LEMMA ResolvedTable ==
  ASSUME NEW into, MergesDescend(into), NEW r, WellFormed(r)
  PROVE  /\ Resolved(into, r).table = r.table
         /\ r.table \notin PersonTables => Resolved(into, r) = r
<1>1. "table" \in DOMAIN r /\ "table" # "person"
  BY DEF WellFormed
<1>2. Resolved(into, r)["table"] = r["table"]
  BY <1>1, ResolvedColumn
<1> QED
  BY <1>2 DEF Resolved

\* A resolved row names the survivor, and resolving it again changes nothing.
LEMMA ResolvedRowPerson ==
  ASSUME NEW into, MergesDescend(into), NEW r, WellFormed(r), r.table \in PersonTables
  PROVE  /\ Resolved(into, r).person = Survivor(into, r.person)
         /\ [Resolved(into, r) EXCEPT !.person = Survivor(into, @)] = [r EXCEPT !.person = Survivor(into, @)]
  BY ResolvedRow

\* A table of the resolved rows is the table of the rows, resolved.
LEMMA TableResolved ==
  ASSUME NEW into, MergesDescend(into), NEW all, AllWellFormed(all), NEW name
  PROVE  /\ Table(AllResolved(into, all), name) = {Resolved(into, r) : r \in Table(all, name)}
         /\ name \notin PersonTables => Table(AllResolved(into, all), name) = Table(all, name)
<1>1. ASSUME NEW r \in all
      PROVE  Resolved(into, r).table = r.table /\ (r.table \notin PersonTables => Resolved(into, r) = r)
  BY ResolvedTable DEF AllWellFormed
<1> DEFINE R(r) == Resolved(into, r)
<1>2. \A r \in all : R(r).table = r.table /\ (r.table \notin PersonTables => R(r) = r)
  BY <1>1
<1>3. AllResolved(into, all) = {R(r) : r \in all}
  BY DEF AllResolved
<1> HIDE DEF R
<1>4. {x \in {R(r) : r \in all} : x.table = name} = {R(r) : r \in {x \in all : x.table = name}}
  BY <1>2
<1>5. name \notin PersonTables => {R(r) : r \in {x \in all : x.table = name}} = {x \in all : x.table = name}
  BY <1>2
<1> QED
  BY <1>3, <1>4, <1>5 DEF Table, R

\* The rows of a selection, resolved in the table or not, resolve to the same.
LEMMA ResolvedAgain ==
  ASSUME NEW into, MergesDescend(into), NEW picked, AllWellFormed(picked),
         \A r \in picked : r.table \in PersonTables
  PROVE  ResolvePersons(into, {Resolved(into, r) : r \in picked}) = ResolvePersons(into, picked)
<1> DEFINE R(r) == Resolved(into, r)
           F(r) == [r EXCEPT !.person = Survivor(into, @)]
<1>1. \A r \in picked : F(R(r)) = F(r)
  BY ResolvedRowPerson DEF AllWellFormed
<1>2. \A some : ResolvePersons(into, some) = {F(r) : r \in some}
  BY DEF ResolvePersons
<1> HIDE DEF R, F
<1>3. {F(x) : x \in {R(r) : r \in picked}} = {F(r) : r \in picked}
  BY <1>1
<1>4. ResolvePersons(into, {R(r) : r \in picked}) = ResolvePersons(into, picked)
  BY <1>2, <1>3
<1> QED
  BY <1>4 DEF R

CaseRows(all, name, ids) == {r \in Table(all, name) : r.case \in ids}
Standing(sentences) == {r \in sentences : ~r.replaced}

\* A selection that looks at anything but the person, before and after.
LEMMA CaseRowsResolved ==
  ASSUME NEW into, MergesDescend(into), NEW all, AllWellFormed(all),
         NEW name \in {"charge", "court_event", "decision", "sentence"}, NEW ids
  PROVE  /\ ResolvePersons(into, CaseRows(AllResolved(into, all), name, ids))
              = ResolvePersons(into, CaseRows(all, name, ids))
         /\ name = "sentence" =>
              ResolvePersons(into, Standing(CaseRows(AllResolved(into, all), name, ids)))
                = ResolvePersons(into, Standing(CaseRows(all, name, ids)))
<1> DEFINE after == {r \in Table(AllResolved(into, all), name) : r.case \in ids}
           before == {r \in Table(all, name) : r.case \in ids}
           R(r) == Resolved(into, r)
<1>0. name \in PersonTables
  BY DEF PersonTables
<1>1. ASSUME NEW r \in Table(all, name)
      PROVE  /\ WellFormed(r) /\ r.table = name
             /\ R(r).case = r.case /\ (name = "sentence" => R(r).replaced = r.replaced)
  <2>1. WellFormed(r) /\ r.table = name
    BY DEF Table, AllWellFormed
  <2>2. /\ "case" \in DOMAIN r /\ "case" # "person"
        /\ name = "sentence" => "replaced" \in DOMAIN r /\ "replaced" # "person"
    BY <1>0, <2>1 DEF WellFormed, Identifying
  <2>3. R(r)["case"] = r["case"]
    BY <2>1, <2>2, ResolvedColumn
  <2>4. name = "sentence" => R(r)["replaced"] = r["replaced"]
    BY <2>1, <2>2, ResolvedColumn
  <2> QED
    BY <2>1, <2>3, <2>4
<1>2. Table(AllResolved(into, all), name) = {R(r) : r \in Table(all, name)}
  BY TableResolved
<1>3. after = {R(r) : r \in before}
  BY <1>1, <1>2
<1>4. name = "sentence" => {r \in after : ~r.replaced} = {R(r) : r \in {x \in before : ~x.replaced}}
  BY <1>1, <1>3
<1>5. AllWellFormed(before) /\ \A r \in before : r.table \in PersonTables
  BY <1>0, <1>1 DEF AllWellFormed
<1>6. ResolvePersons(into, after) = ResolvePersons(into, before)
  BY <1>3, <1>5, ResolvedAgain
<1>7. ASSUME name = "sentence"
      PROVE  ResolvePersons(into, {r \in after : ~r.replaced})
               = ResolvePersons(into, {r \in before : ~r.replaced})
  <2> DEFINE kept == {x \in before : ~x.replaced}
  <2>1. AllWellFormed(kept) /\ \A r \in kept : r.table \in PersonTables
    BY <1>5 DEF AllWellFormed
  <2>2. {r \in after : ~r.replaced} = {R(r) : r \in kept}
    BY <1>4, <1>7
  <2> HIDE DEF kept
  <2>3. ResolvePersons(into, {R(r) : r \in kept}) = ResolvePersons(into, kept)
    BY <2>1, ResolvedAgain
  <2> QED
    BY <2>2, <2>3 DEF kept
<1> QED
  BY <1>6, <1>7 DEF CaseRows, Standing

\* A family of survivors takes in a person when it takes in the survivor.
LEMMA FamilyResolved ==
  ASSUME NEW into, MergesDescend(into), NEW persons,
         \A p \in persons : Survivor(into, p) = p, NEW p
  PROVE  Survivor(into, p) \in Family(into, persons) <=> p \in Family(into, persons)
<1>1. CASE p \in Persons
  <2>1. Survivor(into, p) \in Persons /\ Survivor(into, Survivor(into, p)) = Survivor(into, p)
    BY <1>1, SurvivorStands, SurvivorTwice
  <2> QED
    BY <1>1, <2>1 DEF Family
<1>2. CASE p \notin Persons
  BY <1>2, SurvivorStands
<1> QED
  BY <1>1, <1>2

\* What happens later to the persons of a frame is told by the resolved rows alike.
LEMMA EventsResolved ==
  ASSUME NEW into, MergesDescend(into), NEW all, AllWellFormed(all), NEW persons,
         \A p \in persons : Survivor(into, p) = p, NEW observable
  PROVE  JusticeEvents(AllResolved(into, all), into, persons, observable)
           = JusticeEvents(all, into, persons, observable)
<1> DEFINE R(r) == Resolved(into, r)
           family == Family(into, persons)
           Stored(rs) == {e \in Table(rs, "justice_event") : e.person \in family /\ e.type \in AnyCaseOutcomes}
           Charged(rs) == {c \in Table(rs, "charge") : c.person \in family}
<1>1. ASSUME NEW name \in {"justice_event", "charge"}, NEW r \in Table(all, name)
      PROVE  /\ WellFormed(r) /\ r.table \in PersonTables
             /\ R(r).person \in family <=> r.person \in family
             /\ name = "justice_event" => R(r).type = r.type
  <2>1. WellFormed(r) /\ r.table = name /\ r.table \in PersonTables
    BY DEF Table, AllWellFormed, PersonTables
  <2>2. R(r).person = Survivor(into, r.person)
    BY <2>1, ResolvedRowPerson
  <2>3. R(r).person \in family <=> r.person \in family
    BY <2>2, FamilyResolved
  <2>4. name = "justice_event" => "type" \in DOMAIN r /\ "type" # "person"
    BY <2>1 DEF WellFormed, Identifying
  <2>5. name = "justice_event" => R(r)["type"] = r["type"]
    BY <2>1, <2>4, ResolvedColumn
  <2> QED
    BY <2>1, <2>3, <2>5
<1>2. Stored(AllResolved(into, all)) = {R(r) : r \in Stored(all)}
  <2>1. Table(AllResolved(into, all), "justice_event") = {R(r) : r \in Table(all, "justice_event")}
    BY TableResolved
  <2> HIDE DEF R, family
  <2>2. \A r \in Table(all, "justice_event") :
          (R(r).person \in family <=> r.person \in family) /\ R(r).type = r.type
    BY <1>1
  <2> QED
    BY <2>1, <2>2
<1>3. Charged(AllResolved(into, all)) = {R(r) : r \in Charged(all)}
  <2>1. Table(AllResolved(into, all), "charge") = {R(r) : r \in Table(all, "charge")}
    BY TableResolved
  <2> HIDE DEF R, family
  <2>2. \A r \in Table(all, "charge") : R(r).person \in family <=> r.person \in family
    BY <1>1
  <2> QED
    BY <2>1, <2>2
<1>4. /\ AllWellFormed(Stored(all)) /\ \A r \in Stored(all) : r.table \in PersonTables
      /\ AllWellFormed(Charged(all)) /\ \A r \in Charged(all) : r.table \in PersonTables
  BY <1>1 DEF AllWellFormed
<1> HIDE DEF Stored, Charged
<1>5. ResolvePersons(into, Stored(AllResolved(into, all))) = ResolvePersons(into, Stored(all))
  BY <1>2, <1>4, ResolvedAgain
<1>6. ResolvePersons(into, Charged(AllResolved(into, all))) = ResolvePersons(into, Charged(all))
  BY <1>3, <1>4, ResolvedAgain
<1>7. StoredOutcomes(AllResolved(into, all), into, family) = StoredOutcomes(all, into, family)
  BY <1>5 DEF StoredOutcomes, Stored
<1>8. \A wanted : DerivedOutcomes(AllResolved(into, all), into, family, wanted)
                    = DerivedOutcomes(all, into, family, wanted)
  BY <1>6 DEF DerivedOutcomes, Charged
<1> QED
  BY <1>7, <1>8 DEF JusticeEvents

\* The persons of resolved rows are survivors.
LEMMA ResolvedPersons ==
  ASSUME NEW into, MergesDescend(into), NEW some, \A r \in some : "person" \in DOMAIN r,
         NEW r \in ResolvePersons(into, some)
  PROVE  Survivor(into, r.person) = r.person
<1>1. PICK x \in some : r = [x EXCEPT !.person = Survivor(into, @)]
  BY DEF ResolvePersons
<1>2. r.person = Survivor(into, x.person)
  BY <1>1
<1> QED
  BY <1>2, SurvivorTwice

\* The frame of a source does not tell aliases from survivors.
LEMMA FrameResolved ==
  ASSUME NEW into, MergesDescend(into), NEW all, AllWellFormed(all), NEW s
  PROVE  Frame(AllResolved(into, all), into, s) = Frame(all, into, s)
<1> DEFINE HeldCases(rs) == {c \in Table(rs, "court_case") : c.source = s}
           IdsOf(rs) == {c.id : c \in HeldCases(rs)}
           Picked(rs, name) == {r \in Table(rs, name) : r.case \in IdsOf(rs)}
           KeptOf(rs) == {r \in Picked(rs, "sentence") : ~r.replaced}
           Named(charges, decisions, sentences, heard) ==
             {r.person : r \in charges \cup decisions \cup sentences \cup heard} \ {None}
           HeldCharges(rs) == ResolvePersons(into, Picked(rs, "charge"))
           DecisionsOf(rs) == ResolvePersons(into, Picked(rs, "decision"))
           SentencesOf(rs) == ResolvePersons(into, KeptOf(rs))
           HeardOf(rs) == ResolvePersons(into, Picked(rs, "court_event"))
           PersonsOf(rs) == Named(HeldCharges(rs), DecisionsOf(rs), SentencesOf(rs), HeardOf(rs))
           EventsOf(rs) == JusticeEvents(rs, into, PersonsOf(rs), Profile[s].observable)
           Made(cases, assignments, charges, decisions, sentences, heard, persons, outcomes) ==
             [source |-> s, cases |-> cases, assignments |-> assignments, charges |-> charges,
              decisions |-> decisions, sentences |-> sentences, events |-> heard, persons |-> persons,
              outcomes |-> outcomes,
              start |-> Profile[s].start, end |-> Profile[s].end + 1, observable |-> Profile[s].observable,
              gates |-> Profile[s].gates, scopes |-> Profile[s].scopes]
           after == AllResolved(into, all)
<1>1. \A rs : Frame(rs, into, s) = Made(HeldCases(rs), Picked(rs, "judge_assignment"), HeldCharges(rs), DecisionsOf(rs),
                                        SentencesOf(rs), HeardOf(rs), PersonsOf(rs), EventsOf(rs))
  BY DEF Frame
<1>2. /\ Table(after, "court_case") = Table(all, "court_case")
      /\ Table(after, "judge_assignment") = Table(all, "judge_assignment")
  BY TableResolved DEF PersonTables
<1>3. HeldCases(after) = HeldCases(all) /\ IdsOf(after) = IdsOf(all)
  BY <1>2
<1> HIDE DEF HeldCases, IdsOf
<1>4. Picked(after, "judge_assignment") = Picked(all, "judge_assignment")
  BY <1>2, <1>3
<1> HIDE DEF after
<1>5. /\ \A rs, name : Picked(rs, name) = CaseRows(rs, name, IdsOf(rs))
      /\ \A rs : KeptOf(rs) = Standing(CaseRows(rs, "sentence", IdsOf(rs)))
  BY DEF CaseRows, Standing
<1> HIDE DEF Picked, KeptOf
<1>6. HeldCharges(after) = HeldCharges(all) /\ DecisionsOf(after) = DecisionsOf(all) /\ HeardOf(after) = HeardOf(all)
  BY <1>3, <1>5, CaseRowsResolved DEF after
<1>7. SentencesOf(after) = SentencesOf(all)
  BY <1>3, <1>5, CaseRowsResolved DEF after
<1>8. ASSUME NEW name \in {"charge", "court_event", "decision", "sentence"}, NEW r \in Table(all, name)
      PROVE  "person" \in DOMAIN r
  <2>1. WellFormed(r) /\ r.table \in PersonTables
    BY DEF Table, AllWellFormed, PersonTables
  <2> QED
    BY <2>1 DEF WellFormed, Identifying
<1>9. \A r \in HeldCharges(all) \cup DecisionsOf(all) \cup SentencesOf(all) \cup HeardOf(all) :
        Survivor(into, r.person) = r.person
  <2>1. \A name \in {"charge", "court_event", "decision"} : \A r \in Picked(all, name) : "person" \in DOMAIN r
    BY <1>5, <1>8 DEF CaseRows
  <2>2. \A r \in KeptOf(all) : "person" \in DOMAIN r
    BY <1>5, <1>8 DEF CaseRows, Standing
  <2> QED
    BY <2>1, <2>2, ResolvedPersons
<1> HIDE DEF HeldCharges, DecisionsOf, SentencesOf, HeardOf
<1>10. PersonsOf(after) = PersonsOf(all)
  BY <1>6, <1>7
<1>11. \A p \in PersonsOf(all) : Survivor(into, p) = p
  BY <1>9
<1> HIDE DEF PersonsOf
<1>12. EventsOf(after) = EventsOf(all)
  BY <1>10, <1>11, EventsResolved DEF after
<1> HIDE DEF EventsOf, Made
<1>13. Frame(after, into, s) = Frame(all, into, s)
  BY <1>1, <1>3, <1>4, <1>6, <1>7, <1>10, <1>12
<1> QED
  BY <1>13 DEF after

\* Nor do all figures, nor the coverage statistics.
LEMMA FiguresResolved ==
  ASSUME NEW into, MergesDescend(into), NEW all, AllWellFormed(all)
  PROVE  /\ \A definitions :
              ComputeAll(AllResolved(into, all), into, definitions) = ComputeAll(all, into, definitions)
         /\ ComputeStatistics(AllResolved(into, all), into) = ComputeStatistics(all, into)
<1>1. ComputedSources(AllResolved(into, all)) = ComputedSources(all)
  <2>1. Table(AllResolved(into, all), "court_case") = Table(all, "court_case")
    BY TableResolved DEF PersonTables
  <2> QED
    BY <2>1 DEF ComputedSources
<1>2. \A s : Frame(AllResolved(into, all), into, s) = Frame(all, into, s)
  BY FrameResolved
<1> QED
  BY <1>1, <1>2 DEF ComputeAll, ComputeStatistics

-----------------------------------------------------------------------------
(* The invariant: the figures are those of the rows as they are.           *)

FiguresInv ==
  /\ MergesDescend(merged)
  /\ AllWellFormed(rows)
  /\ figures = ComputeAll(rows, merged, Definitions)

\* The first state has no rows, no merges and the figures of no rows.
LEMMA FiguresStart == Init => FiguresInv
<1> SUFFICES ASSUME Init PROVE FiguresInv
  OBVIOUS
<1>1. MergesDescend(merged)
  BY DEF Init, MergesDescend
<1>2. AllWellFormed(rows)
  BY DEF Init, AllWellFormed
<1>3. ComputedSources(rows) = {}
  BY DEF Init, ComputedSources, Table
<1>4. figures = ComputeAll(rows, merged, Definitions)
  BY <1>3 DEF Init, ComputeAll
<1> QED
  BY <1>1, <1>2, <1>4 DEF FiguresInv

\* A row keeps its columns when its person is moved.
LEMMA PersonMoved ==
  ASSUME NEW r, WellFormed(r), r.table \in PersonTables, NEW p
  PROVE  WellFormed([r EXCEPT !.person = p])
<1>1. "table" \in DOMAIN r /\ Identifying(r.table) \subseteq DOMAIN r
  BY DEF WellFormed
<1> DEFINE s == [r EXCEPT !.person = p]
<1>2. s = [column \in DOMAIN r |-> IF column = "person" THEN p ELSE r[column]]
  OBVIOUS
<1> HIDE DEF s
<1>3. DOMAIN s = DOMAIN r /\ s.table = r.table /\ s = [column \in DOMAIN s |-> s[column]]
  BY <1>1, <1>2
<1> QED
  BY <1>1, <1>3 DEF WellFormed, s

\* Publishing a batch and merging a person both keep the invariant.
LEMMA FiguresStep == FiguresInv /\ [Next]_vars => FiguresInv'
<1> SUFFICES ASSUME FiguresInv, [Next]_vars PROVE FiguresInv'
  OBVIOUS
<1>1. ASSUME Recompute, MergesDescend(merged'), AllWellFormed(rows') PROVE FiguresInv'
  BY <1>1 DEF Recompute, FiguresInv
<1>2. ASSUME NEW batch \in Batches, NEW stale \in BOOLEAN, Publish(batch, stale) PROVE FiguresInv'
  <2>1. \A r \in Published(batch, stale) : WellFormed(r)
    BY BatchesAssumption, PersonMoved DEF Published
  <2>2. \A r \in Upsert(rows, Published(batch, stale)) : WellFormed(r)
    BY <2>1 DEF Upsert, FiguresInv, AllWellFormed
  <2>3. AllWellFormed(rows') /\ MergesDescend(merged') /\ Recompute
    BY <1>2, <2>2 DEF Publish, WriteRows, FiguresInv, AllWellFormed
  <2> QED
    BY <1>1, <2>3
<1>3. ASSUME NEW keep \in Persons, NEW drop \in Persons, MergePersons(keep, drop) PROVE FiguresInv'
  <2>1. \A r \in Repointed(rows, keep, drop) : WellFormed(r)
    BY PersonMoved DEF Repointed, FiguresInv, AllWellFormed
  <2>2. MergesDescend(merged')
    BY <1>3 DEF MergePersons, MergesDescend, FiguresInv
  <2>3. AllWellFormed(rows') /\ Recompute
    BY <1>3, <2>1 DEF MergePersons, AllWellFormed
  <2> QED
    BY <1>1, <2>2, <2>3
<1>4. CASE UNCHANGED vars
  BY <1>4 DEF vars, FiguresInv
<1> QED
  BY <1>2, <1>3, <1>4 DEF Next

\* Figures are those of the rows as they are; chains of merged persons descend.
THEOREM FiguresInvariant == Spec => []FiguresInv
BY FiguresStart, FiguresStep, PTL DEF Spec

\* A row that still names a merged person counts as the survivor's, in every figure
\* and in every coverage statistic.
THEOREM AliasesNeverShow == Spec => []AliasesInvisible
<1>1. FiguresInv => AliasesInvisible
  <2> SUFFICES ASSUME FiguresInv PROVE AliasesInvisible
    OBVIOUS
  <2>1. /\ ComputeAll(AllResolved(merged, rows), merged, Definitions) = figures
        /\ ComputeStatistics(AllResolved(merged, rows), merged) = ComputeStatistics(rows, merged)
    BY FiguresResolved DEF FiguresInv
  <2> QED
    BY <2>1 DEF AliasesInvisible, AllResolved, Resolved
<1> QED
  BY <1>1, FiguresInvariant, PTL
-----------------------------------------------------------------------------
(* Finite figures: a table of finitely many rows gives finitely many.      *)

\* The image of a finite set is finite.
LEMMA ImageFinite ==
  ASSUME NEW S, IsFiniteSet(S), NEW f
  PROVE  IsFiniteSet({f[x] : x \in S})
<1> DEFINE T == {f[x] : x \in S}
           g == [x \in S |-> f[x]]
<1>1. g \in Surjection(S, T)
  BY DEF Surjection
<1> QED
  BY <1>1, FS_Surjection

\* A subset of a finite set is finite.
LEMMA SubFinite ==
  ASSUME NEW S, IsFiniteSet(S), NEW T, T \subseteq S
  PROVE  IsFiniteSet(T)
  BY FS_Subset

\* Two finite sets, one the image of the other without collisions.
LEMMA ImageSize ==
  ASSUME NEW S, IsFiniteSet(S), NEW f, \A x, y \in S : f[x] = f[y] => x = y
  PROVE  Cardinality({f[x] : x \in S}) = Cardinality(S)
<1> DEFINE T == {f[x] : x \in S}
           g == [x \in S |-> f[x]]
<1>1. g \in Bijection(S, T)
  <2>1. g \in [S -> T]
    OBVIOUS
  <2>2. \A x, y \in S : g[x] = g[y] => x = y
    OBVIOUS
  <2>3. \A y \in T : \E x \in S : g[x] = y
    OBVIOUS
  <2> HIDE DEF g, T
  <2> QED
    BY <2>1, <2>2, <2>3 DEF Bijection, Injection, IsInjective, Surjection
<1> HIDE DEF g, T
<1>2. ExistsBijection(S, T)
  BY <1>1 DEF ExistsBijection
<1>3. Cardinality(T) = Cardinality(S)
  BY <1>2, FS_Bijection
<1> QED
  BY <1>3 DEF T

-----------------------------------------------------------------------------
(* What the registry accepts.                                              *)

\* A list has finitely many values.
LEMMA ListFinite ==
  ASSUME NEW values, IsList(values)
  PROVE  IsFiniteSet(Range(values))
<1>1. Len(values) \in Nat /\ DOMAIN values = 1 .. Len(values)
  BY DEF IsList
<1>2. IsFiniteSet(1 .. Len(values))
  BY <1>1, FS_Interval
<1>3. IsFiniteSet({values[n] : n \in 1 .. Len(values)})
  BY <1>2, ImageFinite
<1> QED
  BY <1>1, <1>3 DEF Range

\* An accepted list of strings, and the set made of one that may be null.
LEMMA AcceptedListFinite ==
  ASSUME NEW values, NEW allowed, OneOf(values, {allowed}), IsList(allowed)
  PROVE  IsFiniteSet(SetOf(values))
<1>1. CASE values = None
  BY <1>1, FS_EmptySet DEF SetOf
<1>2. CASE values # None
  BY <1>2, ListFinite DEF SetOf, OneOf
<1> QED
  BY <1>1, <1>2

\* What the figures may rely on of a definition.
Defined(d) ==
  /\ d.kind \in Kinds /\ d.threshold \in Nat /\ IsFiniteSet(d.windows)
  /\ d.kind \in DescriptiveKinds =>
       /\ IF d.kind \in WindowedKinds THEN d.population = "index_events" /\ d.index \in IndexKinds /\ d.outcome # None
          ELSE d.population \in PlainPopulations /\ d.index = None /\ d.outcome = None /\ d.windows = {}
       /\ IF d.kind = "median" THEN d.measure \in Measures ELSE d.measure = None
       /\ d.kind = "distribution" => d.dimension \in Dimensions
  /\ d.kind = ObservedExpected =>
       /\ d.subjects = {"judge"} /\ d.target # None
       /\ d.population \in {"pretrial_decisions", "index_events"}
       /\ d.population = "index_events" => d.index = "pretrial_release" /\ d.outcome # None
  /\ d.rule.gate = "disposing_judge" =>
       \/ d.population \in {"disposed_charges", "disposed_cases"}
       \/ d.population = "index_events" /\ d.index = "disposition"

\* The definition of an accepted entry.
LEMMA AcceptedEntry ==
  ASSUME NEW file, NEW entry, AcceptsEntry(entry)
  PROVE  Defined(Definition(file, entry))
<1> DEFINE d == Definition(file, entry)
           rule == [entry.rule EXCEPT !.actors = SetOrNone(@), !.discretion = SetOrNone(@)]
<1>1. /\ d.kind = entry.kind /\ d.threshold = entry.threshold /\ d.windows = SetOf(entry.windows)
      /\ d.population = entry.population /\ d.index = entry.index /\ d.outcome = entry.outcome
      /\ d.measure = entry.measure /\ d.dimension = entry.dimension /\ d.subjects = Range(entry.subjects)
      /\ d.target = IF entry.adjustment = None THEN None ELSE entry.adjustment.target
      /\ d.rule = rule
  BY DEF Definition
<1>2. d.rule.gate = entry.rule.gate
  BY <1>1 DEF AcceptsEntry, AcceptsAttribution
<1> HIDE DEF d, rule
<1>3. IsFiniteSet(d.windows)
  <2>1. WindowsDays \in [1 .. Len(WindowsDays) -> Range(WindowsDays)] /\ Len(WindowsDays) \in Nat
    BY WindowsAssumption DEF Range
  <2>2. IsList(WindowsDays)
    BY <2>1 DEF IsList
  <2>3. OneOf(entry.windows, {WindowsDays})
    BY DEF AcceptsEntry
  <2>4. IsFiniteSet(SetOf(entry.windows))
    BY <2>2, <2>3, AcceptedListFinite
  <2> QED
    BY <1>1, <2>4
<1>4. d.kind \in Kinds /\ d.threshold \in Nat
  BY <1>1 DEF AcceptsEntry
<1>5. ASSUME d.kind \in DescriptiveKinds
      PROVE  /\ IF d.kind \in WindowedKinds
                THEN d.population = "index_events" /\ d.index \in IndexKinds /\ d.outcome # None
                ELSE d.population \in PlainPopulations /\ d.index = None /\ d.outcome = None /\ d.windows = {}
             /\ IF d.kind = "median" THEN d.measure \in Measures ELSE d.measure = None
             /\ d.kind = "distribution" => d.dimension \in Dimensions
  <2>1. AcceptsDescriptive(entry)
    BY <1>1, <1>5 DEF AcceptsEntry, DescriptiveKinds, ObservedExpected
  <2>2. CASE entry.kind \in WindowedKinds
    BY <1>1, <2>1, <2>2 DEF AcceptsDescriptive, AcceptsEntry, HasFollowUp, FollowUp, OneOf, WindowedKinds
  <2>3. CASE entry.kind \notin WindowedKinds
    BY <1>1, <2>1, <2>3
       DEF AcceptsDescriptive, AcceptsEntry, NoFollowUp, FollowUp, OneOf, Populations, SetOf
  <2> QED
    BY <1>1, <2>2, <2>3
<1>6. ASSUME d.kind = ObservedExpected
      PROVE  /\ d.subjects = {"judge"} /\ d.target # None
             /\ d.population \in {"pretrial_decisions", "index_events"}
             /\ d.population = "index_events" => d.index = "pretrial_release" /\ d.outcome # None
  <2>1. AcceptsAdjusted(entry)
    BY <1>1, <1>6 DEF AcceptsEntry
  <2>2. Range(entry.subjects) = {"judge"}
    BY <2>1 DEF AcceptsAdjusted, Range
  <2> QED
    BY <1>1, <2>1, <2>2 DEF AcceptsAdjusted, HasFollowUp, FollowUp
<1>7. d.rule.gate = "disposing_judge" =>
        \/ d.population \in {"disposed_charges", "disposed_cases"}
        \/ d.population = "index_events" /\ d.index = "disposition"
  BY <1>1, <1>2 DEF AcceptsEntry, AcceptsGate
<1> QED
  BY <1>3, <1>4, <1>5, <1>6, <1>7 DEF Defined, d

Unambiguous(definitions) ==
  /\ IsFiniteSet(definitions)
  /\ \A d \in definitions : Defined(d)
  /\ \A d, e \in definitions : d.slug = e.slug => d = e

\* The figures of every definition of a file that loads are well defined, whatever the
\* file says: a follow-up has an index event and an outcome, a plain figure a population
\* that the engine reads, a median a measure, and a slug names one definition
\* (metrics/registry.py: parse_metric and load_registry, on which metrics/compute.py relies).
THEOREM AcceptedRegistry ==
  ASSUME NEW file, Loads(file), NEW kinds
  PROVE  Unambiguous(DefinitionsOf(file, kinds))
<1> DEFINE entries == {e \in Range(file.metrics) : e.kind \in kinds}
           made == [entry \in entries |-> Definition(file, entry)]
<1>1. IsList(file.metrics)
  BY DEF Loads
<1>2. IsFiniteSet(entries)
  BY <1>1, ListFinite, SubFinite
<1>3. DefinitionsOf(file, kinds) = {made[entry] : entry \in entries}
  BY DEF DefinitionsOf
<1>4. IsFiniteSet({made[entry] : entry \in entries})
  <2> HIDE DEF made, entries
  <2> QED
    BY <1>2, ImageFinite
<1>5. \A entry \in entries : Defined(made[entry]) /\ made[entry].slug = entry.slug
  <2> SUFFICES ASSUME NEW entry \in entries
               PROVE  Defined(made[entry]) /\ made[entry].slug = entry.slug
    OBVIOUS
  <2>1. AcceptsEntry(entry)
    BY DEF Loads
  <2>2. Defined(Definition(file, entry))
    BY <2>1, AcceptedEntry
  <2>3. Definition(file, entry).slug = entry.slug
    BY DEF Definition
  <2> QED
    BY <2>2, <2>3
<1>6. \A e, f \in entries : e.slug = f.slug => e = f
  BY DEF Loads, Range
<1> HIDE DEF made, entries
<1> QED
  BY <1>3, <1>4, <1>5, <1>6 DEF Unambiguous

\* The definitions of the program are those of a file that loads.
LEMMA DefinitionsSound == Unambiguous(Definitions) /\ Unambiguous(AdjustedEntries)
  BY AcceptedRegistry, RegistryAssumption DEF Definitions, AdjustedEntries

\* The engine computes what is not adjusted.
LEMMA DescriptiveDefinitions == \A def \in Definitions : def.kind \in DescriptiveKinds
<1> SUFFICES ASSUME NEW def \in Definitions PROVE def.kind \in DescriptiveKinds
  OBVIOUS
<1>1. PICK entry \in {e \in Range(RegistryFile.metrics) : e.kind \in DescriptiveKinds} :
        def = Definition(RegistryFile, entry)
  BY DEF Definitions, DefinitionsOf
<1>2. Definition(RegistryFile, entry).kind = entry.kind
  BY DEF Definition
<1> QED
  BY <1>1, <1>2

\* The instant the loader lets a file name for a population is the instant the engine
\* places its rows by (registry.py: POPULATION_ANCHORS; compute.py).
THEOREM AnchorsAgree ==
  ASSUME NEW file, Loads(file), NEW population \in Populations, NEW r
  PROVE  Anchor(population, r) = r[file.periods.anchors[population]]
<1>1. file.periods.anchors[population] = PopulationAnchors[population]
  BY DEF Loads, AcceptsPeriods
<1>2. Anchor(population, r) = r[PopulationAnchors[population]]
  BY DEF Anchor, PopulationAnchors, Populations, PlainPopulations
<1> QED
  BY <1>1, <1>2

\* A sync of any file keeps every row of another slug or version and has every row of
\* the file, and one more sync of the same file writes nothing (sync_definitions).
THEOREM SyncKeepsHistory ==
  ASSUME NEW stored, NEW file
  PROVE  LET synced == SyncDefinitions(stored, file)
         IN /\ \A r \in stored : (\A s \in DefinitionRows(file) : ~SameDefinition(r, s)) => r \in synced
            /\ DefinitionRows(file) \subseteq synced
            /\ SyncWrites(synced, file) = {} /\ SyncDefinitions(synced, file) = synced
<1>1. \A s \in DefinitionRows(file) : SameDefinition(s, s)
  BY DEF SameDefinition
<1> QED
  BY <1>1 DEF SyncDefinitions, SyncWrites

-----------------------------------------------------------------------------
(* Finite frames.                                                          *)

FiniteFrame(frame) ==
  /\ IsFiniteSet(frame.cases) /\ IsFiniteSet(frame.assignments) /\ IsFiniteSet(frame.charges)
  /\ IsFiniteSet(frame.decisions) /\ IsFiniteSet(frame.sentences) /\ IsFiniteSet(frame.events)

\* Resolving the persons of finitely many rows gives finitely many rows.
LEMMA ResolvedFinite ==
  ASSUME NEW into, NEW some, IsFiniteSet(some)
  PROVE  IsFiniteSet(ResolvePersons(into, some))
<1> DEFINE f == [r \in some |-> [r EXCEPT !.person = Survivor(into, @)]]
<1>1. ResolvePersons(into, some) = {f[r] : r \in some}
  BY DEF ResolvePersons
<1> HIDE DEF f
<1> QED
  BY <1>1, ImageFinite

\* The frame of finitely many rows is finite, table by table.
LEMMA FrameFinite ==
  ASSUME NEW all, IsFiniteSet(all), NEW into, NEW s
  PROVE  FiniteFrame(Frame(all, into, s))
<1> DEFINE frame == Frame(all, into, s)
           cases == {c \in Table(all, "court_case") : c.source = s}
           ids == {c.id : c \in cases}
           Picked(name) == {r \in Table(all, name) : r.case \in ids}
           kept == {r \in Picked("sentence") : ~r.replaced}
<1>1. /\ cases \subseteq all /\ kept \subseteq all
      /\ \A name : Picked(name) \subseteq all
  BY DEF Table
<1>2. /\ frame.cases = cases /\ frame.assignments = Picked("judge_assignment")
      /\ frame.charges = ResolvePersons(into, Picked("charge"))
      /\ frame.decisions = ResolvePersons(into, Picked("decision"))
      /\ frame.sentences = ResolvePersons(into, kept)
      /\ frame.events = ResolvePersons(into, Picked("court_event"))
  BY DEF Frame
<1> HIDE DEF frame, cases, Picked, kept
<1>3. /\ IsFiniteSet(cases) /\ IsFiniteSet(kept)
      /\ \A name : IsFiniteSet(Picked(name))
  BY <1>1, SubFinite
<1>4. /\ IsFiniteSet(frame.charges) /\ IsFiniteSet(frame.decisions) /\ IsFiniteSet(frame.sentences)
      /\ IsFiniteSet(frame.cases) /\ IsFiniteSet(frame.assignments) /\ IsFiniteSet(frame.events)
  <2>1. /\ IsFiniteSet(Picked("judge_assignment")) /\ IsFiniteSet(Picked("charge"))
        /\ IsFiniteSet(Picked("decision")) /\ IsFiniteSet(Picked("court_event"))
    BY <1>3
  <2>2. /\ IsFiniteSet(ResolvePersons(into, Picked("charge")))
        /\ IsFiniteSet(ResolvePersons(into, Picked("decision")))
        /\ IsFiniteSet(ResolvePersons(into, kept))
        /\ IsFiniteSet(ResolvePersons(into, Picked("court_event")))
    BY <1>3, <2>1, ResolvedFinite
  <2> QED
    BY <1>2, <1>3, <2>1, <2>2
<1>5. FiniteFrame(frame)
  BY <1>4 DEF FiniteFrame
<1> QED
  BY <1>5 DEF frame

\* A gate picks rows among those it is given.
LEMMA GateRowsAmong ==
  ASSUME NEW frame, NEW gate, NEW subject, NEW at
  PROVE  GateRows(frame, gate, subject, at) \subseteq DOMAIN at
  BY DEF GateRows, RowsOfCourt

\* A finite frame has finitely many cases, disposed cases and disposed charges.
LEMMA CasesFinite ==
  ASSUME NEW frame, FiniteFrame(frame)
  PROVE  IsFiniteSet(Cases(frame)) /\ IsFiniteSet(DisposedCases(frame)) /\ IsFiniteSet(DisposedCharges(frame))
<1>1. IsFiniteSet(Cases(frame))
  <2> DEFINE f == [c \in frame.cases |-> [id |-> c.id, case |-> c.id, court |-> c.court, filed |-> c.filed]]
  <2>1. Cases(frame) = {f[c] : c \in frame.cases}
    BY DEF Cases
  <2> HIDE DEF f
  <2> QED
    BY <2>1, ImageFinite DEF FiniteFrame
<1>2. IsFiniteSet(DisposedCases(frame))
  <2> DEFINE held(c) == {d \in DisposedCharges(frame) : d.case = c.id}
             some == {k \in frame.cases : held(k) # {}}
             f == [c \in some |->
                     [id |-> c.id, case |-> c.id, court |-> c.court, filed |-> c.filed,
                      at |-> LastDisposed(held(c)).disposed, judge |-> LastDisposed(held(c)).judge]]
  <2>1. DisposedCases(frame) = {f[c] : c \in some}
    BY DEF DisposedCases
  <2>2. some \subseteq frame.cases
    OBVIOUS
  <2> HIDE DEF f, some
  <2> QED
    BY <2>1, <2>2, SubFinite, ImageFinite DEF FiniteFrame
<1>3. IsFiniteSet(DisposedCharges(frame))
  BY SubFinite DEF DisposedCharges, FiniteFrame
<1> QED
  BY <1>1, <1>2, <1>3

\* What is attributed to a subject is among the rows of the frame.
LEMMA AttributedFinite ==
  ASSUME NEW frame, FiniteFrame(frame), NEW rule, NEW subject
  PROVE  /\ IsFiniteSet(AttributedDecisions(frame, rule, subject))
         /\ IsFiniteSet(AttributedCharges(frame, rule, subject))
         /\ IsFiniteSet(AttributedSentences(frame, rule, subject))
         /\ \A at : IsFiniteSet(DOMAIN at) => IsFiniteSet(AttributedCases(frame, rule, subject, at))
<1>1. AttributedDecisions(frame, rule, subject) \subseteq frame.decisions
  BY GateRowsAmong DEF AttributedDecisions
<1>2. AttributedCharges(frame, rule, subject) \subseteq frame.charges
  BY GateRowsAmong DEF AttributedCharges
<1>3. AttributedSentences(frame, rule, subject) \subseteq frame.sentences
  BY GateRowsAmong DEF AttributedSentences
<1>4. \A at : AttributedCases(frame, rule, subject, at) \subseteq DOMAIN at
  BY GateRowsAmong DEF AttributedCases
<1> QED
  BY <1>1, <1>2, <1>3, <1>4, SubFinite DEF FiniteFrame

\* Every population of a descriptive definition is finite.
LEMMA PopulationFinite ==
  ASSUME NEW frame, FiniteFrame(frame), NEW def, def.population \in PlainPopulations, NEW subject
  PROVE  IsFiniteSet(DOMAIN PopulationRows(frame, def, subject))
<1> DEFINE disposed == DisposedCharges(frame)
           some == CASE def.population \in {"cases", "defendants"} ->
                          AttributedCases(frame, def.rule, subject, [r \in Cases(frame) |-> None])
                     [] def.population = "pretrial_decisions" ->
                          AttributedDecisions(frame, def.rule, subject)
                     [] def.population = "disposed_charges" ->
                          AttributedCharges(frame, def.rule, subject) \cap disposed
                     [] def.population = "disposed_cases" ->
                          AttributedCases(frame, def.rule, subject, [r \in DisposedCases(frame) |-> r.at])
                     [] def.population = "sentences" -> AttributedSentences(frame, def.rule, subject)
           anchored == [r \in some |-> Anchor(def.population, r)]
<1>1. IsFiniteSet(some)
  <2>1. /\ IsFiniteSet(AttributedCases(frame, def.rule, subject, [r \in Cases(frame) |-> None]))
        /\ IsFiniteSet(AttributedCases(frame, def.rule, subject, [r \in DisposedCases(frame) |-> r.at]))
    BY AttributedFinite, CasesFinite
  <2>2. IsFiniteSet(AttributedCharges(frame, def.rule, subject) \cap disposed)
    BY AttributedFinite, SubFinite
  <2>3. CASE def.population \in {"cases", "defendants"}
    BY <2>1, <2>3
  <2>4. CASE def.population = "pretrial_decisions"
    BY <2>4, AttributedFinite
  <2>5. CASE def.population = "disposed_charges"
    BY <2>2, <2>5
  <2>6. CASE def.population = "disposed_cases"
    BY <2>1, <2>6
  <2>7. CASE def.population = "sentences"
    BY <2>7, AttributedFinite
  <2> QED
    BY <2>3, <2>4, <2>5, <2>6, <2>7 DEF PlainPopulations
<1>2. PopulationRows(frame, def, subject) = [r \in WithinCoverage(frame, anchored) |-> anchored[r]]
  BY DEF PopulationRows
<1>3. WithinCoverage(frame, anchored) \subseteq some
  BY DEF WithinCoverage
<1> HIDE DEF some, anchored
<1>4. DOMAIN PopulationRows(frame, def, subject) = WithinCoverage(frame, anchored)
  BY <1>2
<1> QED
  BY <1>1, <1>3, <1>4, SubFinite

\* Every cohort of index events is finite.
LEMMA CohortFinite ==
  ASSUME NEW frame, FiniteFrame(frame), NEW def, def.index \in IndexKinds, NEW subject
  PROVE  IsFiniteSet(Cohort(frame, def, subject))
<1> DEFINE rule == def.rule
           events == CASE def.index = "pretrial_release" -> PretrialReleaseIndex(frame, rule, subject)
                       [] def.index = "disposition" -> DispositionIndex(frame, rule, subject)
                       [] def.index = "sentence" -> SentenceIndex(frame, rule, subject)
           within == IndexEvents(frame, def.index, rule, subject)
           exposed == WithExposure(frame, def.index, within)
<1>1. IsFiniteSet(PretrialReleaseIndex(frame, rule, subject))
  <2> DEFINE pretrial == [rule EXCEPT !.type = "pretrial_release"]
             some == {e \in PretrialDecisions(frame, rule, subject) : e.detained = "false" /\ e.release # None}
             f == [d \in some |-> IndexEvent(d.id, d.case, d.person, d.release)]
  <2>1. some \subseteq AttributedDecisions(frame, pretrial, subject)
    BY DEF PretrialDecisions
  <2>2. PretrialReleaseIndex(frame, rule, subject) = {f[d] : d \in some}
    BY DEF PretrialReleaseIndex
  <2> HIDE DEF pretrial, some, f
  <2> QED
    BY <2>1, <2>2, AttributedFinite, SubFinite, ImageFinite
<1>2. IsFiniteSet(DispositionIndex(frame, rule, subject))
  <2> DEFINE some == AttributedCases(frame, rule, subject, [r \in DisposedCases(frame) |-> r.at])
             charged(k) == {d \in DisposedCharges(frame) : d.case = k.id}
             of == [k \in some |-> {IndexEvent(k.id, k.id, c.person, k.at) : c \in charged(k)}]
  <2>1. IsFiniteSet(some)
    BY AttributedFinite, CasesFinite
  <2>2. ASSUME NEW k \in some PROVE IsFiniteSet(of[k])
    <3> DEFINE f == [c \in charged(k) |-> IndexEvent(k.id, k.id, c.person, k.at)]
    <3>1. charged(k) \subseteq DisposedCharges(frame)
      OBVIOUS
    <3>2. of[k] = {f[c] : c \in charged(k)}
      OBVIOUS
    <3> HIDE DEF f, charged, some, of
    <3> QED
      BY <3>1, <3>2, CasesFinite, SubFinite, ImageFinite
  <2>3. DispositionIndex(frame, rule, subject) = UNION {of[k] : k \in some}
    BY DEF DispositionIndex
  <2> HIDE DEF of, some
  <2>4. IsFiniteSet({of[k] : k \in some})
    BY <2>1, ImageFinite
  <2> QED
    BY <2>2, <2>3, <2>4, FS_UNION
<1>3. IsFiniteSet(SentenceIndex(frame, rule, subject))
  <2> DEFINE some == AttributedSentences(frame, rule, subject)
             f == [s \in some |-> IndexEvent(s.id, s.case, s.person, s.at)]
  <2>1. SentenceIndex(frame, rule, subject) = {f[s] : s \in some}
    BY DEF SentenceIndex
  <2> HIDE DEF f
  <2> QED
    BY <2>1, AttributedFinite, ImageFinite
<1>4. IsFiniteSet(events)
  BY <1>1, <1>2, <1>3 DEF IndexKinds
<1>5. within \subseteq events
  BY DEF IndexEvents, WithinCoverage
<1>6. IsFiniteSet(within)
  <2> HIDE DEF within, events
  <2> QED
    BY <1>4, <1>5, SubFinite
<1>7. IsFiniteSet(exposed)
  <2> DEFINE terms == IncarcerationTerms(frame)
             at(e) == Defer(terms, e.person,
                            IF def.index = "disposition" THEN OwnTerm(terms, e)
                            ELSE [start |-> e.anchor, deferral |-> 0])
             f == [e \in within |->
                     [id |-> e.id, case |-> e.case, person |-> e.person, anchor |-> e.anchor,
                      start |-> at(e).start, deferral |-> at(e).deferral]]
  <2>1. exposed = {f[e] : e \in within}
    BY DEF WithExposure
  <2> HIDE DEF f, exposed, within
  <2> QED
    BY <1>6, <2>1, ImageFinite
<1>8. IsFiniteSet(FirstOutcomes(frame, def.outcome, exposed))
  <2> DEFINE f == [m \in exposed |->
                     [id |-> m.id, case |-> m.case, person |-> m.person, anchor |-> m.anchor,
                      start |-> m.start, deferral |-> m.deferral,
                      first |-> FirstOutcome(frame, def.outcome, m)]]
  <2>1. FirstOutcomes(frame, def.outcome, exposed) = {f[m] : m \in exposed}
    BY DEF FirstOutcomes
  <2> HIDE DEF f, exposed
  <2> QED
    BY <1>7, <2>1, ImageFinite
<1> QED
  BY <1>8 DEF Cohort

-----------------------------------------------------------------------------
(* Judges are judged by the cases that identify one.                       *)

CaseIds(frame) == {c.id : c \in frame.cases}
Identified(frame) == {c.id : c \in {k \in frame.cases : IdentifiedJudge(frame, k)}}
TypedFrame(frame) ==
  /\ FiniteFrame(frame)
  /\ \A r \in frame.charges \cup frame.decisions \cup frame.sentences \cup frame.assignments :
       r.case \in CaseIds(frame)
  /\ \A h \in frame.charges : h.id \in Nat /\ h.disposed \in Int \cup {None}

\* Of finitely many things with two numbers each, one is the last by them.
LEMMA LastByNumbers ==
  ASSUME NEW some, IsFiniteSet(some), some # {}, NEW a, NEW b,
         \A x \in some : a[x] \in Int /\ b[x] \in Int
  PROVE  \E c \in some : \A d \in some : a[d] < a[c] \/ (a[d] = a[c] /\ b[d] <= b[c])
<1> DEFINE Upto(d, c) == a[d] < a[c] \/ (a[d] = a[c] /\ b[d] <= b[c])
           Has(t) == \E c \in t : \A d \in t : Upto(d, c)
           S == {n \in Nat : \A t \in SUBSET some : Cardinality(t) = n + 1 => Has(t)}
<1>1. \A c \in some : Upto(c, c)
  OBVIOUS
<1>2. \A c, d \in some : Upto(c, d) \/ Upto(d, c)
  OBVIOUS
<1>3. \A x, c, d \in some : Upto(x, c) /\ Upto(c, d) => Upto(x, d)
  OBVIOUS
<1> HIDE DEF Upto
<1>4. 0 \in S
  <2>1. ASSUME NEW t \in SUBSET some, Cardinality(t) = 1 PROVE Has(t)
    <3>1. IsFiniteSet(t)
      BY SubFinite
    <3>2. PICK c : t = {c}
      BY <2>1, <3>1, FS_Singleton
    <3> QED
      BY <1>1, <3>2
  <2> QED
    BY <2>1
<1>5. ASSUME NEW n \in S PROVE n + 1 \in S
  <2>1. ASSUME NEW t \in SUBSET some, Cardinality(t) = (n + 1) + 1 PROVE Has(t)
    <3>1. IsFiniteSet(t)
      BY SubFinite
    <3>2. t # {}
      <4>1. n \in Nat
        OBVIOUS
      <4> HIDE DEF S, Has
      <4>2. Cardinality(t) # 0
        BY <2>1, <4>1
      <4> QED
        BY <4>2, FS_EmptySet
    <3>3. PICK x : x \in t
      BY <3>2
    <3>4. Cardinality(t \ {x}) = n + 1
      <4>1. Cardinality(t \ {x}) = Cardinality(t) - 1
        BY <3>1, <3>3, FS_RemoveElement
      <4>2. n \in Nat
        OBVIOUS
      <4> HIDE DEF S
      <4> QED
        BY <2>1, <4>1, <4>2
    <3>5. PICK c \in t \ {x} : \A d \in t \ {x} : Upto(d, c)
      BY <3>4
    <3>6. CASE Upto(x, c)
      BY <3>5, <3>6
    <3>7. CASE Upto(c, x)
      <4>1. \A d \in t : Upto(d, x)
        BY <1>1, <1>3, <3>3, <3>5, <3>7
      <4> QED
        BY <3>3, <4>1
    <3> QED
      BY <1>2, <3>3, <3>5, <3>6, <3>7
  <2> QED
    BY <2>1
<1>6. Has(some)
  <2> HIDE DEF Has
  <2>1. S = Nat
    <3>1. S \in SUBSET Nat
      OBVIOUS
    <3> HIDE DEF S
    <3> QED
      BY <1>4, <1>5, <3>1, AllNumbers
  <2>2. Cardinality(some) \in Nat /\ Cardinality(some) # 0
    BY FS_CardinalityType, FS_EmptySet
  <2>3. Cardinality(some) - 1 \in Nat /\ Cardinality(some) = (Cardinality(some) - 1) + 1
    BY <2>2
  <2> QED
    BY <2>1, <2>3
<1> QED
  BY <1>6 DEF Upto

\* Of finitely many disposed charges one is disposed of last.
LEMMA LastExists ==
  ASSUME NEW some, IsFiniteSet(some), some # {},
         \A c \in some : c.id \in Nat /\ c.disposed \in Int
  PROVE  LastDisposed(some) \in some
<1> DEFINE a == [c \in some |-> c.disposed]
           b == [c \in some |-> -c.id]
<1>1. \A c \in some : a[c] \in Int /\ b[c] \in Int
  OBVIOUS
<1>2. \E c \in some : \A d \in some : a[d] < a[c] \/ (a[d] = a[c] /\ b[d] <= b[c])
  <2> HIDE DEF a, b
  <2> QED
    BY <1>1, LastByNumbers
<1>3. \E c \in some : \A d \in some : d.disposed < c.disposed \/ (d.disposed = c.disposed /\ c.id <= d.id)
  BY <1>2
<1> QED
  BY <1>3 DEF LastDisposed

\* A row that names a judge is of a case that identifies one.
LEMMA NamedIdentified ==
  ASSUME NEW frame, TypedFrame(frame)
  PROVE  /\ \A r \in frame.charges \cup frame.decisions \cup frame.sentences :
              r.case \in CaseIds(frame) /\ (r.judge # None => r.case \in Identified(frame))
         /\ \A a \in frame.assignments : a.case \in Identified(frame)
<1>1. \A r \in frame.charges \cup frame.decisions \cup frame.sentences \cup frame.assignments :
        \E c \in frame.cases : c.id = r.case
  BY DEF TypedFrame, CaseIds
<1> QED
  BY <1>1 DEF Identified, IdentifiedJudge, Judged, CaseIds

\* A case disposed of by a judge identifies that judge.
LEMMA DisposedIdentified ==
  ASSUME NEW frame, TypedFrame(frame)
  PROVE  \A k \in DisposedCases(frame) :
           k.case \in CaseIds(frame) /\ (k.judge # None => k.case \in Identified(frame))
<1> DEFINE held(c) == {d \in DisposedCharges(frame) : d.case = c.id}
<1>1. ASSUME NEW c \in frame.cases, held(c) # {}
      PROVE  LastDisposed(held(c)) \in held(c)
  <2>1. IsFiniteSet(held(c))
    BY CasesFinite, SubFinite DEF TypedFrame
  <2>2. \A d \in held(c) : d.id \in Nat /\ d.disposed \in Int
    BY DEF DisposedCharges, TypedFrame
  <2> QED
    BY <1>1, <2>1, <2>2, LastExists
<1>2. ASSUME NEW c \in frame.cases, held(c) # {}
      PROVE  LastDisposed(held(c)).judge # None => c.id \in Identified(frame)
  BY <1>1, <1>2, NamedIdentified DEF DisposedCharges
<1>3. \A k \in DisposedCases(frame) : \E c \in frame.cases :
        held(c) # {} /\ k.case = c.id /\ k.judge = LastDisposed(held(c)).judge
  BY DEF DisposedCases
<1> HIDE DEF held
<1> QED
  BY <1>2, <1>3 DEF CaseIds

IsJudge(j) == j.type = "judge" /\ j.id # None

\* A gate attributes to a judge only rows that name the judge and rows of cases
\* that the judge is assigned.
LEMMA GateIdentified ==
  ASSUME NEW frame, TypedFrame(frame), NEW gate, NEW j, IsJudge(j), NEW at,
         gate \in JudgeColumnGates => \A r \in DOMAIN at : r.judge # None => r.case \in Identified(frame)
  PROVE  \A r \in GateRows(frame, gate, j, at) : r.case \in Identified(frame)
<1>1. CASE gate \in JudgeColumnGates
  BY <1>1 DEF GateRows, IsJudge
<1>2. CASE gate \notin JudgeColumnGates
  BY <1>2, NamedIdentified DEF GateRows, IsJudge, AssignedAt, AssignedEver
<1> QED
  BY <1>1, <1>2

\* Whatever rule attributes decisions, charges, sentences or disposed cases to a judge.
LEMMA AttributedIdentified ==
  ASSUME NEW frame, TypedFrame(frame), NEW rule, NEW j, IsJudge(j)
  PROVE  /\ \A r \in AttributedDecisions(frame, rule, j) : r.case \in Identified(frame)
         /\ \A r \in AttributedCharges(frame, rule, j) : r.case \in Identified(frame)
         /\ \A r \in AttributedSentences(frame, rule, j) : r.case \in Identified(frame)
         /\ \A r \in AttributedCases(frame, rule, j, [k \in DisposedCases(frame) |-> k.at]) :
              r.case \in Identified(frame)
         /\ rule.gate # "disposing_judge" =>
              \A at : \A r \in AttributedCases(frame, rule, j, at) : r.case \in Identified(frame)
<1>1. \A r \in AttributedDecisions(frame, rule, j) : r.case \in Identified(frame)
  BY GateIdentified, NamedIdentified DEF AttributedDecisions
<1>2. \A r \in AttributedCharges(frame, rule, j) : r.case \in Identified(frame)
  BY GateIdentified, NamedIdentified DEF AttributedCharges
<1>3. \A r \in AttributedSentences(frame, rule, j) : r.case \in Identified(frame)
  BY GateIdentified, NamedIdentified DEF AttributedSentences
<1>4. \A r \in AttributedCases(frame, rule, j, [k \in DisposedCases(frame) |-> k.at]) :
        r.case \in Identified(frame)
  BY GateIdentified, DisposedIdentified DEF AttributedCases
<1>5. ASSUME rule.gate # "disposing_judge", NEW at
      PROVE  \A r \in AttributedCases(frame, rule, j, at) : r.case \in Identified(frame)
  BY <1>5, GateIdentified DEF AttributedCases, IsJudge, JudgeColumnGates
<1> QED
  BY <1>1, <1>2, <1>3, <1>4, <1>5

\* The rows of a population of a judge.
LEMMA PopulationIdentified ==
  ASSUME NEW frame, TypedFrame(frame), NEW j, IsJudge(j), NEW def, def.population \in PlainPopulations,
         def.rule.gate = "disposing_judge" => def.population \in {"disposed_charges", "disposed_cases"}
  PROVE  \A r \in DOMAIN PopulationRows(frame, def, j) : r.case \in Identified(frame)
<1> DEFINE some == CASE def.population \in {"cases", "defendants"} ->
                          AttributedCases(frame, def.rule, j, [r \in Cases(frame) |-> None])
                     [] def.population = "pretrial_decisions" -> AttributedDecisions(frame, def.rule, j)
                     [] def.population = "disposed_charges" ->
                          AttributedCharges(frame, def.rule, j) \cap DisposedCharges(frame)
                     [] def.population = "disposed_cases" ->
                          AttributedCases(frame, def.rule, j, [r \in DisposedCases(frame) |-> r.at])
                     [] def.population = "sentences" -> AttributedSentences(frame, def.rule, j)
           anchored == [r \in some |-> Anchor(def.population, r)]
<1>1. \A r \in some : r.case \in Identified(frame)
  <2>1. CASE def.population \in {"cases", "defendants"}
    BY <2>1, AttributedIdentified
  <2>2. CASE def.population = "pretrial_decisions"
    BY <2>2, AttributedIdentified
  <2>3. CASE def.population = "disposed_charges"
    BY <2>3, AttributedIdentified
  <2>4. CASE def.population = "disposed_cases"
    BY <2>4, AttributedIdentified
  <2>5. CASE def.population = "sentences"
    BY <2>5, AttributedIdentified
  <2> QED
    BY <2>1, <2>2, <2>3, <2>4, <2>5 DEF PlainPopulations
<1>2. PopulationRows(frame, def, j) = [r \in WithinCoverage(frame, anchored) |-> anchored[r]]
  BY DEF PopulationRows
<1>3. WithinCoverage(frame, anchored) \subseteq some
  BY DEF WithinCoverage
<1> HIDE DEF some, anchored
<1> QED
  BY <1>1, <1>2, <1>3

\* The members of a judge's cohort.
LEMMA CohortIdentified ==
  ASSUME NEW frame, TypedFrame(frame), NEW j, IsJudge(j), NEW def, def.index \in IndexKinds
  PROVE  \A m \in Cohort(frame, def, j) : m.case \in Identified(frame)
<1>1. \A e \in PretrialReleaseIndex(frame, def.rule, j) : e.case \in Identified(frame)
  <2>1. \A d \in PretrialDecisions(frame, def.rule, j) : d.case \in Identified(frame)
    BY AttributedIdentified DEF PretrialDecisions
  <2> QED
    BY <2>1 DEF PretrialReleaseIndex, IndexEvent
<1>2. \A e \in DispositionIndex(frame, def.rule, j) : e.case \in Identified(frame)
  <2> DEFINE some == AttributedCases(frame, def.rule, j, [r \in DisposedCases(frame) |-> r.at])
  <2>1. \A k \in some : k.id = k.case
    <3>1. some \subseteq DisposedCases(frame)
      <4>1. \A at : AttributedCases(frame, def.rule, j, at) \subseteq DOMAIN at
        BY GateRowsAmong DEF AttributedCases
      <4> QED
        BY <4>1
    <3>2. \A k \in DisposedCases(frame) : k.id = k.case
      <4> DEFINE held(c) == {d \in DisposedCharges(frame) : d.case = c.id}
                 cases == {c \in frame.cases : held(c) # {}}
                 f(c) == [id |-> c.id, case |-> c.id, court |-> c.court, filed |-> c.filed,
                          at |-> LastDisposed(held(c)).disposed, judge |-> LastDisposed(held(c)).judge]
      <4>1. DisposedCases(frame) = {f(c) : c \in cases}
        BY DEF DisposedCases
      <4>2. \A c : f(c).id = f(c).case
        OBVIOUS
      <4> HIDE DEF f, cases
      <4> QED
        BY <4>1, <4>2
    <3> HIDE DEF some
    <3> QED
      BY <3>1, <3>2
  <2>2. \A k \in some : k.case \in Identified(frame)
    BY AttributedIdentified
  <2>3. \A e \in DispositionIndex(frame, def.rule, j) : \E k \in some : e.case = k.id
    BY DEF DispositionIndex, IndexEvent
  <2> QED
    BY <2>1, <2>2, <2>3
<1>3. \A e \in SentenceIndex(frame, def.rule, j) : e.case \in Identified(frame)
  BY AttributedIdentified DEF SentenceIndex, IndexEvent
<1>4. \A e \in IndexEvents(frame, def.index, def.rule, j) : e.case \in Identified(frame)
  BY <1>1, <1>2, <1>3 DEF IndexEvents, WithinCoverage, IndexKinds
<1>5. \A m \in WithExposure(frame, def.index, IndexEvents(frame, def.index, def.rule, j)) :
        m.case \in Identified(frame)
  <2> DEFINE within == IndexEvents(frame, def.index, def.rule, j)
             terms == IncarcerationTerms(frame)
             at(e) == Defer(terms, e.person,
                            IF def.index = "disposition" THEN OwnTerm(terms, e)
                            ELSE [start |-> e.anchor, deferral |-> 0])
             f == [e \in within |->
                     [id |-> e.id, case |-> e.case, person |-> e.person, anchor |-> e.anchor,
                      start |-> at(e).start, deferral |-> at(e).deferral]]
  <2>1. WithExposure(frame, def.index, within) = {f[e] : e \in within}
    BY DEF WithExposure
  <2>2. \A e \in within : f[e].case = e.case
    OBVIOUS
  <2> HIDE DEF f, within
  <2>3. \A e \in within : e.case \in Identified(frame)
    BY <1>4 DEF within
  <2>4. \A m \in WithExposure(frame, def.index, within) : m.case \in Identified(frame)
    BY <2>1, <2>2, <2>3
  <2> QED
    BY <2>4 DEF within
<1> QED
  BY <1>5 DEF Cohort, FirstOutcomes

\* The rows of a frame are of its cases, and its charges can be ordered.
LEMMA FrameTyped ==
  ASSUME NEW all, IsFiniteSet(all), AllWellFormed(all), NEW into, NEW s
  PROVE  TypedFrame(Frame(all, into, s))
<1> DEFINE frame == Frame(all, into, s)
           cases == {c \in Table(all, "court_case") : c.source = s}
           ids == {c.id : c \in cases}
           Picked(name) == {r \in Table(all, name) : r.case \in ids}
           kept == {r \in Picked("sentence") : ~r.replaced}
           F(r) == [r EXCEPT !.person = Survivor(into, @)]
<1>1. /\ frame.cases = cases /\ frame.assignments = Picked("judge_assignment")
      /\ frame.charges = {F(r) : r \in Picked("charge")}
      /\ frame.decisions = {F(r) : r \in Picked("decision")}
      /\ frame.sentences = {F(r) : r \in kept}
  BY DEF Frame, ResolvePersons
<1>2. ASSUME NEW r \in all, r.table \in {"charge", "decision", "sentence"}
      PROVE  F(r).case = r.case
  <2>1. "case" \in DOMAIN r
    BY <1>2 DEF AllWellFormed, WellFormed, Identifying, PersonTables
  <2> QED
    BY <2>1
<1>3. ASSUME NEW r \in all, r.table = "charge"
      PROVE  F(r).id \in Nat /\ F(r).disposed \in Int \cup {None}
  <2>1. /\ "id" \in DOMAIN r /\ "disposed" \in DOMAIN r
        /\ r.id \in Nat /\ r.disposed \in Int \cup {None}
    BY <1>3 DEF AllWellFormed, WellFormed, Identifying, PersonTables
  <2>2. F(r).id = r.id /\ F(r).disposed = r.disposed
    BY <2>1
  <2> QED
    BY <2>1, <2>2
<1>4. \A name : \A r \in Picked(name) : r \in all /\ r.table = name /\ r.case \in ids
  BY DEF Table
<1> HIDE DEF F, frame
<1>5. CaseIds(frame) = ids
  BY <1>1 DEF CaseIds
<1> HIDE DEF ids, Picked
<1>6. /\ \A r \in frame.charges \cup frame.decisions \cup frame.sentences : r.case \in ids
      /\ \A r \in frame.assignments : r.case \in ids
  BY <1>1, <1>2, <1>4
<1>7. \A h \in frame.charges : h.id \in Nat /\ h.disposed \in Int \cup {None}
  BY <1>1, <1>3, <1>4
<1>8. FiniteFrame(frame)
  BY FrameFinite DEF frame
<1> QED
  BY <1>5, <1>6, <1>7, <1>8 DEF TypedFrame, frame

-----------------------------------------------------------------------------
(* The drafts of a definition: finitely many, one for each period, window  *)
(* and dimension.                                                          *)

IsDraft(d) ==
  d = [slug |-> d.slug, subject |-> d.subject, year |-> d.year, window |-> d.window,
       dimension |-> d.dimension, eligible |-> d.eligible, cohort |-> d.cohort,
       observed |-> d.observed, value |-> d.value, suppressed |-> d.suppressed]
Slot(d) == <<<<d.year, d.window>>, d.dimension>>
OnePerSlot(drafts) ==
  /\ IsFiniteSet(drafts)
  /\ \A d \in drafts : IsDraft(d)
  /\ \A d, e \in drafts : Slot(d) = Slot(e) => d = e

\* A draft is in the slot of the period, window and dimension it was made for.
LEMMA DraftInSlot ==
  ASSUME NEW def, NEW subject, NEW year, NEW window, NEW dimension, NEW eligible, NEW cohort,
         NEW observed, NEW value
  PROVE  LET d == Draft(def, subject, year, window, dimension, eligible, cohort, observed, value)
         IN IsDraft(d) /\ Slot(d) = <<<<year, window>>, dimension>>
  BY DEF Draft, IsDraft, Slot

\* Drafts made for the slots of a finite set, each for its own.
LEMMA SlotsGiveDrafts ==
  ASSUME NEW slots, IsFiniteSet(slots), NEW f,
         \A k \in slots : IsDraft(f[k]) /\ Slot(f[k]) = k
  PROVE  OnePerSlot({f[k] : k \in slots})
<1>1. IsFiniteSet({f[k] : k \in slots})
  BY ImageFinite
<1> QED
  BY <1>1 DEF OnePerSlot

\* Finitely many rows fall in finitely many periods.
LEMMA PeriodsFinite ==
  ASSUME NEW at, IsFiniteSet(DOMAIN at), NEW byYear
  PROVE  IsFiniteSet(Periods(at, byYear))
<1> DEFINE f == [r \in DOMAIN at |-> YearOf(at[r])]
<1>1. {YearOf(at[r]) : r \in DOMAIN at} = {f[r] : r \in DOMAIN at}
  OBVIOUS
<1> HIDE DEF f
<1>2. IsFiniteSet({YearOf(at[r]) : r \in DOMAIN at})
  BY <1>1, ImageFinite
<1>3. IsFiniteSet({None}) /\ IsFiniteSet({})
  BY FS_Singleton, FS_EmptySet
<1> QED
  BY <1>2, <1>3, FS_Union DEF Periods

\* A count and a share make one draft for each slot.
LEMMA CountSlots ==
  ASSUME NEW frame, FiniteFrame(frame), NEW def, def.population \in PlainPopulations, NEW subject
  PROVE  /\ OnePerSlot(ComputeCount(frame, def, subject).drafts)
         /\ OnePerSlot(ComputeShare(frame, def, subject).drafts)
<1> DEFINE at == PopulationRows(frame, def, subject)
           years == Periods(at, def.byYear)
           slots == (years \X {None}) \X {None}
<1>1. IsFiniteSet(slots)
  <2>1. IsFiniteSet(years) /\ IsFiniteSet({None})
    BY PopulationFinite, PeriodsFinite, FS_Singleton
  <2> HIDE DEF years
  <2> QED
    BY <2>1, FS_Product
<1>2. OnePerSlot(ComputeCount(frame, def, subject).drafts)
  <2> DEFINE matching(year) == {r \in RowsOf(at, year) : IsCounted(def, r)}
             observed(year) == IF def.population = "defendants"
                               THEN DistinctPersons(frame, {r.id : r \in matching(year)}) ELSE matching(year)
             draft(year) == Draft(def, subject, year, None, None, Cardinality(RowsOf(at, year)),
                                  Cardinality(RowsOf(at, year)), Cardinality(observed(year)), None)
             f == [k \in slots |-> draft(k[1][1])]
  <2>1. ComputeCount(frame, def, subject).drafts = {draft(year) : year \in years}
    BY DEF ComputeCount
  <2>2. \A year : IsDraft(draft(year)) /\ Slot(draft(year)) = <<<<year, None>>, None>>
    BY DraftInSlot
  <2> HIDE DEF draft, years
  <2>3. {draft(year) : year \in years} = {f[k] : k \in slots}
    <3>1. ASSUME NEW year \in years PROVE draft(year) \in {f[k] : k \in slots}
      <4>1. <<<<year, None>>, None>> \in slots /\ f[<<<<year, None>>, None>>] = draft(year)
        OBVIOUS
      <4> QED
        BY <4>1
    <3>2. ASSUME NEW k \in slots PROVE f[k] \in {draft(year) : year \in years}
      OBVIOUS
    <3> HIDE DEF f, slots
    <3> QED
      BY <3>1, <3>2
  <2>4. \A k \in slots : IsDraft(f[k]) /\ Slot(f[k]) = k
    BY <2>2
  <2> HIDE DEF f, slots
  <2> QED
    BY <1>1, <2>1, <2>3, <2>4, SlotsGiveDrafts
<1>3. OnePerSlot(ComputeShare(frame, def, subject).drafts)
  <2> DEFINE n(year) == Cardinality({r \in RowsOf(at, year) : IsCounted(def, r)})
             draft(year) == Draft(def, subject, year, None, None, Cardinality(RowsOf(at, year)),
                                  Cardinality(RowsOf(at, year)), n(year),
                                  Rate(n(year), Cardinality(RowsOf(at, year))))
             f == [k \in slots |-> draft(k[1][1])]
  <2>1. ComputeShare(frame, def, subject).drafts = {draft(year) : year \in years}
    BY DEF ComputeShare
  <2>2. \A year : IsDraft(draft(year)) /\ Slot(draft(year)) = <<<<year, None>>, None>>
    BY DraftInSlot
  <2> HIDE DEF draft, years
  <2>3. {draft(year) : year \in years} = {f[k] : k \in slots}
    <3>1. ASSUME NEW year \in years PROVE draft(year) \in {f[k] : k \in slots}
      <4>1. <<<<year, None>>, None>> \in slots /\ f[<<<<year, None>>, None>>] = draft(year)
        OBVIOUS
      <4> QED
        BY <4>1
    <3>2. ASSUME NEW k \in slots PROVE f[k] \in {draft(year) : year \in years}
      OBVIOUS
    <3> HIDE DEF f, slots
    <3> QED
      BY <3>1, <3>2
  <2>4. \A k \in slots : IsDraft(f[k]) /\ Slot(f[k]) = k
    BY <2>2
  <2> HIDE DEF f, slots
  <2> QED
    BY <1>1, <2>1, <2>3, <2>4, SlotsGiveDrafts
<1> QED
  BY <1>2, <1>3

\* A windowed rate makes one draft for each slot.
LEMMA WindowSlots ==
  ASSUME NEW frame, FiniteFrame(frame), NEW def, def.index \in IndexKinds, IsFiniteSet(def.windows),
         NEW subject
  PROVE  OnePerSlot(ComputeWindows(frame, def, subject).drafts)
<1> DEFINE cohort == Cohort(frame, def, subject)
           at == [m \in cohort |-> m.anchor]
           years == Periods(at, def.byYear)
           slots == (years \X def.windows) \X {None}
           point(year, w) ==
             IF def.kind = "survival" THEN SurvivalPoint(def, subject, year, w, RowsOf(at, year), frame.end)
             ELSE FixedWindowRate(def, subject, year, w, RowsOf(at, year), frame.end)
           f == [k \in slots |-> point(k[1][1], k[1][2])]
<1>1. IsFiniteSet(slots)
  <2>1. IsFiniteSet(years) /\ IsFiniteSet({None})
    BY CohortFinite, PeriodsFinite, FS_Singleton
  <2> HIDE DEF years
  <2> QED
    BY <2>1, FS_Product
<1>2. ComputeWindows(frame, def, subject).drafts = {point(year, w) : year \in years, w \in def.windows}
  BY DEF ComputeWindows
<1>3. \A year, w : IsDraft(point(year, w)) /\ Slot(point(year, w)) = <<<<year, w>>, None>>
  <2>1. \A year, w, of, end :
          LET d == SurvivalPoint(def, subject, year, w, of, end)
          IN IsDraft(d) /\ Slot(d) = <<<<year, w>>, None>>
    BY DraftInSlot DEF SurvivalPoint
  <2>2. \A year, w, of, end :
          LET d == FixedWindowRate(def, subject, year, w, of, end)
          IN IsDraft(d) /\ Slot(d) = <<<<year, w>>, None>>
    BY DraftInSlot DEF FixedWindowRate
  <2> QED
    BY <2>1, <2>2
<1> HIDE DEF point, years
<1>4. {point(year, w) : year \in years, w \in def.windows} = {f[k] : k \in slots}
  <2>1. ASSUME NEW year \in years, NEW w \in def.windows
        PROVE  point(year, w) \in {f[k] : k \in slots}
    <3>1. <<<<year, w>>, None>> \in slots /\ f[<<<<year, w>>, None>>] = point(year, w)
      OBVIOUS
    <3> QED
      BY <3>1
  <2>2. ASSUME NEW k \in slots
        PROVE  f[k] \in {point(year, w) : year \in years, w \in def.windows}
    OBVIOUS
  <2> HIDE DEF f, slots
  <2> QED
    BY <2>1, <2>2
<1>5. \A k \in slots : IsDraft(f[k]) /\ Slot(f[k]) = k
  BY <1>3
<1> HIDE DEF f, slots
<1> QED
  BY <1>1, <1>2, <1>4, <1>5, SlotsGiveDrafts

\* A distribution makes one draft for each slot.
LEMMA DistributionSlots ==
  ASSUME NEW frame, FiniteFrame(frame), NEW def, def.population \in PlainPopulations, NEW subject
  PROVE  OnePerSlot(ComputeDistribution(frame, def, subject).drafts)
<1> DEFINE at == PopulationRows(frame, def, subject)
           years == Periods(at, def.byYear)
           slots == (years \X {None}) \X FinalDispositions
           draft(year, v) ==
             Draft(def, subject, year, None, v, Cardinality(RowsOf(at, year)), Cardinality(RowsOf(at, year)),
                   Cardinality({r \in RowsOf(at, year) : r.disposition = v}), None)
           f == [k \in slots |-> draft(k[1][1], k[2])]
<1>1. IsFiniteSet(slots)
  <2>1. IsFiniteSet(years) /\ IsFiniteSet({None})
    BY PopulationFinite, PeriodsFinite, FS_Singleton
  <2>2. IsFiniteSet(FinalDispositions)
    <3>1. FinalDispositions = {"convicted_plea"} \cup {"convicted_verdict"} \cup {"acquitted"} \cup {"dismissed"}
      BY DEF FinalDispositions, Convicted
    <3> QED
      BY <3>1, FS_Singleton, FS_Union
  <2> HIDE DEF years
  <2> QED
    BY <2>1, <2>2, FS_Product
<1>2. ComputeDistribution(frame, def, subject).drafts = {draft(year, v) : year \in years, v \in FinalDispositions}
  BY DEF ComputeDistribution
<1>3. \A year, v : IsDraft(draft(year, v)) /\ Slot(draft(year, v)) = <<<<year, None>>, v>>
  BY DraftInSlot
<1> HIDE DEF draft, years
<1>4. {draft(year, v) : year \in years, v \in FinalDispositions} = {f[k] : k \in slots}
  <2>1. ASSUME NEW year \in years, NEW v \in FinalDispositions
        PROVE  draft(year, v) \in {f[k] : k \in slots}
    <3>1. <<<<year, None>>, v>> \in slots /\ f[<<<<year, None>>, v>>] = draft(year, v)
      OBVIOUS
    <3> QED
      BY <3>1
  <2>2. ASSUME NEW k \in slots
        PROVE  f[k] \in {draft(year, v) : year \in years, v \in FinalDispositions}
    OBVIOUS
  <2> HIDE DEF f, slots
  <2> QED
    BY <2>1, <2>2
<1>5. \A k \in slots : IsDraft(f[k]) /\ Slot(f[k]) = k
  BY <1>3
<1> HIDE DEF f, slots
<1> QED
  BY <1>1, <1>2, <1>4, <1>5, SlotsGiveDrafts

\* A median makes one draft for each slot.
LEMMA MedianSlots ==
  ASSUME NEW frame, FiniteFrame(frame), NEW def, def.population \in PlainPopulations, NEW subject
  PROVE  OnePerSlot(ComputeMedian(frame, def, subject).drafts)
<1> DEFINE at == PopulationRows(frame, def, subject)
           years == Periods(at, def.byYear)
           valued == {r \in DOMAIN at : Measure(def, r) # None}
           CategoryOf(r) == IF def.dimension = None THEN None ELSE LeadCategory(frame, r.case)
           draft(year, category) ==
             MedianDraft(def, subject, year, category, {r \in RowsOf(at, year) : CategoryOf(r) = category})
           present(year) == IF def.dimension = None THEN {None}
                            ELSE {CategoryOf(r) : r \in RowsOf(at, year) \cap valued}
           category == [r \in DOMAIN at |-> CategoryOf(r)]
           every == {None} \cup {category[r] : r \in DOMAIN at}
           slots == {k \in (years \X {None}) \X every : k[2] \in present(k[1][1])}
           f == [k \in slots |-> draft(k[1][1], k[2])]
<1>1. IsFiniteSet(DOMAIN at) /\ IsFiniteSet(years) /\ IsFiniteSet({None})
  BY PopulationFinite, PeriodsFinite, FS_Singleton
<1>2. \A year : present(year) \subseteq every
  BY DEF RowsOf
<1>3. ComputeMedian(frame, def, subject).drafts = UNION {{draft(year, c) : c \in present(year)} : year \in years}
  BY DEF ComputeMedian
<1>4. \A year, c : IsDraft(draft(year, c)) /\ Slot(draft(year, c)) = <<<<year, None>>, c>>
  BY DraftInSlot DEF MedianDraft
<1> HIDE DEF at, draft, present, category
<1>5. IsFiniteSet(every)
  <2>1. IsFiniteSet({category[r] : r \in DOMAIN at})
    BY <1>1, ImageFinite
  <2> QED
    BY <1>1, <2>1, FS_Union
<1> HIDE DEF years, every
<1>6. IsFiniteSet(slots)
  <2>1. IsFiniteSet((years \X {None}) \X every)
    BY <1>1, <1>5, FS_Product
  <2> QED
    BY <2>1, SubFinite
<1>7. UNION {{draft(year, c) : c \in present(year)} : year \in years} = {f[k] : k \in slots}
  <2>1. ASSUME NEW year \in years, NEW c \in present(year)
        PROVE  draft(year, c) \in {f[k] : k \in slots}
    <3> DEFINE k == <<<<year, None>>, c>>
    <3>1. k \in slots /\ f[k] = draft(year, c)
      BY <1>2
    <3> HIDE DEF k, f, slots
    <3> QED
      BY <3>1
  <2>2. ASSUME NEW k \in slots
        PROVE  f[k] \in UNION {{draft(year, c) : c \in present(year)} : year \in years}
    <3>1. k[1][1] \in years /\ k[2] \in present(k[1][1]) /\ f[k] = draft(k[1][1], k[2])
      OBVIOUS
    <3>2. f[k] \in {draft(k[1][1], c) : c \in present(k[1][1])}
      BY <3>1
    <3> HIDE DEF f, slots
    <3> QED
      BY <3>1, <3>2
  <2> HIDE DEF f, slots
  <2> QED
    BY <2>1, <2>2
<1>8. \A k \in slots : IsDraft(f[k]) /\ Slot(f[k]) = k
  BY <1>4
<1> HIDE DEF f, slots
<1> QED
  BY <1>3, <1>6, <1>7, <1>8, SlotsGiveDrafts

\* Whatever the kind of its definition, a metric makes one draft for each slot.
LEMMA MetricSlots ==
  ASSUME NEW frame, FiniteFrame(frame), NEW def \in Definitions, def.kind \in DescriptiveKinds, NEW subject
  PROVE  OnePerSlot(ComputeMetric(frame, def, subject).drafts)
<1>1. /\ IsFiniteSet(def.windows)
      /\ IF def.kind \in {"windowed_rate", "survival"} THEN def.index \in IndexKinds
         ELSE def.population \in PlainPopulations
  BY DefinitionsSound DEF Unambiguous, Defined, WindowedKinds
<1>2. OnePerSlot(Nothing.drafts)
  BY FS_EmptySet DEF OnePerSlot, Nothing
<1>3. CASE def.kind \in {"count", "share"}
  BY <1>1, <1>2, <1>3, CountSlots DEF ComputeMetric
<1>4. CASE def.kind \in {"windowed_rate", "survival"}
  BY <1>1, <1>2, <1>4, WindowSlots DEF ComputeMetric
<1>5. CASE def.kind = "distribution"
  BY <1>1, <1>2, <1>5, DistributionSlots DEF ComputeMetric
<1>6. CASE def.kind = "median"
  BY <1>1, <1>2, <1>6, MedianSlots DEF ComputeMetric
<1> QED
  BY <1>3, <1>4, <1>5, <1>6 DEF DescriptiveKinds
-----------------------------------------------------------------------------
(* The observations of all figures.                                        *)

\* A finite frame has finitely many subjects.
LEMMA SubjectsFinite ==
  ASSUME NEW frame, FiniteFrame(frame)
  PROVE  IsFiniteSet(SubjectsOf(frame))
<1> DEFINE naming == frame.assignments \cup frame.decisions \cup frame.sentences \cup frame.charges
           named == {x \in naming : x.judge # None}
           f == [r \in named |-> Subject("judge", r.judge)]
           g == [c \in frame.cases |-> Subject("court", c.court)]
<1>1. IsFiniteSet(naming) /\ named \subseteq naming
  BY FS_Union DEF FiniteFrame
<1>2. SubjectsOf(frame) = {f[r] : r \in named} \cup {g[c] : c \in frame.cases}
  BY DEF SubjectsOf
<1> HIDE DEF f, g, named, naming
<1>3. IsFiniteSet({f[r] : r \in named}) /\ IsFiniteSet({g[c] : c \in frame.cases})
  BY <1>1, SubFinite, ImageFinite DEF FiniteFrame
<1> QED
  BY <1>2, <1>3, FS_Union

\* What is computed: for finitely many sources, subjects and definitions, one draft a slot.
LEMMA ComputedSlots ==
  ASSUME NEW all, IsFiniteSet(all), NEW into
  PROVE  LET made == ComputeAll(all, into, Definitions)
         IN /\ IsFiniteSet(DOMAIN made)
            /\ \A s \in DOMAIN made : IsFiniteSet(DOMAIN made[s])
            /\ \A s \in DOMAIN made : \A j \in DOMAIN made[s] :
                 /\ IsFiniteSet(DOMAIN made[s][j])
                 /\ \A def \in DOMAIN made[s][j] : OnePerSlot(made[s][j][def].drafts)
<1> DEFINE made == ComputeAll(all, into, Definitions)
           some == {d \in Definitions : d.kind \in DescriptiveKinds}
<1>1. IsFiniteSet(DOMAIN made)
  <2> DEFINE f == [c \in all |-> c.source]
  <2>1. DOMAIN made = ComputedSources(all)
    BY DEF ComputeAll
  <2>2. ComputedSources(all) \subseteq {f[c] : c \in all}
    BY DEF ComputedSources, Table
  <2> HIDE DEF f, made
  <2>3. IsFiniteSet({f[c] : c \in all})
    BY ImageFinite
  <2> QED
    BY <2>1, <2>2, <2>3, SubFinite
<1>2. ASSUME NEW s \in DOMAIN made
      PROVE  /\ IsFiniteSet(DOMAIN made[s])
             /\ \A j \in DOMAIN made[s] :
                  /\ IsFiniteSet(DOMAIN made[s][j])
                  /\ \A def \in DOMAIN made[s][j] : OnePerSlot(made[s][j][def].drafts)
  <2> DEFINE frame == Frame(all, into, s)
  <2>1. made[s] = [subject \in SubjectsOf(frame) |-> Descriptive(frame, Definitions, subject)]
    BY DEF ComputeAll
  <2>2. FiniteFrame(frame)
    BY FrameFinite
  <2> HIDE DEF frame, made
  <2>3. IsFiniteSet(DOMAIN made[s])
    BY <2>1, <2>2, SubjectsFinite
  <2>4. ASSUME NEW j \in DOMAIN made[s]
        PROVE  /\ IsFiniteSet(DOMAIN made[s][j])
               /\ \A def \in DOMAIN made[s][j] : OnePerSlot(made[s][j][def].drafts)
    <3> DEFINE mine == {d \in Definitions : j.type \in d.subjects /\ d.kind \in DescriptiveKinds}
    <3>1. made[s][j] = [def \in mine |-> ComputeMetric(frame, def, j)]
      BY <2>1 DEF Descriptive
    <3>2. IsFiniteSet(mine)
      BY DefinitionsSound, SubFinite DEF Unambiguous
    <3>3. \A def \in mine : OnePerSlot(ComputeMetric(frame, def, j).drafts)
      BY <2>2, MetricSlots
    <3> HIDE DEF mine
    <3> QED
      BY <3>1, <3>2, <3>3
  <2> QED
    BY <2>3, <2>4
<1> QED
  BY <1>1, <1>2

OneRowPerSlot(all) ==
  /\ IsFiniteSet(all)
  /\ \A o \in all : o = Observation(o.source, o.subject, o.def, o.draft) /\ IsDraft(o.draft)
  /\ \A o, p \in all :
       o.source = p.source /\ o.subject = p.subject /\ o.def = p.def /\ Slot(o.draft) = Slot(p.draft) => o = p

\* Of one source, subject and definition, no two observations share a slot.
LEMMA ObservationSlots ==
  ASSUME IsFiniteSet(rows), figures = ComputeAll(rows, merged, Definitions)
  PROVE  OneRowPerSlot(Observations)
<1>1. /\ IsFiniteSet(DOMAIN figures)
      /\ \A s \in DOMAIN figures : IsFiniteSet(DOMAIN figures[s])
      /\ \A s \in DOMAIN figures : \A j \in DOMAIN figures[s] :
           /\ IsFiniteSet(DOMAIN figures[s][j])
           /\ \A def \in DOMAIN figures[s][j] : OnePerSlot(figures[s][j][def].drafts)
  BY ComputedSlots
<1>2. \A o \in Observations :
        \E s \in DOMAIN figures : \E j \in DOMAIN figures[s] : \E def \in DOMAIN figures[s][j] :
          \E d \in figures[s][j][def].drafts : o = Observation(s, j, def, d)
  BY DEF Observations, ObservationsOf
<1>3. \A o \in Observations :
        /\ o = Observation(o.source, o.subject, o.def, o.draft)
        /\ o.source \in DOMAIN figures /\ o.subject \in DOMAIN figures[o.source]
        /\ o.def \in DOMAIN figures[o.source][o.subject]
        /\ o.draft \in figures[o.source][o.subject][o.def].drafts
  BY <1>2 DEF Observation
<1>4. \A o \in Observations : IsDraft(o.draft)
  BY <1>1, <1>3 DEF OnePerSlot
<1>5. ASSUME NEW o \in Observations, NEW p \in Observations, o.source = p.source, o.subject = p.subject,
             o.def = p.def, Slot(o.draft) = Slot(p.draft)
      PROVE  o = p
  <2>1. o.draft = p.draft
    BY <1>1, <1>3, <1>5 DEF OnePerSlot
  <2> QED
    BY <1>3, <1>5, <2>1
<1>6. IsFiniteSet(Observations)
  <2>1. ASSUME NEW s \in DOMAIN figures, NEW j \in DOMAIN figures[s]
        PROVE  IsFiniteSet(ObservationsOf(s, j))
    <3> DEFINE Made(def) == {Observation(s, j, def, d) : d \in figures[s][j][def].drafts}
               g == [def \in DOMAIN figures[s][j] |-> Made(def)]
    <3>1. ASSUME NEW def \in DOMAIN figures[s][j] PROVE IsFiniteSet(g[def])
      <4> DEFINE f == [d \in figures[s][j][def].drafts |-> Observation(s, j, def, d)]
      <4>1. IsFiniteSet(figures[s][j][def].drafts)
        BY <1>1 DEF OnePerSlot
      <4>2. g[def] = {f[d] : d \in figures[s][j][def].drafts}
        OBVIOUS
      <4> HIDE DEF f, g
      <4> QED
        BY <4>1, <4>2, ImageFinite
    <3>2. ObservationsOf(s, j) = UNION {g[def] : def \in DOMAIN figures[s][j]}
      BY DEF ObservationsOf
    <3> HIDE DEF g
    <3>3. IsFiniteSet({g[def] : def \in DOMAIN figures[s][j]})
      BY <1>1, ImageFinite
    <3> QED
      BY <3>1, <3>2, <3>3, FS_UNION
  <2>2. ASSUME NEW s \in DOMAIN figures
        PROVE  IsFiniteSet(UNION {ObservationsOf(s, j) : j \in DOMAIN figures[s]})
    <3> DEFINE g == [j \in DOMAIN figures[s] |-> ObservationsOf(s, j)]
    <3>1. {ObservationsOf(s, j) : j \in DOMAIN figures[s]} = {g[j] : j \in DOMAIN figures[s]}
      OBVIOUS
    <3>2. \A j \in DOMAIN figures[s] : IsFiniteSet(g[j])
      BY <2>1
    <3> HIDE DEF g
    <3>3. IsFiniteSet({g[j] : j \in DOMAIN figures[s]})
      BY <1>1, ImageFinite
    <3> QED
      BY <3>1, <3>2, <3>3, FS_UNION
  <2> DEFINE h == [s \in DOMAIN figures |-> UNION {ObservationsOf(s, j) : j \in DOMAIN figures[s]}]
  <2>3. Observations = UNION {h[s] : s \in DOMAIN figures}
    BY DEF Observations
  <2>4. \A s \in DOMAIN figures : IsFiniteSet(h[s])
    BY <2>2
  <2> HIDE DEF h
  <2>5. IsFiniteSet({h[s] : s \in DOMAIN figures})
    BY <1>1, ImageFinite
  <2> QED
    BY <2>3, <2>4, <2>5, FS_UNION
<1> QED
  BY <1>3, <1>4, <1>5, <1>6 DEF OneRowPerSlot

-----------------------------------------------------------------------------
(* What a response withholds.                                              *)

\* The other figures change nothing that a response shows or is made by.
LEMMA OtherRow ==
  ASSUME NEW o, o = Observation(o.source, o.subject, o.def, o.draft), IsDraft(o.draft)
  PROVE  /\ OtherFigures(o).source = o.source /\ OtherFigures(o).subject = o.subject
         /\ OtherFigures(o).def = o.def
         /\ OtherFigures(o).draft.year = o.draft.year /\ OtherFigures(o).draft.window = o.draft.window
         /\ OtherFigures(o).draft.dimension = o.draft.dimension
         /\ OtherFigures(o).draft.eligible = o.draft.eligible
         /\ OtherFigures(o).draft.suppressed = o.draft.suppressed
         /\ o.draft.suppressed = None => OtherFigures(o) = o
<1>1. CASE o.draft.suppressed = None
  BY <1>1 DEF OtherFigures
<1>2. CASE o.draft.suppressed # None
  <2> DEFINE d == o.draft
             e == [slug |-> d.slug, subject |-> d.subject, year |-> d.year, window |-> d.window,
                   dimension |-> d.dimension, eligible |-> d.eligible, cohort |-> 0,
                   observed |-> 0, value |-> None, suppressed |-> d.suppressed]
             p == [source |-> o.source, subject |-> o.subject, def |-> o.def, draft |-> e]
  <2>1. o = [source |-> o.source, subject |-> o.subject, def |-> o.def, draft |-> d]
    BY DEF Observation
  <2>2. DOMAIN d = {"slug", "subject", "year", "window", "dimension", "eligible", "cohort",
                    "observed", "value", "suppressed"}
    BY DEF IsDraft
  <2>3. OtherFigures(o) = p
    BY <1>2, <2>1, <2>2 DEF OtherFigures, IsDraft
  <2> QED
    BY <1>2, <2>3
<1> QED
  BY <1>1, <1>2
Others(some) == {OtherFigures(o) : o \in some}

\* What the API serves of a row, its period and its documents do not depend on what the row withholds.
LEMMA ServedSame ==
  ASSUME NEW o, o = Observation(o.source, o.subject, o.def, o.draft), IsDraft(o.draft)
  PROVE  /\ Served(OtherFigures(o)) = Served(o)
         /\ Period(OtherFigures(o)) = Period(o) /\ Documents(OtherFigures(o)) = Documents(o)
<1> DEFINE p == OtherFigures(o)
<1>1. /\ p.source = o.source /\ p.subject = o.subject /\ p.def = o.def
      /\ p.draft.year = o.draft.year /\ p.draft.window = o.draft.window
      /\ p.draft.dimension = o.draft.dimension /\ p.draft.eligible = o.draft.eligible
      /\ p.draft.suppressed = o.draft.suppressed
      /\ o.draft.suppressed = None => p = o
  BY OtherRow
<1> HIDE DEF p
<1>2. Period(p) = Period(o) /\ Documents(p) = Documents(o)
  BY <1>1 DEF Period, Documents
<1>3. Served(p) = Served(o)
  <2>1. CASE o.draft.suppressed = None
    BY <1>1, <2>1
  <2>2. CASE o.draft.suppressed # None
    BY <1>1, <1>2, <2>2 DEF Served
  <2> QED
    BY <2>1, <2>2
<1> QED
  BY <1>2, <1>3 DEF p

\* Nor does the order of two rows of a comparison.
LEMMA OrderSame ==
  ASSUME NEW all, OneRowPerSlot(all), NEW o \in all, NEW p \in all, NEW q
  PROVE  RowBefore(OtherFigures(o), OtherFigures(p), q) <=> RowBefore(o, p, q)
<1>1. ASSUME NEW x \in all
      PROVE  /\ SortFigure(OtherFigures(x), q.sort) = SortFigure(x, q.sort)
             /\ TieBreak(OtherFigures(x)) = TieBreak(x)
  <2> DEFINE y == OtherFigures(x)
  <2>1. /\ y.subject = x.subject /\ y.draft.dimension = x.draft.dimension
        /\ y.draft.suppressed = x.draft.suppressed
        /\ x.draft.suppressed = None => y = x
    BY OtherRow DEF OneRowPerSlot
  <2> HIDE DEF y
  <2>2. TieBreak(y) = TieBreak(x)
    BY <2>1 DEF TieBreak
  <2>3. SortFigure(y, q.sort) = SortFigure(x, q.sort)
    <3>1. CASE x.draft.suppressed = None
      BY <2>1, <3>1
    <3>2. CASE x.draft.suppressed # None /\ q.sort # "name"
      BY <2>1, <3>2 DEF SortFigure
    <3>3. CASE q.sort = "name"
      BY <2>1, <3>3 DEF SortFigure, StoredFigure
    <3> QED
      BY <3>1, <3>2, <3>3
  <2> QED
    BY <2>2, <2>3 DEF y
<1>2. /\ SortFigure(OtherFigures(o), q.sort) = SortFigure(o, q.sort) /\ TieBreak(OtherFigures(o)) = TieBreak(o)
      /\ SortFigure(OtherFigures(p), q.sort) = SortFigure(p, q.sort) /\ TieBreak(OtherFigures(p)) = TieBreak(p)
  BY <1>1
<1> QED
  BY <1>2 DEF RowBefore

\* No two rows become one: a draft stands for its slot.
LEMMA OthersSize ==
  ASSUME NEW all, OneRowPerSlot(all), NEW some, some \subseteq all
  PROVE  Cardinality(Others(some)) = Cardinality(some)
<1> DEFINE f == [o \in some |-> OtherFigures(o)]
<1>1. IsFiniteSet(some)
  BY SubFinite DEF OneRowPerSlot
<1>2. ASSUME NEW o \in some, NEW p \in some, f[o] = f[p] PROVE o = p
  <2>1. /\ OtherFigures(o).source = o.source /\ OtherFigures(o).subject = o.subject
        /\ OtherFigures(o).def = o.def /\ Slot(OtherFigures(o).draft) = Slot(o.draft)
    BY OtherRow DEF OneRowPerSlot, Slot
  <2>2. /\ OtherFigures(p).source = p.source /\ OtherFigures(p).subject = p.subject
        /\ OtherFigures(p).def = p.def /\ Slot(OtherFigures(p).draft) = Slot(p.draft)
    BY OtherRow DEF OneRowPerSlot, Slot
  <2>3. OtherFigures(o) = OtherFigures(p)
    BY <1>2
  <2> QED
    BY <2>1, <2>2, <2>3 DEF OneRowPerSlot
<1>3. Others(some) = {f[o] : o \in some}
  BY DEF Others
<1> HIDE DEF f
<1> QED
  BY <1>1, <1>2, <1>3, ImageSize

\* The rows of a comparison, their places, the page and its reference, one by one.
LEMMA CohortSame ==
  ASSUME NEW all, OneRowPerSlot(all), NEW q
  PROVE  CohortRows(Others(all), q) = Others(CohortRows(all, q))
<1> DEFINE In(o) == /\ o.def.slug = q.slug /\ o.draft.window = q.window
                    /\ o.subject.type = "judge" /\ Serving(q, o.subject.id) # {}
                    /\ q.start # None => Period(o)[1] = q.start
                    /\ q.end # None => Period(o)[2] = q.end
                    /\ q.start = None /\ q.end = None => o.draft.year = None
<1>1. ASSUME NEW o \in all PROVE In(OtherFigures(o)) <=> In(o)
  <2>1. /\ OtherFigures(o).subject = o.subject /\ OtherFigures(o).def = o.def
        /\ OtherFigures(o).draft.year = o.draft.year /\ OtherFigures(o).draft.window = o.draft.window
    BY OtherRow DEF OneRowPerSlot
  <2>2. Period(OtherFigures(o)) = Period(o)
    BY ServedSame DEF OneRowPerSlot
  <2> QED
    BY <2>1, <2>2
<1>2. \A some : CohortRows(some, q) = {o \in some : In(o)}
  BY DEF CohortRows
<1> HIDE DEF In
<1> QED
  BY <1>1, <1>2 DEF Others

\* Nor does the place of a row in a comparison.
LEMMA PositionSame ==
  ASSUME NEW all, OneRowPerSlot(all), NEW some, some \subseteq all, NEW o \in some, NEW q
  PROVE  Position(Others(some), OtherFigures(o), q) = Position(some, o, q)
<1> DEFINE before == {p \in some : RowBefore(p, o, q)}
<1>1. \A p \in some : RowBefore(OtherFigures(p), OtherFigures(o), q) <=> RowBefore(p, o, q)
  BY OrderSame
<1>2. {p \in Others(some) : RowBefore(p, OtherFigures(o), q)} = Others(before)
  BY <1>1 DEF Others
<1>3. before \subseteq all
  OBVIOUS
<1>4. Cardinality(Others(before)) = Cardinality(before)
  <2> HIDE DEF before
  <2> QED
    BY <1>3, OthersSize
<1> QED
  BY <1>2, <1>4 DEF Position

\* Nor does the page a row is on.
LEMMA PageSame ==
  ASSUME NEW all, OneRowPerSlot(all), NEW some, some \subseteq all, NEW q, NEW offset
  PROVE  PageOf(Others(some), q, offset) = Others(PageOf(some, q, offset))
<1>1. \A o \in some : Position(Others(some), OtherFigures(o), q) = Position(some, o, q)
  BY PositionSame
<1> QED
  BY <1>1 DEF PageOf, Others

\* Nor does the reference period that most rows share.
LEMMA MostSharedSame ==
  ASSUME NEW all, OneRowPerSlot(all), NEW some, some \subseteq all
  PROVE  MostShared(Others(some)) = MostShared(some)
<1> DEFINE sharing(rs, p) == Cardinality({o \in rs : Period(o) = p})
           periods(rs) == {Period(o) : o \in rs}
           Best(ps, Size(_)) == CHOOSE p \in ps : \A r \in ps :
                                  \/ Size(p) > Size(r)
                                  \/ Size(p) = Size(r) /\ (p = r \/ Lexicographic(p, r))
<1>1. \A o \in some : Period(OtherFigures(o)) = Period(o)
  BY ServedSame DEF OneRowPerSlot
<1>2. periods(Others(some)) = periods(some)
  BY <1>1 DEF Others
<1>3. ASSUME NEW p PROVE sharing(Others(some), p) = sharing(some, p)
  <2> DEFINE of == {o \in some : Period(o) = p}
  <2>1. {o \in Others(some) : Period(o) = p} = Others(of)
    BY <1>1 DEF Others
  <2>2. of \subseteq all
    OBVIOUS
  <2>3. Cardinality(Others(of)) = Cardinality(of)
    <3> HIDE DEF of
    <3> QED
      BY <2>2, OthersSize
  <2> QED
    BY <2>1, <2>3
<1>4. \A rs : MostShared(rs) = CHOOSE p \in periods(rs) : \A r \in periods(rs) :
         \/ sharing(rs, p) > sharing(rs, r)
         \/ sharing(rs, p) = sharing(rs, r) /\ (p = r \/ Lexicographic(p, r))
  BY DEF MostShared
<1> HIDE DEF sharing, periods
<1> QED
  BY <1>2, <1>3, <1>4

\* A comparison answers alike whatever its suppressed rows withhold.
LEMMA CompareSame ==
  ASSUME NEW all, OneRowPerSlot(all), NEW q, NEW offset
  PROVE  Compare(Others(all), q, offset) = Compare(all, q, offset)
<1> DEFINE some == CohortRows(all, q)
           page == PageOf(some, q, offset)
           reference == ReferencePeriod(some, q, page)
           Item(rs, ref, o) == [at |-> Position(rs, o, q), row |-> Served(o),
                                court |-> CourtOf(q, o.subject.id), warnings |-> Warnings(o, ref)]
           Made(items, total, ref) ==
             [items |-> items, total |-> total, next |-> NextOffset(total, q, offset), reference |-> ref]
           Answer(rs) ==
             LET shown == PageOf(rs, q, offset)
                 ref == ReferencePeriod(rs, q, shown)
             IN Made({Item(rs, ref, o) : o \in shown}, Cardinality(rs), ref)
<1>1. \A rs : Compare(rs, q, offset) = IF ~Answerable(q) \/ ~KnownCohort(q) THEN None ELSE Answer(CohortRows(rs, q))
  BY DEF Compare
<1>2. some \subseteq all /\ page \subseteq some
  BY DEF CohortRows, PageOf
<1>3. CohortRows(Others(all), q) = Others(some)
  BY CohortSame
<1> HIDE DEF some
<1>4. PageOf(Others(some), q, offset) = Others(page)
  BY <1>2, PageSame
<1>5. Cardinality(Others(some)) = Cardinality(some)
  BY <1>2, OthersSize
<1> HIDE DEF page
<1>6. ReferencePeriod(Others(some), q, Others(page)) = reference
  <2>1. Others(page) = {} <=> page = {}
    BY DEF Others
  <2>2. MostShared(Others(some)) = MostShared(some)
    BY <1>2, MostSharedSame
  <2> QED
    BY <2>1, <2>2 DEF ReferencePeriod
<1> HIDE DEF reference
<1>7. ASSUME NEW o \in page
      PROVE  Item(Others(some), reference, OtherFigures(o)) = Item(some, reference, o)
  <2>1. o \in all /\ o \in some
    BY <1>2
  <2>2. /\ Served(OtherFigures(o)) = Served(o) /\ OtherFigures(o).subject = o.subject
        /\ Period(OtherFigures(o)) = Period(o) /\ Documents(OtherFigures(o)) = Documents(o)
    BY <2>1, ServedSame, OtherRow DEF OneRowPerSlot
  <2>3. Position(Others(some), OtherFigures(o), q) = Position(some, o, q)
    BY <1>2, <2>1, PositionSame
  <2>4. Warnings(OtherFigures(o), reference) = Warnings(o, reference)
    BY <2>2 DEF Warnings
  <2> QED
    BY <2>2, <2>3, <2>4
<1> HIDE DEF Item
<1>8. {Item(Others(some), reference, o) : o \in Others(page)} = {Item(some, reference, o) : o \in page}
  BY <1>7 DEF Others
<1> HIDE DEF Made
<1>9. Answer(Others(some)) = Made({Item(Others(some), reference, o) : o \in Others(page)}, Cardinality(some), reference)
  BY <1>4, <1>5, <1>6
<1>10. Answer(some) = Made({Item(some, reference, o) : o \in page}, Cardinality(some), reference)
  BY DEF page, reference
<1>11. Answer(Others(some)) = Answer(some)
  BY <1>8, <1>9, <1>10
<1> HIDE DEF Answer
<1> QED
  BY <1>1, <1>3, <1>11 DEF some

\* So do the metrics of a subject.
LEMMA MetricsSame ==
  ASSUME NEW all, OneRowPerSlot(all), NEW subject
  PROVE  SubjectMetrics(Others(all), subject) = SubjectMetrics(all, subject)
<1>1. ASSUME NEW o \in all
      PROVE  /\ Served(OtherFigures(o)) = Served(o)
             /\ OtherFigures(o).subject = o.subject /\ OtherFigures(o).draft.year = o.draft.year
  BY ServedSame, OtherRow DEF OneRowPerSlot
<1> QED
  BY <1>1 DEF SubjectMetrics, Others

RowsFinite == IsFiniteSet(rows)

\* The first state has finitely many rows.
LEMMA RowsFiniteStart == Init => RowsFinite
  BY FS_EmptySet DEF Init, RowsFinite

\* Publishing a finite batch and merging a person keep the rows finitely many.
LEMMA RowsFiniteStep == RowsFinite /\ [Next]_vars => RowsFinite'
<1> SUFFICES ASSUME RowsFinite, [Next]_vars PROVE RowsFinite'
  OBVIOUS
<1>1. ASSUME NEW batch \in Batches, NEW stale \in BOOLEAN, Publish(batch, stale) PROVE RowsFinite'
  <2> DEFINE Put(r) == IF r.table \in PersonTables /\ ~stale THEN [r EXCEPT !.person = Survivor(merged, @)] ELSE r
             f == [r \in batch |-> Put(r)]
  <2>1. Published(batch, stale) = {f[r] : r \in batch}
    BY DEF Published
  <2> HIDE DEF f
  <2>2. IsFiniteSet(batch)
    BY BatchesAssumption
  <2>3. IsFiniteSet(Published(batch, stale))
    BY <2>1, <2>2, ImageFinite
  <2> DEFINE kept == {r \in rows : \A d \in Published(batch, stale) : ~SameRow(r, d)}
  <2>4. rows' = kept \cup Published(batch, stale)
    BY <1>1 DEF Publish, WriteRows, Upsert
  <2>5. IsFiniteSet(kept)
    BY SubFinite DEF RowsFinite
  <2> HIDE DEF kept
  <2> QED
    BY <2>3, <2>4, <2>5, FS_Union DEF RowsFinite
<1>2. ASSUME NEW keep \in Persons, NEW drop \in Persons, MergePersons(keep, drop) PROVE RowsFinite'
  <2> DEFINE f == [r \in rows |-> IF r.table \in PersonTables /\ r.person = drop
                                  THEN [r EXCEPT !.person = keep] ELSE r]
  <2>1. rows' = {f[r] : r \in rows}
    BY <1>2 DEF MergePersons, Repointed
  <2> HIDE DEF f
  <2> QED
    BY <2>1, ImageFinite DEF RowsFinite
<1>3. CASE UNCHANGED vars
  BY <1>3 DEF vars, RowsFinite
<1> QED
  BY <1>1, <1>2, <1>3 DEF Next

\* Every state of the published rows has finitely many of them (case rows are
\* written a batch at a time and never without end), so every figure is one of finitely many.
THEOREM FinitelyManyRows == Spec => []RowsFinite
BY RowsFiniteStart, RowsFiniteStep, PTL DEF Spec

\* What is withheld of a suppressed row shows in no list of rows, of any subject and to any
\* comparison: neither in it, nor in where it stands, nor in its page.
THEOREM ListsNeverTell == Spec => []ListsTellNothing
<1>1. FiguresInv /\ RowsFinite => ListsTellNothing
  <2> SUFFICES ASSUME FiguresInv, RowsFinite PROVE ListsTellNothing
    OBVIOUS
  <2>1. OneRowPerSlot(Observations)
    BY ObservationSlots DEF FiguresInv, RowsFinite
  <2>2. \A j : SubjectMetrics(Others(Observations), j) = SubjectMetrics(Observations, j)
    BY <2>1, MetricsSame
  <2>3. \A q, n : Compare(Others(Observations), q, n) = Compare(Observations, q, n)
    BY <2>1, CompareSame
  <2> QED
    BY <2>2, <2>3 DEF ListsTellNothing, Others
<1> QED
  BY <1>1, FiguresInvariant, FinitelyManyRows, PTL

-----------------------------------------------------------------------------
(* Coverage statistics.                                                    *)

\* A statistic counts some of the rows that it is about, and those are finitely many.
LEMMA StatisticCounts ==
  ASSUME NEW frame, FiniteFrame(frame), NEW cases \in SUBSET frame.cases,
         NEW name \in DOMAIN Statistics(frame, cases)
  PROVE  /\ Statistics(frame, cases)[name][1] \subseteq Statistics(frame, cases)[name][2]
         /\ IsFiniteSet(Statistics(frame, cases)[name][2])
<1> DEFINE ids == {c.id : c \in cases}
           OfThem(some) == {r \in some : r.case \in ids}
           charged == {c \in cases : ChargesOf(frame, c) # {}}
           records == cases \cup OfThem(Judged(frame))
           decided == OfThem(frame.decisions)
           final == OfThem(DisposedCharges(frame))
           judged == {c \in cases : IdentifiedJudge(frame, c)}
           disposed == {c \in cases : c.id \in {k.id : k \in DisposedCases(frame)}}
           resolved == {c \in cases : ResolvedPerson(frame, c)}
           followed == {c \in cases : AdequatelyFollowed(frame, c)}
           classified == {c \in charged : \A h \in ChargesOf(frame, c) : Classified(h)}
           unknown == {d \in decided : d.actor = Unknown} \cup {h \in final : h.actor \in {None, Unknown}}
           about == decided \cup final
           all == Statistics(frame, cases)
           Counts(pair) == pair[1] \subseteq pair[2] /\ IsFiniteSet(pair[2])
<1>1. \A some, whole : some \subseteq whole /\ IsFiniteSet(whole) => Counts(<<some, whole>>)
  OBVIOUS
<1>2. IsFiniteSet(cases) /\ IsFiniteSet(charged)
  BY SubFinite DEF FiniteFrame
<1>3. IsFiniteSet(records)
  <2>1. IsFiniteSet(Judged(frame))
    BY FS_Union DEF FiniteFrame, Judged
  <2> QED
    BY <1>2, <2>1, SubFinite, FS_Union
<1>4. IsFiniteSet(about)
  <2>1. IsFiniteSet(decided)
    BY SubFinite DEF FiniteFrame
  <2>2. IsFiniteSet(final)
    BY CasesFinite, SubFinite
  <2> QED
    BY <2>1, <2>2, FS_Union
<1>5. all = [cases_with_identified_judge |-> <<judged, cases>>,
             cases_with_final_disposition |-> <<disposed, cases>>,
             cases_with_person_resolution |-> <<resolved, cases>>,
             cases_with_adequate_follow_up |-> <<followed, cases>>,
             cases_with_complete_charge_classification |-> <<classified, charged>>,
             records_with_provenance |-> <<records, records>>,
             unknown_actor_share |-> <<unknown, about>>]
  BY DEF Statistics
<1>6. /\ judged \subseteq cases /\ disposed \subseteq cases /\ resolved \subseteq cases
      /\ followed \subseteq cases /\ classified \subseteq charged /\ unknown \subseteq about
  OBVIOUS
<1> HIDE DEF Counts, all, charged, records, decided, final, judged, disposed, resolved, followed, classified,
             unknown, about
<1>7. /\ Counts(<<judged, cases>>) /\ Counts(<<disposed, cases>>) /\ Counts(<<resolved, cases>>)
      /\ Counts(<<followed, cases>>) /\ Counts(<<classified, charged>>) /\ Counts(<<records, records>>)
      /\ Counts(<<unknown, about>>)
  BY <1>1, <1>2, <1>3, <1>4, <1>6
<1>8. Counts(all[name])
  <2>1. name \in DOMAIN all
    BY DEF all
  <2> QED
    BY <1>5, <1>7, <2>1
<1> QED
  BY <1>8 DEF Counts, all

\* The statistics of a frame: one for each scope and name, none above what it is about.
LEMMA FrameStatisticsFit ==
  ASSUME NEW frame, FiniteFrame(frame)
  PROVE  \A r \in FrameStatistics(frame) :
           /\ r.source = frame.source /\ r.numerator <= r.denominator
           /\ \A s \in FrameStatistics(frame) : SameStatistic(r, s) => r = s
<1> DEFINE all(scope) == Statistics(frame, CasesIn(frame, scope))
           row(scope, name) ==
             [source |-> frame.source, scope |-> scope, statistic |-> name,
              numerator |-> Cardinality(all(scope)[name][1]), denominator |-> Cardinality(all(scope)[name][2])]
<1>1. \A r \in FrameStatistics(frame) : \E scope : \E name \in DOMAIN all(scope) : r = row(scope, name)
  BY DEF FrameStatistics
<1>2. \A scope : \A name \in DOMAIN all(scope) : row(scope, name).numerator <= row(scope, name).denominator
  <2> SUFFICES ASSUME NEW scope, NEW name \in DOMAIN all(scope)
               PROVE  Cardinality(all(scope)[name][1]) <= Cardinality(all(scope)[name][2])
    OBVIOUS
  <2>1. CasesIn(frame, scope) \in SUBSET frame.cases
    BY DEF CasesIn
  <2>2. all(scope)[name][1] \subseteq all(scope)[name][2] /\ IsFiniteSet(all(scope)[name][2])
    BY <2>1, StatisticCounts
  <2> QED
    BY <2>2, FS_Subset
<1>3. \A scope, name : /\ row(scope, name).source = frame.source
                       /\ row(scope, name).scope = scope /\ row(scope, name).statistic = name
  OBVIOUS
<1> HIDE DEF row, all
<1> QED
  BY <1>1, <1>2, <1>3 DEF SameStatistic

\* However often the statistics of a snapshot are published, those of the others stay, and
\* a second publication of the same writes nothing; where none but these are stored of the
\* snapshot, metrics verify finds no difference (publish_statistics, compare_statistics).
THEOREM StatisticsVerify ==
  ASSUME NEW stored, NEW snapshot, NEW drafts, NEW methodology
  PROVE  LET published == PublishStatistics(stored, snapshot, drafts, methodology)
         IN /\ \A r \in stored : r.snapshot # snapshot => r \in published
            /\ StatisticsWritten(published, snapshot, drafts, methodology) = {}
            /\ PublishStatistics(published, snapshot, drafts, methodology) = published
            /\ (\A r \in stored : r.snapshot = snapshot => \E d \in drafts : SameStatistic(r.draft, d))
                 => CompareStatistics(published, snapshot, drafts) = {}
<1> DEFINE row(d) == StatisticRow(snapshot, d, methodology)
           published == PublishStatistics(stored, snapshot, drafts, methodology)
<1>1. \A d : row(d).snapshot = snapshot /\ row(d).draft = d
  BY DEF StatisticRow
<1>2. \A d : SameStatistic(d, d)
  BY DEF SameStatistic
<1>3. published = {r \in stored : r.snapshot # snapshot \/ \A d \in drafts : ~SameStatistic(r.draft, d)}
                  \cup {row(d) : d \in drafts}
  BY DEF PublishStatistics
<1>4. StatisticsWritten(published, snapshot, drafts, methodology) = {}
  BY <1>3 DEF StatisticsWritten
<1>5. PublishStatistics(published, snapshot, drafts, methodology) = published
  BY <1>1, <1>2, <1>3 DEF PublishStatistics
<1>6. ASSUME \A r \in stored : r.snapshot = snapshot => \E d \in drafts : SameStatistic(r.draft, d)
      PROVE  CompareStatistics(published, snapshot, drafts) = {}
  <2>1. {r.draft : r \in {x \in published : x.snapshot = snapshot}} = drafts
    BY <1>1, <1>3, <1>6
  <2> QED
    BY <1>2, <2>1 DEF CompareStatistics
<1> QED
  BY <1>3, <1>4, <1>5, <1>6

\* Figures and statistics tell no alias from its survivor; whatever gate attributes it and
\* whatever the registry says, no judge's figure counts a case that identifies no judge
\* (attribution.py; coverage.py: such a case "can enter only court-level metrics"); and the
\* coverage statistics can be stored (db/models/metrics.py).
THEOREM FramesAlwaysSound == Spec => []FramesSound
<1>1. FiguresInv /\ RowsFinite => OnlyIdentifiedCases
  <2> SUFFICES ASSUME FiguresInv, RowsFinite PROVE OnlyIdentifiedCases
    OBVIOUS
  <2> SUFFICES ASSUME NEW s \in ComputedSources(rows), NEW def \in Definitions,
                      NEW j \in SubjectsOf(Frame(rows, merged, s)), j.type = "judge"
               PROVE  CasesBehind(Frame(rows, merged, s), def, j) \subseteq Identified(Frame(rows, merged, s))
    BY DEF OnlyIdentifiedCases, Identified
  <2> DEFINE frame == Frame(rows, merged, s)
  <2>1. TypedFrame(frame)
    BY FrameTyped DEF FiguresInv, RowsFinite
  <2>2. IsJudge(j)
    BY DEF SubjectsOf, Subject, IsJudge
  <2>3. Defined(def) /\ def.kind \in DescriptiveKinds
    BY DefinitionsSound, DescriptiveDefinitions DEF Unambiguous
  <2> HIDE DEF frame
  <2>4. CASE def.kind \in WindowedKinds
    <3>1. \A m \in Cohort(frame, def, j) : m.case \in Identified(frame)
      BY <2>1, <2>2, <2>3, <2>4, CohortIdentified DEF Defined
    <3> QED
      BY <2>4, <3>1 DEF CasesBehind, frame
  <2>5. CASE def.kind \notin WindowedKinds
    <3>1. /\ def.population \in PlainPopulations
          /\ def.rule.gate = "disposing_judge" => def.population \in {"disposed_charges", "disposed_cases"}
      BY <2>3, <2>5 DEF Defined, PlainPopulations
    <3>2. \A r \in DOMAIN PopulationRows(frame, def, j) : r.case \in Identified(frame)
      BY <2>1, <2>2, <3>1, PopulationIdentified
    <3> QED
      BY <2>5, <3>2 DEF CasesBehind, frame
  <2> QED
    BY <2>4, <2>5
<1>2. RowsFinite => StatisticsFit
  <2> SUFFICES ASSUME RowsFinite,
                      NEW s \in ComputedSources(rows), NEW r \in FrameStatistics(Frame(rows, merged, s)),
                      NEW t \in ComputedSources(rows), NEW q \in FrameStatistics(Frame(rows, merged, t))
               PROVE  r.numerator <= r.denominator /\ (SameStatistic(r, q) => r = q)
    BY DEF StatisticsFit, ComputeStatistics
  <2>1. FiniteFrame(Frame(rows, merged, s)) /\ FiniteFrame(Frame(rows, merged, t))
    BY FrameFinite DEF RowsFinite
  <2>2. Frame(rows, merged, s).source = s /\ Frame(rows, merged, t).source = t
    BY DEF Frame
  <2>3. /\ r.source = s /\ r.numerator <= r.denominator /\ q.source = t
        /\ s = t /\ SameStatistic(r, q) => r = q
    BY <2>1, <2>2, FrameStatisticsFit
  <2> QED
    BY <2>3 DEF SameStatistic
<1> QED
  BY <1>1, <1>2, FiguresInvariant, FinitelyManyRows, AliasesNeverShow, PTL DEF FramesSound

-----------------------------------------------------------------------------
(* Ranks in a finite order, and pages of ranks.                            *)

StrictOrder(S, before) ==
  /\ \A x \in S : <<x, x>> \notin before
  /\ \A x, y, z \in S : <<x, y>> \in before /\ <<y, z>> \in before => <<x, z>> \in before
  /\ \A x, y \in S : x # y => <<x, y>> \in before \/ <<y, x>> \in before
PlaceOf(S, before, x) == Cardinality({y \in S : <<y, x>> \in before})

\* In a finite strict order the ranks are the numbers below its size, each once.
LEMMA RanksOnce ==
  ASSUME NEW S, IsFiniteSet(S), NEW before, StrictOrder(S, before)
  PROVE  /\ \A x \in S : PlaceOf(S, before, x) \in 0 .. Cardinality(S) - 1
         /\ \A x, y \in S : PlaceOf(S, before, x) = PlaceOf(S, before, y) => x = y
         /\ \A k \in 0 .. Cardinality(S) - 1 : \E x \in S : PlaceOf(S, before, x) = k
<1> DEFINE ahead(x) == {y \in S : <<y, x>> \in before}
           rank == [x \in S |-> PlaceOf(S, before, x)]
           n == Cardinality(S)
<1>1. n \in Nat
  BY FS_CardinalityType
<1>2. \A x \in S : IsFiniteSet(ahead(x)) /\ Cardinality(ahead(x)) \in Nat
  <2>1. \A x : ahead(x) \subseteq S
    OBVIOUS
  <2> HIDE DEF ahead
  <2> QED
    BY <2>1, SubFinite, FS_CardinalityType
<1>3. ASSUME NEW x \in S, NEW y \in S, <<x, y>> \in before
      PROVE  Cardinality(ahead(x)) < Cardinality(ahead(y))
  <2>1. ahead(x) \cup {x} \subseteq ahead(y) /\ x \notin ahead(x)
    BY <1>3 DEF StrictOrder
  <2> HIDE DEF ahead
  <2>2. Cardinality(ahead(x) \cup {x}) = Cardinality(ahead(x)) + 1
    BY <1>2, <2>1, FS_AddElement
  <2>3. Cardinality(ahead(x) \cup {x}) <= Cardinality(ahead(y))
    BY <1>2, <2>1, FS_Subset
  <2> QED
    BY <1>2, <2>2, <2>3
<1>4. ASSUME NEW x \in S PROVE Cardinality(ahead(x)) \in 0 .. n - 1
  <2>1. ahead(x) \subseteq S /\ x \notin ahead(x)
    BY DEF StrictOrder
  <2> HIDE DEF ahead
  <2>2. Cardinality(ahead(x)) <= n /\ (Cardinality(ahead(x)) = n => ahead(x) = S)
    BY <2>1, FS_Subset
  <2>3. Cardinality(ahead(x)) # n
    BY <2>1, <2>2
  <2> HIDE DEF n
  <2> QED
    BY <1>1, <1>2, <2>2, <2>3
<1>5. \A x \in S : rank[x] = Cardinality(ahead(x))
  BY DEF PlaceOf
<1> HIDE DEF ahead, rank
<1>6. \A x \in S : rank[x] \in 0 .. n - 1
  BY <1>4, <1>5
<1>7. \A x, y \in S : rank[x] = rank[y] => x = y
  <2> SUFFICES ASSUME NEW x \in S, NEW y \in S, x # y PROVE rank[x] # rank[y]
    OBVIOUS
  <2>1. <<x, y>> \in before \/ <<y, x>> \in before
    BY DEF StrictOrder
  <2> QED
    BY <1>2, <1>3, <1>5, <2>1
<1>8. \A k \in 0 .. n - 1 : \E x \in S : rank[x] = k
  <2> DEFINE T == {rank[x] : x \in S}
  <2>1. Cardinality(T) = n
    BY <1>7, ImageSize
  <2>2. T \subseteq 0 .. n - 1
    BY <1>6
  <2>3. IsFiniteSet(0 .. n - 1) /\ Cardinality(0 .. n - 1) = n
    <3>1. 0 \in Int /\ n - 1 \in Int
      BY <1>1
    <3> HIDE DEF n
    <3> QED
      BY <1>1, <3>1, FS_Interval
  <2>4. T = 0 .. n - 1
    <3> HIDE DEF T, n
    <3> QED
      BY <2>1, <2>2, <2>3, FS_Subset
  <2> QED
    BY <2>4
<1>9. \A x \in S : rank[x] = PlaceOf(S, before, x)
  BY DEF rank
<1> QED
  BY <1>6, <1>7, <1>8, <1>9

\* The members of a page by their ranks.
RankedFrom(S, rank, n, limit) == {x \in S : rank[x] \in n .. n + limit - 1}

\* As many rows are on a page as it has places, or as are left.
LEMMA PageSize ==
  ASSUME NEW S, IsFiniteSet(S), NEW rank,
         \A x \in S : rank[x] \in 0 .. Cardinality(S) - 1,
         \A x, y \in S : rank[x] = rank[y] => x = y,
         \A k \in 0 .. Cardinality(S) - 1 : \E x \in S : rank[x] = k,
         NEW n \in Nat, NEW limit \in Nat \ {0}, n = 0 \/ n < Cardinality(S)
  PROVE  Cardinality(RankedFrom(S, rank, n, limit)) =
           IF n + limit < Cardinality(S) THEN limit ELSE Cardinality(S) - n
<1> DEFINE total == Cardinality(S)
           page == {x \in S : rank[x] \in n .. n + limit - 1}
           last == IF n + limit < total THEN n + limit - 1 ELSE total - 1
<1>1. total \in Nat
  BY FS_CardinalityType
<1>2. IsFiniteSet(page)
  BY SubFinite
<1>3. {rank[x] : x \in page} = n .. last
  <2>1. ASSUME NEW x \in page PROVE rank[x] \in n .. last
    <3>1. rank[x] \in 0 .. total - 1 /\ rank[x] \in n .. n + limit - 1
      OBVIOUS
    <3> HIDE DEF total, page
    <3> QED
      BY <1>1, <3>1
  <2>2. ASSUME NEW k \in n .. last PROVE \E x \in page : rank[x] = k
    <3>1. k \in 0 .. total - 1 /\ k \in n .. n + limit - 1
      <4> HIDE DEF total, page
      <4> QED
        BY <1>1
    <3> QED
      BY <3>1
  <2> HIDE DEF page, last
  <2> QED
    BY <2>1, <2>2
<1>4. Cardinality(page) = Cardinality(n .. last)
  <2>1. Cardinality({rank[x] : x \in page}) = Cardinality(page)
    <3>1. \A x, y \in page : rank[x] = rank[y] => x = y
      OBVIOUS
    <3> HIDE DEF page
    <3> QED
      BY <1>2, <3>1, ImageSize
  <2> QED
    BY <1>3, <2>1
<1> HIDE DEF total, page
<1>5. n \in Int /\ last \in Int
  BY <1>1
<1>6. Cardinality(n .. last) = IF n > last THEN 0 ELSE last - n + 1
  <2> HIDE DEF last
  <2> QED
    BY <1>5, FS_Interval
<1>7. Cardinality(page) = IF n + limit < total THEN limit ELSE total - n
  BY <1>1, <1>4, <1>6 DEF total
<1> QED
  BY <1>7 DEF page, total, RankedFrom

\* Multiples of a limit that are at most a number and whose successor is above it.
LEMMA PageNumber ==
  ASSUME NEW p \in Nat, NEW limit \in Nat \ {0}
  PROVE  \E k \in Nat : /\ k <= p /\ p \in k * limit .. k * limit + limit - 1
                        /\ \A j \in Nat : p \in j * limit .. j * limit + limit - 1 => j = k
<1> DEFINE k == p \div limit
<1>1. k \in Nat /\ k * limit <= p /\ p < k * limit + limit
  OBVIOUS
<1> HIDE DEF k
<1>2. \A i, j \in Nat : i < j => i * limit + limit <= j * limit
  <2> SUFFICES ASSUME NEW i \in Nat, NEW j \in Nat, i < j PROVE i * limit + limit <= j * limit
    OBVIOUS
  <2>1. j - i - 1 \in Nat
    OBVIOUS
  <2>2. (j - i - 1) * limit >= 0
    BY <2>1
  <2>3. (j - i - 1) * limit = j * limit - i * limit - limit
    OBVIOUS
  <2>4. j * limit \in Int /\ i * limit \in Int
    OBVIOUS
  <2> QED
    BY <2>2, <2>3, <2>4
<1>3. \A j \in Nat : j * limit \in Nat
  OBVIOUS
<1>4. k <= p
  BY <1>1, <1>3
<1>5. ASSUME NEW j \in Nat, p \in j * limit .. j * limit + limit - 1 PROVE j = k
  <2>1. j * limit <= p /\ p < j * limit + limit
    BY <1>3, <1>5
  <2>2. ~(j < k) /\ ~(k < j)
    BY <1>1, <1>2, <1>3, <2>1
  <2> QED
    BY <1>1, <2>2
<1>6. p \in k * limit .. k * limit + limit - 1
  BY <1>1, <1>3
<1> QED
  BY <1>1, <1>4, <1>5, <1>6

-----------------------------------------------------------------------------
(* The order of the rows of a comparison.                                  *)

Fractions == Int \X (Nat \ {0})

\* A product with a positive number keeps an order.
LEMMA Scaled ==
  ASSUME NEW u \in Int, NEW v \in Int, NEW b \in Nat \ {0}
  PROVE  u < v <=> u * b < v * b
<1>1. ASSUME NEW x \in Int, NEW y \in Int, x < y PROVE x * b < y * b
  <2>1. y - x - 1 \in Nat
    BY <1>1
  <2>2. (y - x - 1) * b >= 0
    BY <2>1
  <2>3. (y - x - 1) * b = y * b - x * b - b
    OBVIOUS
  <2>4. x * b \in Int /\ y * b \in Int
    OBVIOUS
  <2> QED
    BY <2>2, <2>3, <2>4
<1>2. u * b \in Int /\ v * b \in Int
  OBVIOUS
<1> QED
  BY <1>1, <1>2

\* Of fractions, what is not before a second that is not before a third is not before it.
LEMMA CrossMultiplied ==
  ASSUME NEW a \in Fractions, NEW b \in Fractions, NEW c \in Fractions,
         a[1] * c[2] < c[1] * a[2]
  PROVE  a[1] * b[2] < b[1] * a[2] \/ b[1] * c[2] < c[1] * b[2]
<1>1. /\ a[1] \in Int /\ b[1] \in Int /\ c[1] \in Int
      /\ a[2] \in Nat \ {0} /\ b[2] \in Nat \ {0} /\ c[2] \in Nat \ {0}
  BY DEF Fractions
<1>2. ASSUME NEW x1 \in Int, NEW x2 \in Nat \ {0}, NEW y1 \in Int, NEW y2 \in Nat \ {0},
             NEW z1 \in Int, NEW z2 \in Nat \ {0}, x1 * z2 < z1 * x2
      PROVE  x1 * y2 < y1 * x2 \/ y1 * z2 < z1 * y2
  <2>1. /\ x1 * z2 \in Int /\ z1 * x2 \in Int /\ x1 * y2 \in Int /\ y1 * x2 \in Int
        /\ y1 * z2 \in Int /\ z1 * y2 \in Int
    OBVIOUS
  <2>2. (x1 * z2) * y2 < (z1 * x2) * y2
    BY <1>2, <2>1, Scaled
  <2>3. (x1 * z2) * y2 = (x1 * y2) * z2 /\ (z1 * x2) * y2 = (z1 * y2) * x2
        /\ (y1 * x2) * z2 = (y1 * z2) * x2
    OBVIOUS
  <2>4. /\ (x1 * y2) * z2 \in Int /\ (z1 * y2) * x2 \in Int /\ (y1 * x2) * z2 \in Int
    BY <2>1
  <2>5. (x1 * y2) * z2 < (y1 * x2) * z2 \/ (y1 * z2) * x2 < (z1 * y2) * x2
    BY <2>2, <2>3, <2>4
  <2> QED
    BY <2>1, <2>5, Scaled
<1> QED
  BY <1>1, <1>2

\* Figures, null or not, are in a weak order: none is ahead of one ahead of it, and what is
\* between two is ahead of the second or behind the first.
LEMMA FiguresOrdered ==
  ASSUME NEW a \in Fractions \cup {None}, NEW b \in Fractions \cup {None}, NEW order
  PROVE  /\ Ahead(a, b, order) => ~Ahead(b, a, order)
         /\ \A c \in Fractions \cup {None} :
              Ahead(a, c, order) => Ahead(a, b, order) \/ Ahead(b, c, order)
<1>1. \A x, y \in Fractions : x[1] * y[2] \in Int /\ y[1] * x[2] \in Int
  <2>1. \A x \in Fractions : x[1] \in Int /\ x[2] \in Int
    BY DEF Fractions
  <2>2. \A i, j \in Int : i * j \in Int
    OBVIOUS
  <2> QED
    BY <2>1, <2>2
<1>2. Ahead(a, b, order) => ~Ahead(b, a, order)
  BY <1>1 DEF Ahead
<1>3. ASSUME NEW c \in Fractions \cup {None}, Ahead(a, c, order)
      PROVE  Ahead(a, b, order) \/ Ahead(b, c, order)
  <2>1. CASE b = None
    BY <1>3, <2>1 DEF Ahead
  <2>2. CASE b # None /\ c = None
    BY <2>2 DEF Ahead
  <2>3. CASE b # None /\ c # None /\ order = "desc"
    BY <1>3, <2>3, CrossMultiplied DEF Ahead
  <2>4. CASE b # None /\ c # None /\ order # "desc"
    BY <1>3, <2>4, CrossMultiplied DEF Ahead
  <2> QED
    BY <2>1, <2>2, <2>3, <2>4
<1> QED
  BY <1>2, <1>3

\* The order of three numbers one after another.
LEMMA ThreeNumbers ==
  ASSUME NEW x1, NEW x2, NEW x3, NEW y1, NEW y2, NEW y3
  PROVE  Lexicographic(<<x1, x2, x3>>, <<y1, y2, y3>>) <=>
           \/ x1 < y1
           \/ x1 = y1 /\ x2 < y2
           \/ x1 = y1 /\ x2 = y2 /\ x3 < y3
<1> DEFINE k == <<x1, x2, x3>>
           l == <<y1, y2, y3>>
           less(n) == k[n] < l[n] /\ \A m \in 1 .. n - 1 : k[m] = l[m]
<1>1. DOMAIN k = {1, 2, 3}
  OBVIOUS
<1>2. less(1) <=> x1 < y1
  OBVIOUS
<1>3. less(2) <=> x1 = y1 /\ x2 < y2
  OBVIOUS
<1>4. less(3) <=> x1 = y1 /\ x2 = y2 /\ x3 < y3
  OBVIOUS
<1>5. Lexicographic(k, l) <=> \E n \in {1, 2, 3} : less(n)
  BY <1>1 DEF Lexicographic
<1> HIDE DEF k, l, less
<1>6. Lexicographic(k, l) <=> less(1) \/ less(2) \/ less(3)
  BY <1>5
<1> QED
  BY <1>2, <1>3, <1>4, <1>6 DEF k, l

\* Rows with figures or nulls to sort by, of which no two break a tie alike, are in one order.
LEMMA RowsOrdered ==
  ASSUME NEW rowset, NEW q,
         \A o \in rowset : SortFigure(o, q.sort) \in Fractions \cup {None},
         \A o \in rowset : \A n \in 1 .. 3 : TieBreak(o)[n] \in Int,
         \A o, p \in rowset : TieBreak(o) = TieBreak(p) => o = p
  PROVE  StrictOrder(rowset, {e \in rowset \X rowset : RowBefore(e[1], e[2], q)})
<1> DEFINE before == {e \in rowset \X rowset : RowBefore(e[1], e[2], q)}
           fig(o) == SortFigure(o, q.sort)
           ahead(o, p) == Ahead(fig(o), fig(p), q.order)
           lex(o, p) == Lexicographic(TieBreak(o), TieBreak(p))
<1>1. \A o, p \in rowset : <<o, p>> \in before <=> ahead(o, p) \/ (~ahead(p, o) /\ lex(o, p))
  BY DEF RowBefore
<1>2. \A o, p, r \in rowset : /\ ahead(o, p) => ~ahead(p, o)
                              /\ ahead(o, r) => ahead(o, p) \/ ahead(p, r)
  <2> HIDE DEF fig
  <2>1. \A o \in rowset : fig(o) \in Fractions \cup {None}
    BY DEF fig
  <2> QED
    BY <2>1, FiguresOrdered
<1>3. \A o, p, r \in rowset : /\ ~lex(o, o)
                              /\ lex(o, p) /\ lex(p, r) => lex(o, r)
                              /\ o # p => lex(o, p) \/ lex(p, o)
  <2> DEFINE one(o) == Collation[JudgeName[o.subject.id]]
             two(o) == Collation[o.subject.id]
             three(o) == Collation[o.draft.dimension]
  <2>1. \A o : TieBreak(o) = <<one(o), two(o), three(o)>>
    BY DEF TieBreak
  <2>2. \A o \in rowset : one(o) \in Int /\ two(o) \in Int /\ three(o) \in Int
    <3> SUFFICES ASSUME NEW o \in rowset PROVE one(o) \in Int /\ two(o) \in Int /\ three(o) \in Int
      OBVIOUS
    <3> HIDE DEF one, two, three
    <3>1. TieBreak(o)[1] \in Int /\ TieBreak(o)[2] \in Int /\ TieBreak(o)[3] \in Int
      OBVIOUS
    <3>2. TieBreak(o)[1] = one(o) /\ TieBreak(o)[2] = two(o) /\ TieBreak(o)[3] = three(o)
      BY <2>1
    <3> QED
      BY <3>1, <3>2
  <2> HIDE DEF one, two, three
  <2> DEFINE less(o, p) == \/ one(o) < one(p)
                           \/ one(o) = one(p) /\ two(o) < two(p)
                           \/ one(o) = one(p) /\ two(o) = two(p) /\ three(o) < three(p)
  <2>3. ASSUME NEW o, NEW p PROVE lex(o, p) <=> less(o, p)
    BY <2>1, ThreeNumbers
  <2>4. ASSUME NEW o \in rowset, NEW p \in rowset, one(o) = one(p), two(o) = two(p), three(o) = three(p)
        PROVE  o = p
    <3>1. TieBreak(o) = TieBreak(p)
      BY <2>1, <2>4
    <3> QED
      BY <3>1
  <2> HIDE DEF lex
  <2>5. ASSUME NEW o \in rowset PROVE ~less(o, o)
    BY <2>2
  <2>6. ASSUME NEW o \in rowset, NEW p \in rowset, NEW r \in rowset, less(o, p), less(p, r) PROVE less(o, r)
    BY <2>2, <2>6
  <2>7. ASSUME NEW o \in rowset, NEW p \in rowset, o # p PROVE less(o, p) \/ less(p, o)
    <3>1. one(o) # one(p) \/ two(o) # two(p) \/ three(o) # three(p)
      BY <2>4, <2>7
    <3> QED
      BY <2>2, <3>1
  <2> HIDE DEF less
  <2> QED
    BY <2>3, <2>5, <2>6, <2>7
<1> HIDE DEF before, ahead, lex
<1>4. \A o \in rowset : <<o, o>> \notin before
  BY <1>1, <1>2, <1>3
<1>5. \A o, p, r \in rowset : <<o, p>> \in before /\ <<p, r>> \in before => <<o, r>> \in before
  <2> SUFFICES ASSUME NEW o \in rowset, NEW p \in rowset, NEW r \in rowset,
                      <<o, p>> \in before, <<p, r>> \in before
               PROVE  <<o, r>> \in before
    OBVIOUS
  <2>1. ahead(o, p) \/ (~ahead(p, o) /\ lex(o, p))
    BY <1>1
  <2>2. ahead(p, r) \/ (~ahead(r, p) /\ lex(p, r))
    BY <1>1
  <2>3. ~ahead(r, o)
    BY <1>2, <2>1, <2>2
  <2>4. ahead(o, p) \/ ahead(p, r) => ahead(o, r)
    BY <1>2, <2>1, <2>2
  <2> QED
    BY <1>1, <1>3, <2>1, <2>2, <2>3, <2>4
<1>6. \A o, p \in rowset : o # p => <<o, p>> \in before \/ <<p, o>> \in before
  BY <1>1, <1>2, <1>3
<1> QED
  BY <1>4, <1>5, <1>6 DEF StrictOrder, before

\* Of finitely many terms one ends last, and is one of them.
LEMMA LatestExists ==
  ASSUME NEW terms, IsFiniteSet(terms), terms # {},
         \A t \in terms : t.end \in Int /\ t.days \in Int
  PROVE  Latest(terms) \in terms
<1> DEFINE a == [t \in terms |-> t.end]
           b == [t \in terms |-> t.days]
<1>1. \A t \in terms : a[t] \in Int /\ b[t] \in Int
  OBVIOUS
<1>2. \E t \in terms : \A u \in terms : a[u] < a[t] \/ (a[u] = a[t] /\ b[u] <= b[t])
  <2> HIDE DEF a, b
  <2> QED
    BY <1>1, LastByNumbers
<1>3. \E t \in terms : \A u \in terms : u.end < t.end \/ (u.end = t.end /\ u.days <= t.days)
  BY <1>2
<1> QED
  BY <1>3 DEF Latest

\* Of finitely many numbers one is the least, another the greatest.
LEMMA LeastNumber ==
  ASSUME NEW some, IsFiniteSet(some), some # {}, some \subseteq Int
  PROVE  /\ Min(some) \in some
         /\ \E x \in some : \A y \in some : y <= x
<1> DEFINE a == [x \in some |-> -x]
           b == [x \in some |-> 0]
           c == [x \in some |-> x]
<1>1. \A x \in some : a[x] \in Int /\ b[x] \in Int /\ c[x] \in Int
  OBVIOUS
<1>2. /\ \E x \in some : \A y \in some : a[y] < a[x] \/ (a[y] = a[x] /\ b[y] <= b[x])
      /\ \E x \in some : \A y \in some : c[y] < c[x] \/ (c[y] = c[x] /\ b[y] <= b[x])
  <2> HIDE DEF a, b, c
  <2> QED
    BY <1>1, LastByNumbers
<1>3. \E x \in some : \A y \in some : x <= y
  <2>1. PICK x \in some : \A y \in some : a[y] < a[x] \/ (a[y] = a[x] /\ b[y] <= b[x])
    BY <1>2
  <2>2. ASSUME NEW y \in some PROVE x <= y
    <3>1. a[y] <= a[x]
      BY <1>1, <2>1
    <3> QED
      BY <3>1
  <2> QED
    BY <2>2
<1>4. \E x \in some : \A y \in some : y <= x
  <2>1. PICK x \in some : \A y \in some : c[y] < c[x] \/ (c[y] = c[x] /\ b[y] <= b[x])
    BY <1>2
  <2>2. ASSUME NEW y \in some PROVE y <= x
    <3>1. c[y] <= c[x]
      BY <1>1, <2>1
    <3> QED
      BY <3>1
  <2> QED
    BY <2>2
<1> QED
  BY <1>3, <1>4 DEF Min

\* What each step of finitely many keeps, all keep.
LEMMA StepsStay ==
  ASSUME NEW X, NEW last \in Nat, NEW step, step[0] \in X,
         \A n \in 1 .. last : step[n - 1] \in X => step[n] \in X
  PROVE  \A n \in 0 .. last : step[n] \in X
<1> DEFINE S == {n \in Nat : n <= last => step[n] \in X}
<1>1. 0 \in S
  OBVIOUS
<1>2. ASSUME NEW n \in S PROVE n + 1 \in S
  <2>1. CASE n + 1 <= last
    <3>1. n <= last /\ n + 1 \in 1 .. last /\ (n + 1) - 1 = n
      BY <2>1
    <3> QED
      BY <2>1, <3>1
  <2> QED
    BY <2>1
<1>3. S = Nat
  <2>1. S \in SUBSET Nat
    OBVIOUS
  <2> HIDE DEF S
  <2> QED
    BY <1>1, <1>2, <2>1, AllNumbers
<1> QED
  BY <1>3

Stepped(first, g, last, step) ==
  step = [n \in 0 .. last |-> IF n = 0 THEN first ELSE g[step[n - 1]]]

\* A function applied a number of times over has its values, one after another.
LEMMA StepsExist ==
  ASSUME NEW first, NEW g, NEW last \in Nat
  PROVE  \E step : Stepped(first, g, last, step)
<1> DEFINE S == {n \in Nat : \E step : Stepped(first, g, n, step)}
<1>1. 0 \in S
  <2>1. Stepped(first, g, 0, [n \in 0 .. 0 |-> first])
    BY DEF Stepped
  <2> QED
    BY <2>1
<1>2. ASSUME NEW n \in S PROVE n + 1 \in S
  <2>1. PICK step : Stepped(first, g, n, step)
    OBVIOUS
  <2> DEFINE longer == [i \in 0 .. n + 1 |-> IF i = n + 1 THEN g[step[n]] ELSE step[i]]
  <2>2. \A i \in 0 .. n : step[i] = IF i = 0 THEN first ELSE g[step[i - 1]]
    BY <2>1 DEF Stepped
  <2>3. ASSUME NEW i \in 0 .. n + 1
        PROVE  longer[i] = IF i = 0 THEN first ELSE g[longer[i - 1]]
    <3>1. CASE i = n + 1
      <4>1. i # 0 /\ i - 1 = n /\ n \in 0 .. n + 1 /\ n # n + 1
        BY <3>1
      <4> QED
        BY <3>1, <4>1
    <3>2. CASE i = 0
      BY <2>2, <3>2
    <3>3. CASE i # n + 1 /\ i # 0
      <4>1. i \in 0 .. n /\ i - 1 \in 0 .. n + 1 /\ i - 1 # n + 1
        BY <3>3
      <4>2. longer[i] = step[i] /\ longer[i - 1] = step[i - 1]
        BY <4>1, <3>3
      <4> QED
        BY <2>2, <3>3, <4>1, <4>2
    <3> QED
      BY <3>1, <3>2, <3>3
  <2> HIDE DEF longer
  <2>4. longer = [i \in 0 .. n + 1 |-> IF i = 0 THEN first ELSE g[longer[i - 1]]]
    <3>1. longer = [i \in 0 .. n + 1 |-> longer[i]]
      BY DEF longer
    <3> QED
      BY <2>3, <3>1
  <2>5. Stepped(first, g, n + 1, longer)
    BY <2>4 DEF Stepped
  <2>6. n + 1 \in Nat
    OBVIOUS
  <2> QED
    BY <2>5, <2>6
<1> HIDE DEF S
<1>3. S = Nat
  <2>1. S \in SUBSET Nat
    BY DEF S
  <2> QED
    BY <1>1, <1>2, <2>1, AllNumbers
<1> QED
  BY <1>3 DEF S

-----------------------------------------------------------------------------
(* Rows with the days and ranks that figures are computed from.            *)

DatedRow(r) == Dated(r) /\ (r.table = "charge" => r.category \in DimensionValues)
RowsDated == \A r \in rows : DatedRow(r)

\* A row keeps its days when its person is moved.
LEMMA DatedMoved ==
  ASSUME NEW r, WellFormed(r), DatedRow(r), r.table \in PersonTables, NEW p
  PROVE  LET s == [r EXCEPT !.person = p] IN DatedRow(s) /\ s.table = r.table
<1> DEFINE s == [r EXCEPT !.person = p]
<1>1. "table" \in DOMAIN r
  BY DEF WellFormed
<1>2. s = [column \in DOMAIN r |-> IF column = "person" THEN p ELSE r[column]]
  OBVIOUS
<1> HIDE DEF s
<1>3. DOMAIN s = DOMAIN r /\ s.table = r.table /\ \A column \in DOMAIN r \ {"person"} : s[column] = r[column]
  BY <1>1, <1>2
<1>4. "person" \notin NumberColumns(r.table) \cup NullableColumns(r.table)
  BY DEF NumberColumns, NullableColumns, PersonTables
<1>5. Dated(s)
  BY <1>3, <1>4 DEF DatedRow, Dated
<1>6. r.table = "charge" => s.category = r.category
  BY <1>3 DEF DatedRow, Dated
<1> QED
  BY <1>3, <1>5, <1>6 DEF DatedRow, s

\* There are no rows at first.
LEMMA RowsDatedStart == Init => RowsDated
BY DEF Init, RowsDated

\* The rows of a batch have their days.
LEMMA BatchesDated == \A batch \in Batches : \A r \in batch : WellFormed(r) /\ DatedRow(r)
<1> SUFFICES ASSUME NEW batch \in Batches, NEW r \in batch PROVE WellFormed(r) /\ DatedRow(r)
  OBVIOUS
<1>1. WellFormed(r) /\ Dated(r)
  BY BatchesAssumption
<1>2. r.table = "charge" => r.category \in DimensionValues
  BY DEF DimensionValues, Table
<1> QED
  BY <1>1, <1>2 DEF DatedRow

\* Publishing a batch and merging a person keep the days of every row.
LEMMA RowsDatedStep == FiguresInv /\ RowsDated /\ [Next]_vars => RowsDated'
<1> SUFFICES ASSUME FiguresInv, RowsDated, [Next]_vars PROVE RowsDated'
  OBVIOUS
<1>1. \A r \in rows : WellFormed(r) /\ DatedRow(r)
  BY DEF FiguresInv, AllWellFormed, RowsDated
<1>2. ASSUME NEW batch \in Batches, NEW stale \in BOOLEAN, Publish(batch, stale) PROVE RowsDated'
  <2>1. \A r \in Published(batch, stale) : DatedRow(r)
    BY BatchesDated, DatedMoved DEF Published
  <2>2. \A r \in rows' : r \in rows \/ r \in Published(batch, stale)
    BY <1>2 DEF Publish, WriteRows, Upsert
  <2> QED
    BY <1>1, <2>1, <2>2 DEF RowsDated
<1>3. ASSUME NEW keep \in Persons, NEW drop \in Persons, MergePersons(keep, drop) PROVE RowsDated'
  <2>1. \A r \in Repointed(rows, keep, drop) : DatedRow(r)
    BY <1>1, DatedMoved DEF Repointed
  <2> QED
    BY <1>3, <2>1 DEF MergePersons, RowsDated
<1>4. CASE UNCHANGED vars
  BY <1>4 DEF vars, RowsDated
<1> QED
  BY <1>2, <1>3, <1>4 DEF Next

\* Every row has, in every state, the days and ranks that its table has.
LEMMA RowsAlwaysDated == Spec => []RowsDated
<1>1. RowsDated /\ FiguresInv /\ [Next]_vars => RowsDated'
  BY RowsDatedStep
<1> QED
  BY <1>1, RowsDatedStart, FiguresInvariant, PTL DEF Spec

-----------------------------------------------------------------------------
(* Frames with days.                                                       *)

DatedFrame(frame) ==
  /\ TypedFrame(frame)
  /\ frame.end \in Int
  /\ \A k \in frame.cases : k.filed \in Int \cup {None}
  /\ \A h \in frame.charges : h.severity \in Int /\ h.category \in DimensionValues
  /\ \A d \in frame.decisions : d.release \in Int \cup {None}
  /\ \A x \in frame.sentences :
       x.at \in Int /\ x.days \in Int \cup {None} /\ x.probation \in Int \cup {None}
  /\ IsFiniteSet(frame.outcomes)
  /\ \A o \in frame.outcomes : o.at \in Int

AllDated(all) == IsFiniteSet(all) /\ AllWellFormed(all) /\ \A r \in all : DatedRow(r)

\* Resolving the persons of rows of one table gives rows of it with the same days.
LEMMA ResolvedDated ==
  ASSUME NEW all, AllDated(all), NEW name \in PersonTables, NEW some \in SUBSET Table(all, name), NEW into
  PROVE  /\ IsFiniteSet(ResolvePersons(into, some))
         /\ \A r \in ResolvePersons(into, some) : r.table = name /\ DatedRow(r)
<1>1. \A r \in some : r \in all /\ r.table = name
  BY DEF Table
<1>2. IsFiniteSet(some)
  BY <1>1, SubFinite DEF AllDated
<1>3. \A r \in some : WellFormed(r) /\ DatedRow(r)
  BY <1>1 DEF AllDated, AllWellFormed
<1>4. ASSUME NEW r \in some
      PROVE  LET s == [r EXCEPT !.person = Survivor(into, @)] IN DatedRow(s) /\ s.table = name
  BY <1>1, <1>3, DatedMoved
<1>5. \A r \in ResolvePersons(into, some) : r.table = name /\ DatedRow(r)
  BY <1>4 DEF ResolvePersons
<1> QED
  BY <1>2, <1>5, ResolvedFinite

\* Finitely many rows give finitely many outcomes, each with its day.
LEMMA OutcomesDated ==
  ASSUME NEW all, AllDated(all), NEW into, NEW persons, NEW observable
  PROVE  LET outcomes == JusticeEvents(all, into, persons, observable)
         IN IsFiniteSet(outcomes) /\ \A o \in outcomes : o.at \in Int
<1> DEFINE family == Family(into, persons)
           wanted == OtherCaseOutcomes \cap observable
           stored == {e \in Table(all, "justice_event") : e.person \in family /\ e.type \in AnyCaseOutcomes}
           events == ResolvePersons(into, stored)
           charged == {c \in Table(all, "charge") : c.person \in family}
           charges == ResolvePersons(into, charged)
<1>1. /\ IsFiniteSet(events) /\ \A r \in events : r.at \in Int
      /\ IsFiniteSet(charges) /\ \A c \in charges : c.filed \in Int /\ c.disposed \in Int \cup {None}
  <2>1. IsFiniteSet(events) /\ \A r \in events : r.table = "justice_event" /\ DatedRow(r)
    BY ResolvedDated DEF PersonTables
  <2>2. IsFiniteSet(charges) /\ \A r \in charges : r.table = "charge" /\ DatedRow(r)
    BY ResolvedDated DEF PersonTables
  <2>3. \A r : r.table = "justice_event" /\ DatedRow(r) => r.at \in Int
    BY DEF DatedRow, Dated, NumberColumns
  <2>4. \A r : r.table = "charge" /\ DatedRow(r) => r.filed \in Int /\ r.disposed \in Int \cup {None}
    BY DEF DatedRow, Dated, NumberColumns, NullableColumns
  <2> HIDE DEF events, charges
  <2> QED
    BY <2>1, <2>2, <2>3, <2>4
<1> HIDE DEF events
<1>2. IsFiniteSet({Outcome(r.type, r.person, r.at, r.related) : r \in events})
  <2> DEFINE f == [r \in events |-> Outcome(r.type, r.person, r.at, r.related)]
  <2>1. {Outcome(r.type, r.person, r.at, r.related) : r \in events} = {f[r] : r \in events}
    OBVIOUS
  <2>2. IsFiniteSet(events)
    BY <1>1
  <2> HIDE DEF f, charges
  <2>3. IsFiniteSet({f[r] : r \in events})
    BY <2>2, ImageFinite
  <2> QED
    BY <2>1, <2>3
<1>3. StoredOutcomes(all, into, family) = {Outcome(r.type, r.person, r.at, r.related) : r \in events}
  BY DEF StoredOutcomes, events
<1>4. \A o \in StoredOutcomes(all, into, family) : o.at \in Int
  BY <1>1, <1>3 DEF Outcome
<1> DEFINE Earliest(c) == \A d \in charges : d.person = c.person /\ d.case = c.case => c.filed <= d.filed
           convicted == {c \in charges : c.disposition \in Convicted /\ c.disposed # None}
           first == {c \in charges : Earliest(c)}
           Made(type, picked, Instant(_)) ==
             IF type \in wanted THEN {Outcome(type, c.person, Instant(c), c.case) : c \in picked} ELSE {}
           news == Made("new_charge", charges, LAMBDA c : c.filed)
           cases == Made("new_case", first, LAMBDA c : c.filed)
           again == Made("reconviction", convicted, LAMBDA c : c.disposed)
<1>5. DerivedOutcomes(all, into, family, wanted) = UNION {news, cases, again}
  BY DEF DerivedOutcomes
<1> HIDE DEF charges, wanted
<1>6. /\ IsFiniteSet(news) /\ IsFiniteSet(cases) /\ IsFiniteSet(again)
      /\ \A o \in news \cup cases \cup again : o.at \in Int
  <2>1. first \subseteq charges /\ convicted \subseteq charges
    OBVIOUS
  <2>2. IsFiniteSet(first) /\ IsFiniteSet(convicted) /\ IsFiniteSet({})
    BY <1>1, <2>1, SubFinite, FS_EmptySet
  <2> HIDE DEF first
  <2> DEFINE f == [c \in charges |-> Outcome("new_charge", c.person, c.filed, c.case)]
             g == [c \in first |-> Outcome("new_case", c.person, c.filed, c.case)]
             h == [c \in convicted |-> Outcome("reconviction", c.person, c.disposed, c.case)]
  <2>4. /\ news = {} \/ news = {f[c] : c \in charges}
        /\ cases = {} \/ cases = {g[c] : c \in first}
        /\ again = {} \/ again = {h[c] : c \in convicted}
    OBVIOUS
  <2>3. /\ \A c \in charges : f[c].at \in Int
        /\ \A c \in first : g[c].at \in Int
        /\ \A c \in convicted : h[c].at \in Int
    BY <1>1, <2>1 DEF Outcome
  <2> HIDE DEF f, g, h, news, cases, again, convicted
  <2>5. IsFiniteSet({f[c] : c \in charges}) /\ IsFiniteSet({g[c] : c \in first}) /\ IsFiniteSet({h[c] : c \in convicted})
    BY <1>1, <2>2, ImageFinite
  <2> QED
    BY <2>2, <2>3, <2>4, <2>5
<1> HIDE DEF news, cases, again
<1>7. UNION {news, cases, again} = (news \cup cases) \cup again
  OBVIOUS
<1>8. IsFiniteSet(UNION {news, cases, again})
  <2>1. IsFiniteSet(news \cup cases)
    BY <1>6, FS_Union
  <2>2. IsFiniteSet((news \cup cases) \cup again)
    BY <1>6, <2>1, FS_Union
  <2> QED
    BY <1>7, <2>2
<1>9. JusticeEvents(all, into, persons, observable) =
        StoredOutcomes(all, into, family) \cup DerivedOutcomes(all, into, family, wanted)
  BY DEF JusticeEvents, wanted
<1> HIDE DEF family
<1>10. IsFiniteSet(StoredOutcomes(all, into, family) \cup DerivedOutcomes(all, into, family, wanted))
  BY <1>2, <1>3, <1>5, <1>8, FS_Union
<1>11. \A o \in DerivedOutcomes(all, into, family, wanted) : o.at \in Int
  BY <1>5, <1>6
<1> QED
  BY <1>4, <1>9, <1>10, <1>11

\* The frame of a source with a coverage window has its days.
LEMMA FrameDated ==
  ASSUME NEW all, AllDated(all), NEW into, NEW s \in Sources, HasCoverage(s)
  PROVE  DatedFrame(Frame(all, into, s))
<1> DEFINE frame == Frame(all, into, s)
           cases == {c \in Table(all, "court_case") : c.source = s}
           ids == {c.id : c \in cases}
           Picked(name) == {r \in Table(all, name) : r.case \in ids}
           kept == {r \in Picked("sentence") : ~r.replaced}
<1>1. /\ frame.cases = cases /\ frame.end = Profile[s].end + 1
      /\ frame.charges = ResolvePersons(into, Picked("charge"))
      /\ frame.decisions = ResolvePersons(into, Picked("decision"))
      /\ frame.sentences = ResolvePersons(into, kept)
      /\ frame.outcomes = JusticeEvents(all, into, frame.persons, Profile[s].observable)
  BY DEF Frame
<1>2. \A name : Picked(name) \subseteq Table(all, name)
  OBVIOUS
<1>3. kept \subseteq Table(all, "sentence") /\ cases \subseteq Table(all, "court_case")
  OBVIOUS
<1> HIDE DEF frame, cases, kept, Picked
<1>4. TypedFrame(frame)
  BY FrameTyped DEF AllDated, frame
<1>5. frame.end \in Int
  <2>1. Profile[s].end \in Int
    BY ProfileAssumption DEF HasCoverage
  <2> QED
    BY <1>1, <2>1
<1>6. \A k \in frame.cases : k.filed \in Int \cup {None}
  <2>1. \A k \in frame.cases : DatedRow(k) /\ k.table = "court_case"
    BY <1>1, <1>3 DEF AllDated, Table
  <2> QED
    BY <2>1 DEF DatedRow, Dated, NullableColumns
<1>7. \A h \in frame.charges : h.severity \in Int /\ h.category \in DimensionValues
  <2>1. \A h \in frame.charges : DatedRow(h) /\ h.table = "charge"
    BY <1>1, <1>2, ResolvedDated DEF PersonTables
  <2> QED
    BY <2>1 DEF DatedRow, Dated, NumberColumns
<1>8. \A d \in frame.decisions : d.release \in Int \cup {None}
  <2>1. \A d \in frame.decisions : DatedRow(d) /\ d.table = "decision"
    BY <1>1, <1>2, ResolvedDated DEF PersonTables
  <2> QED
    BY <2>1 DEF DatedRow, Dated, NullableColumns
<1>9. \A x \in frame.sentences :
        x.at \in Int /\ x.days \in Int \cup {None} /\ x.probation \in Int \cup {None}
  <2>1. \A x \in frame.sentences : DatedRow(x) /\ x.table = "sentence"
    BY <1>1, <1>3, ResolvedDated DEF PersonTables
  <2> QED
    BY <2>1 DEF DatedRow, Dated, NumberColumns, NullableColumns
<1>10. IsFiniteSet(frame.outcomes) /\ \A o \in frame.outcomes : o.at \in Int
  BY <1>1, OutcomesDated
<1> QED
  BY <1>4, <1>5, <1>6, <1>7, <1>8, <1>9, <1>10 DEF DatedFrame, frame

-----------------------------------------------------------------------------
(* Cohorts with days: exposure, first outcomes and survival.               *)

DatedTerms(terms) ==
  IsFiniteSet(terms) /\ \A t \in terms : t.start \in Int /\ t.end \in Int /\ t.days \in Int
Exposures == [start : Int, deferral : Int]

\* The terms of incarceration of a frame end on days.
LEMMA TermsDated ==
  ASSUME NEW frame, DatedFrame(frame)
  PROVE  DatedTerms(IncarcerationTerms(frame))
<1> DEFINE some == {x \in frame.sentences : x.days # None /\ x.days > 0}
           f == [s \in some |->
                   [id |-> s.id, case |-> s.case, person |-> s.person, start |-> s.at, end |-> s.at + s.days,
                    days |-> s.days]]
<1>1. IncarcerationTerms(frame) = {f[s] : s \in some}
  BY DEF IncarcerationTerms
<1>2. IsFiniteSet(some)
  BY SubFinite DEF DatedFrame, TypedFrame, FiniteFrame
<1>3. \A s \in some : s.at \in Int /\ s.days \in Int
  BY DEF DatedFrame
<1>4. \A s \in some : f[s].start \in Int /\ f[s].end \in Int /\ f[s].days \in Int
  BY <1>3
<1> HIDE DEF f, some
<1>5. IsFiniteSet({f[s] : s \in some})
  BY <1>2, ImageFinite
<1> QED
  BY <1>1, <1>4, <1>5 DEF DatedTerms

\* The exposure that a latest term ends.
Ended(terms, now) == [start |-> Latest(terms).end, deferral |-> now.deferral + Latest(terms).days]
Hits(terms, person, now) ==
  {t \in terms : t.person = person /\ t.start <= now.start /\ now.start < t.end}
Past(terms, person, now) ==
  IF Hits(terms, person, now) = {} THEN now ELSE Ended(Hits(terms, person, now), now)
Deferrals(terms, person, first, last, step) ==
  step = [n \in 0 .. last |-> IF n = 0 THEN first ELSE Past(terms, person, step[n - 1])]

\* A start moved past terms is a day.
LEMMA DeferDated ==
  ASSUME NEW terms, DatedTerms(terms), NEW person, NEW first \in Exposures
  PROVE  Defer(terms, person, first) \in Exposures
<1> DEFINE last == Cardinality(terms) + 1
           past == [now \in Exposures |-> Past(terms, person, now)]
           end == CHOOSE step : Deferrals(terms, person, first, last, step)
<1>1. last \in Nat
  BY FS_CardinalityType DEF DatedTerms
<1>2. ASSUME NEW now \in Exposures PROVE Past(terms, person, now) \in Exposures
  <2> DEFINE hits == Hits(terms, person, now)
  <2>1. hits \subseteq terms
    BY DEF Hits
  <2> HIDE DEF hits
  <2>2. CASE hits # {}
    <3>1. IsFiniteSet(hits)
      BY <2>1, SubFinite DEF DatedTerms
    <3>2. \A t \in hits : t.end \in Int /\ t.days \in Int
      BY <2>1 DEF DatedTerms
    <3>3. Latest(hits).end \in Int /\ Latest(hits).days \in Int
      BY <2>2, <3>1, <3>2, LatestExists
    <3>4. Ended(hits, now) \in Exposures
      BY <3>3 DEF Ended, Exposures
    <3> QED
      BY <2>2, <3>4 DEF Past, hits
  <2>3. CASE hits = {}
    BY <2>3 DEF Past, hits
  <2> QED
    BY <2>2, <2>3
<1>3. \A now \in Exposures : past[now] = Past(terms, person, now)
  OBVIOUS
<1> HIDE DEF last, past
<1>4. \E step : Deferrals(terms, person, first, last, step)
  <2>1. PICK step : Stepped(first, past, last, step)
    BY <1>1, StepsExist
  <2>2. \A n \in 0 .. last : step[n] = IF n = 0 THEN first ELSE past[step[n - 1]]
    BY <2>1 DEF Stepped
  <2>3. \A n \in 0 .. last : step[n] \in Exposures
    <3>1. step[0] \in Exposures
      BY <1>1, <2>2
    <3>2. ASSUME NEW n \in 1 .. last, step[n - 1] \in Exposures PROVE step[n] \in Exposures
      <4>1. n \in 0 .. last /\ n # 0
        BY <1>1
      <4> QED
        BY <1>2, <1>3, <2>2, <3>2, <4>1
    <3> QED
      BY <1>1, <3>1, <3>2, StepsStay
  <2>4. \A n \in 0 .. last : n # 0 => n - 1 \in 0 .. last
    BY <1>1
  <2>5. Deferrals(terms, person, first, last, step)
    BY <1>3, <2>1, <2>3, <2>4 DEF Deferrals, Stepped
  <2> QED
    BY <2>5
<1>5. Deferrals(terms, person, first, last, end)
  BY <1>4
<1>6. Defer(terms, person, first) = end[last]
  BY DEF Defer, Deferrals, Past, Ended, Hits, last
<1> HIDE DEF end
<1>7. \A n \in 0 .. last : end[n] = IF n = 0 THEN first ELSE Past(terms, person, end[n - 1])
  BY <1>5 DEF Deferrals
<1>8. end[0] \in Exposures
  BY <1>1, <1>7
<1>9. ASSUME NEW n \in 1 .. last, end[n - 1] \in Exposures PROVE end[n] \in Exposures
  <2>1. n \in 0 .. last /\ n # 0
    BY <1>1
  <2> QED
    BY <1>2, <1>7, <1>9, <2>1
<1>10. end[last] \in Exposures
  <2>1. \A n \in 0 .. last : end[n] \in Exposures
    BY <1>1, <1>8, <1>9, StepsStay
  <2> QED
    BY <1>1, <2>1
<1> QED
  BY <1>6, <1>10

\* A disposed case is disposed of on a day.
LEMMA DisposedDated ==
  ASSUME NEW frame, DatedFrame(frame)
  PROVE  \A k \in DisposedCases(frame) : k.at \in Int /\ k.filed \in Int \cup {None}
<1> DEFINE held(c) == {d \in DisposedCharges(frame) : d.case = c.id}
<1>1. ASSUME NEW c \in frame.cases, held(c) # {} PROVE LastDisposed(held(c)).disposed \in Int
  <2>1. held(c) \subseteq DisposedCharges(frame)
    OBVIOUS
  <2>2. \A h \in DisposedCharges(frame) : h.id \in Nat /\ h.disposed \in Int
    BY DEF DisposedCharges, DatedFrame, TypedFrame
  <2>3. IsFiniteSet(held(c))
    BY <2>1, CasesFinite, SubFinite DEF DatedFrame, TypedFrame
  <2> HIDE DEF held
  <2>4. LastDisposed(held(c)) \in held(c)
    BY <1>1, <2>1, <2>2, <2>3, LastExists
  <2> QED
    BY <2>1, <2>2, <2>4
<1> SUFFICES ASSUME NEW k \in DisposedCases(frame) PROVE k.at \in Int /\ k.filed \in Int \cup {None}
  OBVIOUS
<1>2. PICK c \in frame.cases :
        /\ held(c) # {} /\ k.at = LastDisposed(held(c)).disposed /\ k.filed = c.filed
  BY DEF DisposedCases
<1> HIDE DEF held
<1> QED
  BY <1>1, <1>2 DEF DatedFrame

\* The index events of a frame are on days.
LEMMA EventsDated ==
  ASSUME NEW frame, DatedFrame(frame), NEW kind \in IndexKinds, NEW rule, NEW subject
  PROVE  \A e \in IndexEvents(frame, kind, rule, subject) : e.anchor \in Int
<1>1. \A e \in PretrialReleaseIndex(frame, rule, subject) : e.anchor \in Int
  <2> DEFINE pretrial == [rule EXCEPT !.type = "pretrial_release"]
  <2>1. AttributedDecisions(frame, pretrial, subject) \subseteq frame.decisions
    BY GateRowsAmong DEF AttributedDecisions
  <2>2. \A d \in PretrialDecisions(frame, rule, subject) : d.release \in Int \cup {None}
    BY <2>1 DEF PretrialDecisions, DatedFrame
  <2> QED
    BY <2>2 DEF PretrialReleaseIndex, IndexEvent
<1>2. \A e \in DispositionIndex(frame, rule, subject) : e.anchor \in Int
  <2> DEFINE some == AttributedCases(frame, rule, subject, [r \in DisposedCases(frame) |-> r.at])
  <2>1. some \subseteq DisposedCases(frame)
    BY GateRowsAmong DEF AttributedCases
  <2>2. \A k \in some : k.at \in Int
    BY <2>1, DisposedDated
  <2> HIDE DEF some
  <2>3. \A e \in DispositionIndex(frame, rule, subject) : \E k \in some : e.anchor = k.at
    BY DEF DispositionIndex, IndexEvent, some
  <2> QED
    BY <2>2, <2>3
<1>3. \A e \in SentenceIndex(frame, rule, subject) : e.anchor \in Int
  <2>1. AttributedSentences(frame, rule, subject) \subseteq frame.sentences
    BY GateRowsAmong DEF AttributedSentences
  <2> QED
    BY <2>1 DEF SentenceIndex, IndexEvent, DatedFrame
<1> QED
  BY <1>1, <1>2, <1>3 DEF IndexEvents, WithinCoverage, IndexKinds

DatedCohort(cohort) ==
  IsFiniteSet(cohort) /\ \A m \in cohort : m.start \in Int /\ m.first \in Int \cup {None}

\* The members of a cohort start on days, and their first outcomes are on days.
LEMMA CohortDated ==
  ASSUME NEW frame, DatedFrame(frame), NEW def, def.index \in IndexKinds, NEW subject
  PROVE  DatedCohort(Cohort(frame, def, subject))
<1> DEFINE events == IndexEvents(frame, def.index, def.rule, subject)
           exposed == WithExposure(frame, def.index, events)
           terms == IncarcerationTerms(frame)
           First(e) == IF def.index = "disposition" THEN OwnTerm(terms, e)
                       ELSE [start |-> e.anchor, deferral |-> 0]
<1>1. DatedTerms(terms)
  BY TermsDated
<1>2. \A e \in events : e.anchor \in Int
  BY EventsDated
<1> HIDE DEF terms, events
<1>3. ASSUME NEW e \in events PROVE First(e) \in Exposures
  <2> DEFINE own == {t \in terms : t.case = e.case /\ t.person = e.person}
  <2>1. [start |-> e.anchor, deferral |-> 0] \in Exposures
    BY <1>2 DEF Exposures
  <2>2. own \subseteq terms
    OBVIOUS
  <2>3. OwnTerm(terms, e) = IF own # {} /\ Latest(own).end > e.anchor
                            THEN [start |-> Latest(own).end, deferral |-> Latest(own).days]
                            ELSE [start |-> e.anchor, deferral |-> 0]
    BY DEF OwnTerm
  <2> HIDE DEF own
  <2>4. own # {} => Latest(own).end \in Int /\ Latest(own).days \in Int
    <3>1. IsFiniteSet(own) /\ \A t \in own : t.end \in Int /\ t.days \in Int
      BY <1>1, <2>2, SubFinite DEF DatedTerms
    <3> QED
      BY <3>1, LatestExists
  <2>5. OwnTerm(terms, e) \in Exposures
    BY <2>1, <2>3, <2>4 DEF Exposures
  <2> QED
    BY <2>1, <2>5
<1> DEFINE at(e) == Defer(terms, e.person, First(e))
<1>4. exposed = {[id |-> e.id, case |-> e.case, person |-> e.person, anchor |-> e.anchor,
                  start |-> at(e).start, deferral |-> at(e).deferral] : e \in events}
  BY DEF WithExposure, terms
<1> HIDE DEF First
<1>5. \A e \in events : at(e).start \in Int
  BY <1>1, <1>3, DeferDated DEF Exposures
<1> HIDE DEF exposed, at
<1>6. \A m \in exposed : m.start \in Int
  BY <1>4, <1>5
<1>7. Cohort(frame, def, subject) = FirstOutcomes(frame, def.outcome, exposed)
  BY DEF Cohort, exposed, events
<1>8. ASSUME NEW m \in exposed PROVE FirstOutcome(frame, def.outcome, m) \in Int \cup {None}
  <2> DEFINE after == {o \in frame.outcomes :
                         /\ o.type = def.outcome /\ o.person = m.person /\ o.at > m.start
                         /\ def.outcome \in OtherCaseOutcomes => o.related \notin {None, m.case}}
             f == [o \in after |-> o.at]
             days == {f[o] : o \in after}
  <2>1. FirstOutcome(frame, def.outcome, m) = IF after = {} THEN None ELSE Min(days)
    BY DEF FirstOutcome
  <2>2. after \subseteq frame.outcomes
    OBVIOUS
  <2>3. \A o \in after : f[o] \in Int
    BY <2>2 DEF DatedFrame
  <2> HIDE DEF after, f
  <2>4. IsFiniteSet(days) /\ days \subseteq Int
    <3>1. IsFiniteSet(after)
      BY <2>2, SubFinite DEF DatedFrame
    <3>2. IsFiniteSet(days)
      BY <3>1, ImageFinite
    <3> QED
      BY <2>3, <3>2
  <2>5. after # {} => Min(days) \in Int
    <3>1. after # {} => days # {}
      OBVIOUS
    <3> HIDE DEF days
    <3> QED
      BY <2>4, <3>1, LeastNumber
  <2> QED
    BY <2>1, <2>5
<1>9. \A m \in Cohort(frame, def, subject) : m.start \in Int /\ m.first \in Int \cup {None}
  BY <1>6, <1>7, <1>8 DEF FirstOutcomes
<1>10. IsFiniteSet(Cohort(frame, def, subject))
  BY CohortFinite DEF DatedFrame, TypedFrame
<1> QED
  BY <1>9, <1>10 DEF DatedCohort

-----------------------------------------------------------------------------
(* Survival is a fraction.                                                 *)

AtRisk(cohort, end, t) == Cardinality({m \in cohort : Duration(m, end) >= t})
FailedAt(events, end, t) == Cardinality({m \in events : Duration(m, end) = t})
Survived(cohort, events, end, now) ==
  IF now.left = {} THEN now
  ELSE [left |-> now.left \ {Min(now.left)},
        product |-> <<now.product[1] * (AtRisk(cohort, end, Min(now.left)) - FailedAt(events, end, Min(now.left))),
                      now.product[2] * AtRisk(cohort, end, Min(now.left))>>]
Curve(cohort, events, times, end, last, curve) ==
  curve = [n \in 0 .. last |->
             IF n = 0 THEN [left |-> times, product |-> <<1, 1>>] ELSE Survived(cohort, events, end, curve[n - 1])]

\* A member of a cohort with days has a duration.
LEMMA DurationDated ==
  ASSUME NEW cohort, DatedCohort(cohort), NEW end \in Int
  PROVE  \A m \in cohort : Duration(m, end) \in Int
BY DEF DatedCohort, Duration, IsEvent

\* The product-limit estimate of a finite cohort has a positive denominator.
LEMMA SurvivalFraction ==
  ASSUME NEW cohort, DatedCohort(cohort), NEW end \in Int, NEW at
  PROVE  Survival(cohort, end, at) \in Fractions
<1> DEFINE events == {m \in cohort : IsEvent(m, end) /\ Duration(m, end) <= at}
           duration == [m \in events |-> Duration(m, end)]
           times == {Duration(m, end) : m \in events}
           X == [left : SUBSET times, product : Fractions]
           last == Cardinality(times)
           first == [left |-> times, product |-> <<1, 1>>]
           on == [now \in X |-> Survived(cohort, events, end, now)]
           whole == CHOOSE curve : Curve(cohort, events, times, end, last, curve)
<1>1. events \subseteq cohort /\ \A m \in cohort : Duration(m, end) \in Int
  BY DurationDated
<1>2. Survival(cohort, end, at) = whole[last].product
  BY DEF Survival, Curve, Survived, AtRisk, FailedAt
<1>3. IsFiniteSet(times) /\ times \subseteq Int
  <2>1. times = {duration[m] : m \in events}
    OBVIOUS
  <2>2. times \subseteq Int
    BY <1>1
  <2>3. IsFiniteSet(events)
    BY <1>1, SubFinite DEF DatedCohort
  <2> HIDE DEF duration, events, times
  <2> QED
    BY <2>1, <2>2, <2>3, ImageFinite
<1>4. ASSUME NEW t \in times PROVE AtRisk(cohort, end, t) \in Nat \ {0} /\ FailedAt(events, end, t) \in Nat
  <2> DEFINE risk == {m \in cohort : Duration(m, end) >= t}
             failed == {m \in events : Duration(m, end) = t}
  <2>1. risk \subseteq cohort /\ failed \subseteq cohort
    BY <1>1
  <2>2. risk # {}
    <3>1. PICK m \in events : Duration(m, end) = t
      OBVIOUS
    <3>2. m \in cohort /\ Duration(m, end) \in Int
      BY <1>1
    <3> HIDE DEF events
    <3> QED
      BY <3>1, <3>2
  <2>3. AtRisk(cohort, end, t) = Cardinality(risk) /\ FailedAt(events, end, t) = Cardinality(failed)
    BY DEF AtRisk, FailedAt
  <2> HIDE DEF risk, failed, events, times
  <2>4. IsFiniteSet(risk) /\ IsFiniteSet(failed)
    BY <2>1, SubFinite DEF DatedCohort
  <2>5. Cardinality(risk) \in Nat /\ Cardinality(failed) \in Nat /\ Cardinality(risk) # 0
    BY <2>2, <2>4, FS_CardinalityType, FS_EmptySet
  <2> QED
    BY <2>3, <2>5
<1> HIDE DEF times, events
<1>5. ASSUME NEW now \in X PROVE Survived(cohort, events, end, now) \in X
  <2>1. now.left \subseteq times /\ now.product[1] \in Int /\ now.product[2] \in Nat \ {0}
    BY DEF Fractions
  <2>2. CASE now.left # {}
    <3> DEFINE t == Min(now.left)
               a == AtRisk(cohort, end, t)
               f == FailedAt(events, end, t)
    <3>1. IsFiniteSet(now.left) /\ now.left \subseteq Int
      BY <1>3, <2>1, SubFinite
    <3>2. t \in times
      BY <2>1, <2>2, <3>1, LeastNumber
    <3>3. a \in Nat \ {0} /\ f \in Nat
      BY <1>4, <3>2
    <3> HIDE DEF a, f
    <3>4. \A i \in Int, j \in Nat \ {0}, x \in Nat \ {0}, y \in Nat :
            i * (x - y) \in Int /\ j * x \in Nat \ {0}
      OBVIOUS
    <3>5. <<now.product[1] * (a - f), now.product[2] * a>> \in Fractions
      BY <2>1, <3>3, <3>4 DEF Fractions
    <3>6. Survived(cohort, events, end, now) =
            [left |-> now.left \ {t}, product |-> <<now.product[1] * (a - f), now.product[2] * a>>]
      BY <2>2 DEF Survived, a, f
    <3> HIDE DEF t
    <3> QED
      BY <2>1, <3>5, <3>6
  <2>3. CASE now.left = {}
    BY <2>3 DEF Survived
  <2> QED
    BY <2>2, <2>3
<1>6. first \in X
  BY DEF Fractions
<1>7. \A now \in X : on[now] = Survived(cohort, events, end, now)
  OBVIOUS
<1>8. last \in Nat
  BY <1>3, FS_CardinalityType
<1> HIDE DEF on, X, last
<1>9. \E curve : Curve(cohort, events, times, end, last, curve)
  <2>1. PICK step : Stepped(first, on, last, step)
    BY <1>8, StepsExist
  <2>2. \A n \in 0 .. last : step[n] = IF n = 0 THEN first ELSE on[step[n - 1]]
    BY <2>1 DEF Stepped
  <2> HIDE DEF first
  <2>3. \A n \in 0 .. last : step[n] \in X
    <3>1. step[0] \in X
      BY <1>6, <1>8, <2>2
    <3>2. ASSUME NEW n \in 1 .. last, step[n - 1] \in X PROVE step[n] \in X
      <4>1. n \in 0 .. last /\ n # 0
        BY <1>8
      <4> QED
        BY <1>5, <1>7, <2>2, <3>2, <4>1
    <3> QED
      BY <1>8, <3>1, <3>2, StepsStay
  <2>4. \A n \in 0 .. last : n # 0 => n - 1 \in 0 .. last
    BY <1>8
  <2>5. step = [n \in 0 .. last |-> IF n = 0 THEN first ELSE Survived(cohort, events, end, step[n - 1])]
    BY <1>7, <2>1, <2>3, <2>4 DEF Stepped
  <2>6. Curve(cohort, events, times, end, last, step)
    BY <2>5 DEF Curve, first
  <2> QED
    BY <2>6
<1>10. Curve(cohort, events, times, end, last, whole)
  BY <1>9
<1> HIDE DEF whole
<1>11. \A n \in 0 .. last : whole[n] = IF n = 0 THEN first ELSE Survived(cohort, events, end, whole[n - 1])
  BY <1>10 DEF Curve
<1> HIDE DEF first
<1>12. whole[0] \in X
  BY <1>6, <1>8, <1>11
<1>13. ASSUME NEW n \in 1 .. last, whole[n - 1] \in X PROVE whole[n] \in X
  <2>1. n \in 0 .. last /\ n # 0
    BY <1>8
  <2> QED
    BY <1>5, <1>11, <1>13, <2>1
<1>14. whole[last] \in X
  <2>1. \A n \in 0 .. last : whole[n] \in X
    BY <1>8, <1>12, <1>13, StepsStay
  <2> QED
    BY <1>8, <2>1
<1> QED
  BY <1>2, <1>14 DEF X

-----------------------------------------------------------------------------
(* The figures of drafts: counts, fractions, and doubled medians.          *)

\* The median of finitely many numbers, doubled, is a number, or none of none.
LEMMA MedianDated ==
  ASSUME NEW value, IsFiniteSet(DOMAIN value), \A r \in DOMAIN value : value[r] \in Int
  PROVE  TwiceMedian(value) \in Int \cup {None}
<1> DEFINE n == Cardinality(DOMAIN value)
           values == {value[r] : r \in DOMAIN value}
           Upto(v) == {r \in DOMAIN value : value[r] <= v}
           Reaching(k) == {v \in values : Cardinality(Upto(v)) >= k}
<1>1. n \in Nat
  BY FS_CardinalityType
<1>2. IsFiniteSet(values) /\ values \subseteq Int
  BY ImageFinite
<1>3. ASSUME NEW k \in Int, k <= n, n # 0 PROVE Nth(value, k) \in Int
  <2>1. Nth(value, k) = Min(Reaching(k))
    BY DEF Nth, Range
  <2>2. DOMAIN value # {}
    BY <1>3, FS_EmptySet
  <2>3. values # {}
    BY <2>2
  <2> HIDE DEF values
  <2>4. PICK x \in values : \A y \in values : y <= x
    BY <1>2, <2>3, LeastNumber
  <2>5. Upto(x) = DOMAIN value
    BY <2>4 DEF values
  <2>6. x \in Reaching(k)
    <3>1. Cardinality(Upto(x)) = n
      BY <2>5
    <3> HIDE DEF Upto, n
    <3> QED
      BY <1>1, <1>3, <3>1
  <2>7. Reaching(k) \subseteq values
    OBVIOUS
  <2> HIDE DEF Reaching
  <2>8. IsFiniteSet(Reaching(k)) /\ Reaching(k) \subseteq Int /\ Reaching(k) # {}
    BY <1>2, <2>6, <2>7, SubFinite
  <2> QED
    BY <2>1, <2>8, LeastNumber
<1>4. TwiceMedian(value) = IF n = 0 THEN None ELSE Nth(value, (n + 1) \div 2) + Nth(value, (n \div 2) + 1)
  BY DEF TwiceMedian
<1> HIDE DEF n
<1>5. n # 0 => /\ (n + 1) \div 2 \in Int /\ (n + 1) \div 2 <= n
               /\ (n \div 2) + 1 \in Int /\ (n \div 2) + 1 <= n
  BY <1>1
<1> QED
  BY <1>3, <1>4, <1>5

TypedDraft(def, d) ==
  /\ d.cohort \in Nat /\ d.observed \in Nat
  /\ def.kind \in Rated => d.value \in Fractions \cup {None}
  /\ def.kind = "median" => d.value \in Int \cup {None}
  /\ d.dimension \in DimensionValues

\* A draft made of typed figures is typed.
LEMMA DraftTyped ==
  ASSUME NEW def, NEW subject, NEW year, NEW window, NEW dimension \in DimensionValues, NEW eligible,
         NEW cohort \in Nat, NEW observed \in Nat, NEW value,
         def.kind \in Rated => value \in Fractions \cup {None},
         def.kind = "median" => value \in Int \cup {None}
  PROVE  TypedDraft(def, Draft(def, subject, year, window, dimension, eligible, cohort, observed, value))
BY DEF TypedDraft, Draft

\* A rate is a fraction or none.
LEMMA RateTyped == \A n, d \in Nat : Rate(n, d) \in Fractions \cup {None}
BY DEF Rate, NoRate, Fractions

\* The disposition of a case or none is a value of a dimension.
LEMMA SomeDimensions == None \in DimensionValues /\ FinalDispositions \subseteq DimensionValues /\ "unknown" \in DimensionValues
BY DEF DimensionValues

\* How many of finitely many rows satisfy something is a number.
LEMMA Counted ==
  ASSUME NEW some, IsFiniteSet(some)
  PROVE  \A picked \in SUBSET some : Cardinality(picked) \in Nat
BY SubFinite, FS_CardinalityType

\* Of finitely many rows, those of a period are finitely many.
LEMMA PeriodFinite ==
  ASSUME NEW at, IsFiniteSet(DOMAIN at), NEW year
  PROVE  IsFiniteSet(RowsOf(at, year)) /\ RowsOf(at, year) \subseteq DOMAIN at
BY SubFinite DEF RowsOf

\* The drafts of counts and shares are typed.
LEMMA CountTyped ==
  ASSUME NEW frame, FiniteFrame(frame), NEW def, def.population \in PlainPopulations, NEW subject
  PROVE  /\ def.kind = "count" => \A d \in ComputeCount(frame, def, subject).drafts : TypedDraft(def, d)
         /\ def.kind = "share" => \A d \in ComputeShare(frame, def, subject).drafts : TypedDraft(def, d)
<1> DEFINE at == PopulationRows(frame, def, subject)
           years == Periods(at, def.byYear)
           matching(year) == {r \in RowsOf(at, year) : IsCounted(def, r)}
           counted(year) == IF def.population = "defendants"
                            THEN DistinctPersons(frame, {r.id : r \in matching(year)}) ELSE matching(year)
<1>1. IsFiniteSet(DOMAIN at)
  BY PopulationFinite
<1> HIDE DEF at
<1>2. \A year : IsFiniteSet(RowsOf(at, year)) /\ Cardinality(RowsOf(at, year)) \in Nat
  BY <1>1, PeriodFinite, FS_CardinalityType
<1>3. \A year : IsFiniteSet(matching(year)) /\ Cardinality(matching(year)) \in Nat
  BY <1>2, SubFinite, FS_CardinalityType
<1>4. \A cases : Cardinality(DistinctPersons(frame, cases)) \in Nat
  <2> SUFFICES ASSUME NEW cases PROVE Cardinality(DistinctPersons(frame, cases)) \in Nat
    OBVIOUS
  <2> DEFINE all == frame.charges \cup frame.decisions \cup frame.sentences
             some == {x \in all : x.person # None /\ x.case \in cases}
             f == [r \in some |-> r.person]
  <2>1. IsFiniteSet(all)
    BY FS_Union DEF FiniteFrame
  <2>2. some \subseteq all
    OBVIOUS
  <2>3. DistinctPersons(frame, cases) = {f[r] : r \in some}
    BY DEF DistinctPersons
  <2> HIDE DEF f, some, all
  <2>4. IsFiniteSet({f[r] : r \in some})
    BY <2>1, <2>2, SubFinite, ImageFinite
  <2> QED
    BY <2>3, <2>4, FS_CardinalityType
<1>5. \A year : Cardinality(counted(year)) \in Nat
  BY <1>3, <1>4
<1>6. ASSUME def.kind = "count" PROVE \A d \in ComputeCount(frame, def, subject).drafts : TypedDraft(def, d)
  <2> DEFINE draft(year) == Draft(def, subject, year, None, None, Cardinality(RowsOf(at, year)),
                                  Cardinality(RowsOf(at, year)), Cardinality(counted(year)), None)
  <2>1. ComputeCount(frame, def, subject).drafts = {draft(year) : year \in years}
    BY DEF ComputeCount, at
  <2> HIDE DEF counted
  <2>2. \A year : TypedDraft(def, draft(year))
    BY <1>2, <1>5, <1>6, DraftTyped, SomeDimensions DEF Rated
  <2> HIDE DEF draft
  <2> QED
    BY <2>1, <2>2
<1>7. ASSUME def.kind = "share" PROVE \A d \in ComputeShare(frame, def, subject).drafts : TypedDraft(def, d)
  <2> DEFINE n(year) == Cardinality(matching(year))
             draft(year) == Draft(def, subject, year, None, None, Cardinality(RowsOf(at, year)),
                                  Cardinality(RowsOf(at, year)), n(year),
                                  Rate(n(year), Cardinality(RowsOf(at, year))))
  <2>1. ComputeShare(frame, def, subject).drafts = {draft(year) : year \in years}
    BY DEF ComputeShare, at
  <2> HIDE DEF matching
  <2>2. \A year : TypedDraft(def, draft(year))
    BY <1>2, <1>3, <1>7, DraftTyped, RateTyped, SomeDimensions
  <2> HIDE DEF draft
  <2> QED
    BY <2>1, <2>2
<1> QED
  BY <1>6, <1>7

\* The drafts of windowed rates and survival are typed.
LEMMA WindowTyped ==
  ASSUME NEW frame, DatedFrame(frame), NEW def, def.kind \in WindowedKinds, def.index \in IndexKinds, NEW subject
  PROVE  \A d \in ComputeWindows(frame, def, subject).drafts : TypedDraft(def, d)
<1> DEFINE cohort == Cohort(frame, def, subject)
           at == [m \in cohort |-> m.anchor]
           years == Periods(at, def.byYear)
           point(year, w) ==
             IF def.kind = "survival" THEN SurvivalPoint(def, subject, year, w, RowsOf(at, year), frame.end)
             ELSE FixedWindowRate(def, subject, year, w, RowsOf(at, year), frame.end)
<1>1. DatedCohort(cohort) /\ frame.end \in Int
  BY CohortDated DEF DatedFrame
<1> HIDE DEF cohort
<1>2. \A year : DatedCohort(RowsOf(at, year))
  BY <1>1, SubFinite DEF DatedCohort, RowsOf
<1>3. ASSUME NEW of, DatedCohort(of), NEW year, NEW w
      PROVE  TypedDraft(def, FixedWindowRate(def, subject, year, w, of, frame.end))
  <2> DEFINE followed == {m \in of : IsFollowed(m, w, frame.end)}
             reached == {m \in followed : Reaches(m, w)}
  <2>1. followed \subseteq of /\ reached \subseteq of
    OBVIOUS
  <2>2. FixedWindowRate(def, subject, year, w, of, frame.end) =
          Draft(def, subject, year, w, None, Cardinality(of), Cardinality(followed), Cardinality(reached),
                Rate(Cardinality(reached), Cardinality(followed)))
    BY DEF FixedWindowRate
  <2> HIDE DEF followed, reached
  <2>3. Cardinality(followed) \in Nat /\ Cardinality(reached) \in Nat
    BY <1>3, <2>1, Counted DEF DatedCohort
  <2>4. Rate(Cardinality(reached), Cardinality(followed)) \in Fractions \cup {None}
    BY <2>3, RateTyped
  <2>5. def.kind # "median"
    BY DEF WindowedKinds
  <2> QED
    BY <2>2, <2>3, <2>4, <2>5, DraftTyped, SomeDimensions
<1>4. ASSUME NEW of, DatedCohort(of), NEW year, NEW w
      PROVE  TypedDraft(def, SurvivalPoint(def, subject, year, w, of, frame.end))
  <2> DEFINE n == Cardinality(of)
             s == Survival(of, frame.end, w)
             reached == {m \in of : IsEvent(m, frame.end) /\ Duration(m, frame.end) <= w}
             value == IF n = 0 THEN NoRate ELSE <<s[2] - s[1], s[2]>>
  <2>1. SurvivalPoint(def, subject, year, w, of, frame.end) =
          Draft(def, subject, year, w, None, n, n, Cardinality(reached), value)
    BY DEF SurvivalPoint
  <2>2. n \in Nat /\ Cardinality(reached) \in Nat
    BY <1>4, Counted DEF DatedCohort
  <2>3. s \in Fractions
    BY <1>1, <1>4, SurvivalFraction
  <2> HIDE DEF n, s, reached
  <2>4. value \in Fractions \cup {None}
    BY <2>3 DEF Fractions, NoRate
  <2> HIDE DEF value
  <2>5. def.kind # "median"
    BY DEF WindowedKinds
  <2> QED
    BY <2>1, <2>2, <2>4, <2>5, DraftTyped, SomeDimensions
<1>5. \A year, w : TypedDraft(def, point(year, w))
  BY <1>2, <1>3, <1>4
<1>6. ComputeWindows(frame, def, subject).drafts = {point(year, w) : year \in years, w \in def.windows}
  BY DEF ComputeWindows, cohort
<1> HIDE DEF point, years
<1> QED
  BY <1>5, <1>6

\* The drafts of a distribution are typed.
LEMMA DistributionTyped ==
  ASSUME NEW frame, FiniteFrame(frame), NEW def, def.kind = "distribution",
         def.population \in PlainPopulations, NEW subject
  PROVE  \A d \in ComputeDistribution(frame, def, subject).drafts : TypedDraft(def, d)
<1> DEFINE at == PopulationRows(frame, def, subject)
           years == Periods(at, def.byYear)
           of(year, v) == {r \in RowsOf(at, year) : r.disposition = v}
           draft(year, v) ==
             Draft(def, subject, year, None, v, Cardinality(RowsOf(at, year)), Cardinality(RowsOf(at, year)),
                   Cardinality(of(year, v)), None)
<1>1. IsFiniteSet(DOMAIN at)
  BY PopulationFinite
<1>2. ComputeDistribution(frame, def, subject).drafts = {draft(year, v) : year \in years, v \in FinalDispositions}
  BY DEF ComputeDistribution
<1> HIDE DEF at
<1>3. ASSUME NEW year, NEW v PROVE Cardinality(RowsOf(at, year)) \in Nat /\ Cardinality(of(year, v)) \in Nat
  <2>1. IsFiniteSet(RowsOf(at, year)) /\ of(year, v) \subseteq RowsOf(at, year)
    BY <1>1, PeriodFinite
  <2> HIDE DEF of
  <2> QED
    BY <2>1, Counted
<1> HIDE DEF of
<1>4. \A year, v : v \in FinalDispositions => TypedDraft(def, draft(year, v))
  BY <1>3, DraftTyped, SomeDimensions DEF Rated
<1> HIDE DEF draft, years
<1> QED
  BY <1>2, <1>4

\* The lead charge's category, or that it is unknown, is a value of a dimension.
LEMMA LeadTyped ==
  ASSUME NEW frame, DatedFrame(frame), NEW case
  PROVE  LeadCategory(frame, case) \in DimensionValues
<1> DEFINE convicted == {c \in frame.charges : c.case = case /\ c.disposition \in Convicted}
           Leads(c) == \A d \in convicted : c.severity < d.severity \/ (c.severity = d.severity /\ c.id <= d.id)
           lead == CHOOSE c \in convicted : Leads(c)
           a == [c \in convicted |-> -c.severity]
           b == [c \in convicted |-> -c.id]
<1>1. LeadCategory(frame, case) = IF convicted = {} \/ lead.category = None THEN "unknown" ELSE lead.category
  BY DEF LeadCategory
<1>2. convicted \subseteq frame.charges
  OBVIOUS
<1>3. IsFiniteSet(convicted)
  BY <1>2, SubFinite DEF DatedFrame, TypedFrame, FiniteFrame
<1>4. \A c \in convicted : c.severity \in Int /\ c.id \in Int /\ c.category \in DimensionValues
  BY <1>2 DEF DatedFrame, TypedFrame
<1> HIDE DEF convicted
<1>5. convicted # {} => lead \in convicted
  <2> SUFFICES ASSUME convicted # {} PROVE \E c \in convicted : Leads(c)
    OBVIOUS
  <2>1. \A c \in convicted : a[c] \in Int /\ b[c] \in Int
    BY <1>4
  <2>2. PICK c \in convicted : \A d \in convicted : a[d] < a[c] \/ (a[d] = a[c] /\ b[d] <= b[c])
    <3> HIDE DEF a, b
    <3> QED
      BY <1>3, <2>1, LastByNumbers
  <2>3. Leads(c)
    BY <1>4, <2>2
  <2> QED
    BY <2>3
<1> HIDE DEF lead
<1> QED
  BY <1>1, <1>4, <1>5, SomeDimensions

\* What a median measures of a row is a number or none.
LEMMA MeasureDated ==
  ASSUME NEW frame, DatedFrame(frame), NEW def \in Definitions, def.kind = "median", NEW subject
  PROVE  \A r \in DOMAIN PopulationRows(frame, def, subject) : Measure(def, r) \in Int \cup {None}
<1> DEFINE some == IF def.population = "disposed_cases"
                   THEN AttributedCases(frame, def.rule, subject, [r \in DisposedCases(frame) |-> r.at])
                   ELSE AttributedSentences(frame, def.rule, subject)
           anchored == [r \in some |-> Anchor(def.population, r)]
<1>1. def.population = IF def.measure = "days_to_disposition" THEN "disposed_cases" ELSE "sentences"
  BY MediansAssumption
<1>2. def.measure \in Measures
  BY DefinitionsSound DEF Unambiguous, Defined, DescriptiveKinds
<1>3. PopulationRows(frame, def, subject) = [r \in WithinCoverage(frame, anchored) |-> anchored[r]]
  BY <1>1 DEF PopulationRows
<1>4. DOMAIN PopulationRows(frame, def, subject) \subseteq some
  BY <1>3 DEF WithinCoverage
<1>5. CASE def.measure = "days_to_disposition"
  <2>1. some \subseteq DisposedCases(frame)
    BY <1>1, <1>5, GateRowsAmong DEF AttributedCases
  <2>2. \A r \in some : r.at \in Int /\ r.filed \in Int \cup {None}
    BY <2>1, DisposedDated
  <2> HIDE DEF some
  <2> QED
    BY <1>4, <1>5, <2>2 DEF Measure
<1>6. CASE def.measure # "days_to_disposition"
  <2>1. some \subseteq frame.sentences
    BY <1>1, <1>6, GateRowsAmong DEF AttributedSentences
  <2>2. \A r \in some : r.days \in Int \cup {None} /\ r.probation \in Int \cup {None}
    BY <2>1 DEF DatedFrame
  <2>3. def.measure = "days" \/ def.measure = "probation"
    BY <1>2, <1>6 DEF Measures
  <2> HIDE DEF some
  <2> QED
    BY <1>4, <1>6, <2>2, <2>3 DEF Measure
<1> QED
  BY <1>5, <1>6

\* The drafts of a median are typed.
LEMMA MedianTyped ==
  ASSUME NEW frame, DatedFrame(frame), NEW def \in Definitions, def.kind = "median", NEW subject
  PROVE  \A d \in ComputeMedian(frame, def, subject).drafts : TypedDraft(def, d)
<1> DEFINE at == PopulationRows(frame, def, subject)
           years == Periods(at, def.byYear)
           valued == {r \in DOMAIN at : Measure(def, r) # None}
           CategoryOf(r) == IF def.dimension = None THEN None ELSE LeadCategory(frame, r.case)
           draft(year, category) ==
             MedianDraft(def, subject, year, category, {r \in RowsOf(at, year) : CategoryOf(r) = category})
           present(year) == IF def.dimension = None THEN {None}
                            ELSE {CategoryOf(r) : r \in RowsOf(at, year) \cap valued}
<1>1. IsFiniteSet(DOMAIN at)
  <2>1. def.population \in PlainPopulations
    BY MediansAssumption DEF PlainPopulations
  <2> QED
    BY <2>1, PopulationFinite DEF DatedFrame, TypedFrame
<1>2. \A r \in DOMAIN at : Measure(def, r) \in Int \cup {None}
  BY MeasureDated
<1>3. ComputeMedian(frame, def, subject).drafts = UNION {{draft(year, c) : c \in present(year)} : year \in years}
  BY DEF ComputeMedian
<1>4. \A year : present(year) \subseteq DimensionValues
  BY LeadTyped, SomeDimensions
<1> HIDE DEF at
<1>5. ASSUME NEW picked \in SUBSET DOMAIN at, NEW year, NEW c \in DimensionValues
      PROVE  TypedDraft(def, MedianDraft(def, subject, year, c, picked))
  <2> DEFINE some == {r \in picked : Measure(def, r) # None}
             value == [r \in some |-> Measure(def, r)]
  <2>1. MedianDraft(def, subject, year, c, picked) =
          Draft(def, subject, year, None, c, Cardinality(picked), Cardinality(some), Cardinality(some),
                TwiceMedian(value))
    BY DEF MedianDraft
  <2>2. IsFiniteSet(some)
    BY <1>1, SubFinite
  <2>3. \A r \in some : value[r] \in Int
    BY <1>2
  <2>4. DOMAIN value = some
    OBVIOUS
  <2> HIDE DEF value, some
  <2>5. TwiceMedian(value) \in Int \cup {None}
    BY <2>2, <2>3, <2>4, MedianDated
  <2>6. Cardinality(some) \in Nat
    BY <2>2, FS_CardinalityType
  <2>7. def.kind \notin Rated
    BY DEF Rated
  <2> QED
    BY <2>1, <2>5, <2>6, <2>7, DraftTyped
<1>6. \A year : \A c \in DimensionValues : TypedDraft(def, draft(year, c))
  <2> SUFFICES ASSUME NEW year, NEW c \in DimensionValues PROVE TypedDraft(def, draft(year, c))
    OBVIOUS
  <2>1. {r \in RowsOf(at, year) : CategoryOf(r) = c} \subseteq DOMAIN at
    BY DEF RowsOf
  <2> HIDE DEF CategoryOf
  <2> QED
    BY <1>5, <2>1
<1> HIDE DEF draft, present, years
<1> QED
  BY <1>3, <1>4, <1>6

\* Whatever the kind of its definition, the drafts of a metric are typed.
LEMMA MetricTyped ==
  ASSUME NEW frame, DatedFrame(frame), NEW def \in Definitions, NEW subject
  PROVE  \A d \in ComputeMetric(frame, def, subject).drafts : TypedDraft(def, d)
<1>1. def.kind \in DescriptiveKinds
  BY DescriptiveDefinitions
<1>2. IF def.kind \in {"windowed_rate", "survival"} THEN def.index \in IndexKinds
      ELSE def.population \in PlainPopulations
  BY <1>1, DefinitionsSound DEF Unambiguous, Defined, WindowedKinds
<1>3. Nothing.drafts = {}
  BY DEF Nothing
<1>4. FiniteFrame(frame)
  BY DEF DatedFrame, TypedFrame
<1>5. CASE def.kind = "count"
  BY <1>2, <1>3, <1>4, <1>5, CountTyped DEF ComputeMetric
<1>6. CASE def.kind = "share"
  BY <1>2, <1>3, <1>4, <1>6, CountTyped DEF ComputeMetric
<1>7. CASE def.kind \in {"windowed_rate", "survival"}
  BY <1>2, <1>3, <1>7, WindowTyped DEF ComputeMetric, WindowedKinds
<1>8. CASE def.kind = "distribution"
  BY <1>2, <1>3, <1>4, <1>8, DistributionTyped DEF ComputeMetric
<1>9. CASE def.kind = "median"
  BY <1>3, <1>9, MedianTyped DEF ComputeMetric
<1> QED
  BY <1>1, <1>5, <1>6, <1>7, <1>8, <1>9 DEF DescriptiveKinds

-----------------------------------------------------------------------------
(* The rows of a comparison are in one order, and its pages part them.     *)

\* Every observation is of a definition, a subject and typed figures.
LEMMA ObservationsTyped ==
  ASSUME AllDated(rows), figures = ComputeAll(rows, merged, Definitions)
  PROVE  \A o \in Observations :
           /\ o.def \in Definitions /\ TypedDraft(o.def, o.draft)
           /\ o.subject = Subject(o.subject.type, o.subject.id)
<1> SUFFICES ASSUME NEW o \in Observations
             PROVE  /\ o.def \in Definitions /\ TypedDraft(o.def, o.draft)
                    /\ o.subject = Subject(o.subject.type, o.subject.id)
  OBVIOUS
<1>0. PICK s \in DOMAIN figures :
        \E j \in DOMAIN figures[s] : \E def \in DOMAIN figures[s][j] : \E d \in figures[s][j][def].drafts :
          o = Observation(s, j, def, d)
  BY DEF Observations, ObservationsOf
<1>1. PICK j \in DOMAIN figures[s] :
        \E def \in DOMAIN figures[s][j] : \E d \in figures[s][j][def].drafts : o = Observation(s, j, def, d)
  BY <1>0
<1>2. PICK def \in DOMAIN figures[s][j] : \E d \in figures[s][j][def].drafts : o = Observation(s, j, def, d)
  BY <1>1
<1>3. o.def = def /\ o.subject = j /\ o.draft \in figures[s][j][def].drafts
  BY <1>2 DEF Observation
<1> DEFINE frame == Frame(rows, merged, s)
<1>4. DOMAIN figures = ComputedSources(rows)
  BY DEF ComputeAll
<1>5. figures[s] = [subject \in SubjectsOf(frame) |-> Descriptive(frame, Definitions, subject)]
  BY <1>4 DEF ComputeAll
<1>6. DatedFrame(frame)
  <2>1. s \in Sources /\ HasCoverage(s)
    BY <1>4 DEF ComputedSources
  <2> QED
    BY <2>1, FrameDated
<1> HIDE DEF frame
<1>7. j \in SubjectsOf(frame) /\ figures[s][j] = Descriptive(frame, Definitions, j)
  BY <1>5
<1>8. def \in Definitions /\ figures[s][j][def] = ComputeMetric(frame, def, j)
  BY <1>7 DEF Descriptive
<1>9. TypedDraft(def, o.draft)
  BY <1>3, <1>6, <1>8, MetricTyped
<1>10. j = Subject(j.type, j.id)
  BY <1>7 DEF SubjectsOf, Subject
<1> QED
  BY <1>3, <1>8, <1>9, <1>10

\* A row has a figure or none to sort by.
LEMMA SortTyped ==
  ASSUME NEW o, o.def \in Definitions, TypedDraft(o.def, o.draft), NEW sort \in Sorts,
         Collation[JudgeName[o.subject.id]] \in Int
  PROVE  SortFigure(o, sort) \in Fractions \cup {None}
<1>1. \A n \in Int \cup {None} : Whole(n) \in Fractions \cup {None}
  BY DEF Whole, Fractions
<1>2. RateOfRow(o) \in Fractions \cup {None} /\ ValueOfRow(o) \in Int \cup {None}
  BY DEF RateOfRow, ValueOfRow, TypedDraft
<1>3. o.draft.observed \in Int /\ o.draft.cohort \in Int
  BY DEF TypedDraft
<1>4. StoredFigure(o, sort) \in Fractions \cup {None}
  BY <1>1, <1>2, <1>3 DEF StoredFigure, Sorts
<1> QED
  BY <1>4 DEF SortFigure

\* The judge of a row of a comparison has a name, and both have a place in the collation.
LEMMA TieBreakTyped ==
  ASSUME NEW q, NEW o, Serving(q, o.subject.id) # {}, TypedDraft(o.def, o.draft)
  PROVE  /\ {JudgeName[o.subject.id], o.subject.id, o.draft.dimension} \subseteq DOMAIN Collation
         /\ TieBreak(o)[1] \in Int /\ TieBreak(o)[2] \in Int /\ TieBreak(o)[3] \in Int
<1>1. o.subject.id \in DOMAIN JudgeName
  BY ReadsAssumption DEF Serving
<1>2. {JudgeName[o.subject.id], o.subject.id, o.draft.dimension} \subseteq DOMAIN Collation
  BY <1>1, ReadsAssumption DEF TypedDraft
<1>3. /\ Collation[JudgeName[o.subject.id]] \in Int
      /\ Collation[o.subject.id] \in Int /\ Collation[o.draft.dimension] \in Int
  BY <1>2, ReadsAssumption
<1>4. TieBreak(o) = <<Collation[JudgeName[o.subject.id]], Collation[o.subject.id], Collation[o.draft.dimension]>>
  BY DEF TieBreak
<1> HIDE DEF TieBreak
<1> QED
  BY <1>2, <1>3, <1>4

Single(o, p) == o.subject = p.subject => o.source = p.source /\ o.draft.year = p.draft.year

\* Where each judge has at most one row of a source and period, the rows of a comparison
\* are in a strict order.
LEMMA CohortOrdered ==
  ASSUME OneRowPerSlot(Observations), AllDated(rows), figures = ComputeAll(rows, merged, Definitions),
         NEW q \in Queries, \A o, p \in CohortRows(Observations, q) : Single(o, p)
  PROVE  LET rowset == CohortRows(Observations, q)
         IN /\ IsFiniteSet(rowset)
            /\ StrictOrder(rowset, {e \in rowset \X rowset : RowBefore(e[1], e[2], q)})
<1> DEFINE rowset == CohortRows(Observations, q)
<1>1. \A o \in rowset :
        /\ o \in Observations /\ o.def.slug = q.slug /\ o.draft.window = q.window
        /\ o.subject.type = "judge" /\ Serving(q, o.subject.id) # {}
  BY DEF CohortRows
<1>2. IsFiniteSet(rowset)
  <2>1. rowset \subseteq Observations
    BY <1>1
  <2> QED
    BY <2>1, SubFinite DEF OneRowPerSlot
<1> HIDE DEF rowset
<1>3. ASSUME NEW o \in rowset
      PROVE  /\ o.def \in Definitions /\ TypedDraft(o.def, o.draft)
             /\ o.subject = Subject("judge", o.subject.id)
             /\ {JudgeName[o.subject.id], o.subject.id, o.draft.dimension} \subseteq DOMAIN Collation
             /\ TieBreak(o)[1] \in Int /\ TieBreak(o)[2] \in Int /\ TieBreak(o)[3] \in Int
  <2>1. /\ o.def \in Definitions /\ TypedDraft(o.def, o.draft)
        /\ o.subject = Subject("judge", o.subject.id)
    BY <1>1, ObservationsTyped
  <2> QED
    BY <1>1, <2>1, TieBreakTyped
<1>4. ASSUME NEW o \in rowset PROVE SortFigure(o, q.sort) \in Fractions \cup {None}
  <2>1. Collation[JudgeName[o.subject.id]] \in Int
    BY <1>3, ReadsAssumption
  <2>2. q.sort \in Sorts
    BY ReadsAssumption
  <2> QED
    BY <1>3, <2>1, <2>2, SortTyped
<1>5. ASSUME NEW o \in rowset, NEW p \in rowset, TieBreak(o) = TieBreak(p) PROVE o = p
  <2>1. Collation[o.subject.id] = Collation[p.subject.id] /\ Collation[o.draft.dimension] = Collation[p.draft.dimension]
    BY <1>5 DEF TieBreak
  <2>2. o.subject.id = p.subject.id /\ o.draft.dimension = p.draft.dimension
    BY <1>3, <2>1, ReadsAssumption
  <2>3. o.subject = p.subject
    BY <1>3, <2>2
  <2>4. o.source = p.source /\ o.draft.year = p.draft.year
    BY <2>3 DEF Single, rowset
  <2>5. o.def = p.def
    BY <1>1, <1>3, DefinitionsSound DEF Unambiguous
  <2>6. Slot(o.draft) = Slot(p.draft)
    BY <1>1, <2>2, <2>4 DEF Slot
  <2> QED
    BY <1>1, <2>3, <2>4, <2>5, <2>6 DEF OneRowPerSlot
<1>6. \A o \in rowset : \A n \in 1 .. 3 : TieBreak(o)[n] \in Int
  <2>1. \A n \in 1 .. 3 : n = 1 \/ n = 2 \/ n = 3
    OBVIOUS
  <2> QED
    BY <1>3, <2>1
<1>7. StrictOrder(rowset, {e \in rowset \X rowset : RowBefore(e[1], e[2], q)})
  BY <1>4, <1>5, <1>6, RowsOrdered
<1> QED
  BY <1>2, <1>7 DEF rowset

\* Rows in a strict order are parted by the pages that a client follows.
LEMMA PagesPart ==
  ASSUME NEW q \in Queries, NEW rowset, IsFiniteSet(rowset),
         StrictOrder(rowset, {e \in rowset \X rowset : RowBefore(e[1], e[2], q)})
  PROVE  LET total == Cardinality(rowset)
             offsets == Followed(total, q)
         IN /\ \A o \in rowset : \E n \in offsets : \A m \in offsets : o \in PageOf(rowset, q, m) <=> m = n
            /\ \A n \in offsets :
                 LET page == Cardinality(PageOf(rowset, q, n))
                 IN IF NextOffset(total, q, n) = None THEN page = total - n ELSE page = q.limit
<1> DEFINE total == Cardinality(rowset)
           offsets == Followed(total, q)
           before == {e \in rowset \X rowset : RowBefore(e[1], e[2], q)}
           rank == [o \in rowset |-> Position(rowset, o, q)]
           limit == q.limit
<1>1. limit \in Nat \ {0}
  BY ReadsAssumption
<1>2. total \in Nat
  BY FS_CardinalityType
<1>3. \A o \in rowset : PlaceOf(rowset, before, o) = rank[o]
  <2> SUFFICES ASSUME NEW o \in rowset PROVE PlaceOf(rowset, before, o) = Position(rowset, o, q)
    OBVIOUS
  <2>1. {y \in rowset : <<y, o>> \in before} = {p \in rowset : RowBefore(p, o, q)}
    OBVIOUS
  <2> QED
    BY <2>1 DEF PlaceOf, Position
<1> HIDE DEF before, rank
<1>4. /\ \A o \in rowset : rank[o] \in 0 .. total - 1
      /\ \A o, p \in rowset : rank[o] = rank[p] => o = p
      /\ \A k \in 0 .. total - 1 : \E o \in rowset : rank[o] = k
  <2>1. StrictOrder(rowset, before)
    BY DEF before
  <2> QED
    BY <1>3, <2>1, RanksOnce
<1>5. \A n : PageOf(rowset, q, n) = {o \in rowset : rank[o] \in n .. n + limit - 1}
  BY DEF PageOf, rank
<1>6. \A n \in offsets : \E j \in Nat : n = j * limit
  <2>1. 0 \in Nat /\ 0 * limit = 0
    BY <1>1
  <2> QED
    BY <1>2, <2>1 DEF Followed
<1>7. \A n \in offsets : n \in Nat /\ (n = 0 \/ n < total)
  <2>1. \A j \in Nat : j * limit \in Nat
    BY <1>1
  <2>2. \A n \in offsets : n \in Nat
    BY <1>6, <2>1
  <2> QED
    BY <2>2 DEF Followed
<1> HIDE DEF total, limit
<1>8. ASSUME NEW o \in rowset
      PROVE  \E n \in offsets : \A m \in offsets : o \in PageOf(rowset, q, m) <=> m = n
  <2> DEFINE p == rank[o]
  <2>1. p \in Nat /\ p < total
    BY <1>2, <1>4
  <2> HIDE DEF p
  <2>2. PICK k \in Nat : /\ k <= p /\ p \in k * limit .. k * limit + limit - 1
                         /\ \A j \in Nat : p \in j * limit .. j * limit + limit - 1 => j = k
    BY <1>1, <2>1, PageNumber
  <2>3. k * limit \in Nat
    BY <1>1
  <2>4. k * limit \in offsets
    <3>1. CASE k = 0
      <4>1. k * limit = 0
        BY <1>1, <3>1
      <4> QED
        BY <4>1 DEF Followed
    <3>2. CASE k # 0
      <4>1. k \in 1 .. total
        BY <1>2, <2>1, <2>2, <3>2
      <4>2. k * limit < total
        BY <1>1, <1>2, <2>1, <2>2, <2>3
      <4> QED
        BY <4>1, <4>2 DEF Followed, limit
    <3> QED
      BY <3>1, <3>2
  <2>5. ASSUME NEW m \in offsets PROVE o \in PageOf(rowset, q, m) <=> m = k * limit
    <3>1. PICK j \in Nat : m = j * limit
      BY <1>6
    <3>2. o \in PageOf(rowset, q, m) <=> p \in m .. m + limit - 1
      BY <1>5 DEF p
    <3> QED
      BY <2>2, <3>1, <3>2
  <2> QED
    BY <2>4, <2>5
<1>9. ASSUME NEW n \in offsets
      PROVE  LET page == Cardinality(PageOf(rowset, q, n))
             IN IF NextOffset(total, q, n) = None THEN page = total - n ELSE page = q.limit
  <2>1. n \in Nat /\ (n = 0 \/ n < total)
    BY <1>7
  <2>2. Cardinality(PageOf(rowset, q, n)) = IF n + limit < total THEN limit ELSE total - n
    <3>1. \A o \in rowset : rank[o] \in 0 .. Cardinality(rowset) - 1
      BY <1>4 DEF total
    <3>2. \A o, p \in rowset : rank[o] = rank[p] => o = p
      BY <1>4
    <3>3. \A k \in 0 .. Cardinality(rowset) - 1 : \E o \in rowset : rank[o] = k
      BY <1>4 DEF total
    <3>4. n \in Nat /\ (n = 0 \/ n < Cardinality(rowset))
      BY <2>1 DEF total
    <3> HIDE DEF offsets
    <3>5. Cardinality(RankedFrom(rowset, rank, n, limit)) =
            IF n + limit < Cardinality(rowset) THEN limit ELSE Cardinality(rowset) - n
      BY <1>1, <3>1, <3>2, <3>3, <3>4, PageSize
    <3>6. PageOf(rowset, q, n) = RankedFrom(rowset, rank, n, limit)
      BY <1>5 DEF RankedFrom
    <3> QED
      BY <3>5, <3>6 DEF total
  <2>3. n + limit # None
    BY <1>1, <2>1, NullAssumption
  <2>4. NextOffset(total, q, n) = IF n + limit < total THEN n + limit ELSE None
    BY DEF NextOffset, limit
  <2> DEFINE page == Cardinality(PageOf(rowset, q, n))
             next == NextOffset(total, q, n)
  <2>5. next = IF n + limit < total THEN n + limit ELSE None
    BY <2>4
  <2>6. page = IF n + limit < total THEN limit ELSE total - n
    BY <2>2
  <2> HIDE DEF page, next
  <2>7. IF next = None THEN page = total - n ELSE page = limit
    BY <2>3, <2>5, <2>6
  <2> QED
    BY <2>7 DEF limit, page, next
<1> QED
  BY <1>8, <1>9 DEF total

\* A client that follows next_offset reads every row of a comparison exactly once, and
\* every page but the last is full, whatever the rows, the merges, the registry and the
\* query, where a judge has at most one row of a source and a kind of period.
THEOREM PagesAlwaysPartition == Spec => []PagesPartition
<1>1. FiguresInv /\ RowsFinite /\ RowsDated => PagesPartition
  <2> SUFFICES ASSUME FiguresInv, RowsFinite, RowsDated,
                      NEW q \in Queries, \A o, p \in CohortRows(Observations, q) : Single(o, p)
               PROVE  LET rowset == CohortRows(Observations, q)
                          total == Cardinality(rowset)
                          offsets == Followed(total, q)
                      IN /\ \A o \in rowset : \E n \in offsets :
                              \A m \in offsets : o \in PageOf(rowset, q, m) <=> m = n
                         /\ \A n \in offsets :
                              LET page == Cardinality(PageOf(rowset, q, n))
                              IN IF NextOffset(total, q, n) = None THEN page = total - n ELSE page = q.limit
    BY DEF PagesPartition, Single
  <2>1. OneRowPerSlot(Observations)
    BY ObservationSlots DEF FiguresInv, RowsFinite
  <2>2. AllDated(rows) /\ figures = ComputeAll(rows, merged, Definitions)
    BY DEF FiguresInv, RowsFinite, RowsDated, AllDated
  <2> QED
    BY <2>1, <2>2, CohortOrdered, PagesPart
<1> QED
  BY <1>1, FiguresInvariant, FinitelyManyRows, RowsAlwaysDated, PTL

=============================================================================
