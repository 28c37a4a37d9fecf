------------------------- MODULE ModelCatalogProofs -------------------------
(***************************************************************************)
(* Machine-checked safety of ModelCatalog for every number of commands,    *)
(* sources, targets, subjects and releases, with crashes anywhere.         *)
(***************************************************************************)
EXTENDS ModelCatalog, WellFoundedInduction, TLAPS

-----------------------------------------------------------------------------
(* The inductive invariant.                                                *)

Places == {"idle", "row", "insert", "list", "open", "write", "record", "read", "publish",
           "commit", "over"}
Process(w) ==
  [pc : Places, release : Releases, snapshot : SUBSET Data, fresh : SUBSET Data,
   sources : SUBSET Sources, subjects : SUBSET Subjects, todo : SUBSET ModelKeys,
   fitted : SUBSET ModelKeys, mine : SUBSET Models, models : SUBSET Models, write : {w}]
RowsTyped(o) == DOMAIN o \subseteq Figures /\ \A k \in DOMAIN o : o[k] \in Cells

ProcsTyped ==
  /\ proc = [p \in Commands |-> proc[p]]
  /\ \A p \in Commands : proc[p] \in Process(proc[p].write) /\ RowsTyped(proc[p].write)

\* The catalogue a command has still to fit or to record; what it has fitted can be read back.
Fitting(p) ==
  /\ Alive(p) => \E n \in Data : proc[p].snapshot = {n}
  /\ \A k \in proc[p].fitted : files[Artifact(p, k)] = "whole"
  /\ proc[p].pc \in {"open", "write", "record", "read", "publish", "commit"} =>
        Wanted(p) \subseteq Existing(p) \cup proc[p].todo \cup proc[p].fitted
  /\ proc[p].pc \in {"record", "read", "publish", "commit"} => proc[p].todo = {}
  /\ proc[p].pc \notin {"open", "write", "record"} => proc[p].fitted = {}
  /\ proc[p].pc = "publish" => proc[p].models \subseteq Parameters(p)

\* The model rows it has written: its own fits, none under a name another has.
Recording(p) ==
  /\ ~Alive(p) => proc[p].mine = {} /\ proc[p].write = Nothing
  /\ \A m \in proc[p].mine : m = Artifact(p, m[2]) /\ files[m] = "whole"
  /\ \A m \in proc[p].mine, r \in rows : Unique(m) # Unique(r)
  /\ \A q \in Commands \ {p} : \A m \in proc[p].mine, r \in proc[q].mine : Unique(m) # Unique(r)

\* The figures o cite models among those visible, and the catalogue visible with them is
\* complete.
Cites(c, k, visible) ==
  /\ c.model \in visible
  /\ c.model[1] = k[1] /\ c.model[2] = <<SourceOf[k[2]], k[3]>>
  /\ c.model[3] = Specification[c.release]
  /\ \A s \in Sources : \A t \in Unavailable[s] :
       \E m \in visible : Unique(m) = <<k[1], <<s, t>>, Specification[c.release]>>
Backed(o, visible) ==
  \A k \in DOMAIN o : IF k[3] = Plain THEN o[k].model = None ELSE Cites(o[k], k, visible)

\* A subject's current ratios of one snapshot were published together.
Together(o, s) ==
  \A k \in DOMAIN o : k[2] = s /\ k[3] # Plain /\ o[k].current =>
    /\ k[3] \in Drafted[s]
    /\ \A t \in Drafted[s] :
         /\ <<k[1], s, t>> \in DOMAIN o
         /\ o[<<k[1], s, t>>].current
         /\ o[<<k[1], s, t>>].release = o[k].release

\* What a command has written of a subject stands on what is committed of it: nobody else
\* writes of that subject.
Publishing(p) ==
  /\ Backed(proc[p].write, Visible(p))
  /\ \A s \in Subjects : Together(Seen(p), s)
  /\ \A q \in Commands \ {p} : \A k \in DOMAIN proc[p].write, l \in DOMAIN proc[q].write :
       k[2] # l[2]

CatalogueInv ==
  /\ TypeOK /\ ProcsTyped
  /\ CatalogueWhole
  /\ Backed(obs, rows) /\ \A s \in Subjects : Together(obs, s)
  /\ \A p \in Commands : Fitting(p) /\ Recording(p) /\ Publishing(p)

-----------------------------------------------------------------------------
(* The verify.                                                             *)

Checking(w, v) ==
  [pc : {"idle", "cite", "load", "compare", "done", "over"}, release : Releases,
   todo : SUBSET Data, held : {w}, at : SUBSET Data, kept : SUBSET Figures,
   models : SUBSET Models, loading : SUBSET Subjects, items : {v},
   verified : SUBSET Figures, unverifiable : SUBSET Figures, mismatched : SUBSET Figures,
   still : SUBSET Figures]
CheckTyped ==
  /\ check \in Checking(check.held, check.items)
  /\ DOMAIN check.held \subseteq Figures /\ DOMAIN check.items \subseteq Figures

Ours(k) == RegistryOf(k) = Registry[check.release]

\* Nothing that stood still has been reported but for its registry or specification, and each
\* is still to come, at hand, or reported.
Accounted ==
  /\ \A k \in check.still :
       /\ k \in Standing /\ k \in DOMAIN check.held /\ check.held[k] = RegistryOf(k)
       /\ k \notin check.mismatched
       /\ k \in check.unverifiable =>
            \/ ~Ours(k)
            \/ k[3] # Plain /\ Specification[obs[k].release] # Specification[check.release]
       /\ check.pc \in {"cite", "load", "compare", "done"} =>
            \/ k[1] \in check.todo
            \/ k[1] \in check.at /\ k[2] \in check.loading
            \/ k \in DOMAIN check.items
            \/ k \in check.verified \cup check.unverifiable
  /\ check.pc \in {"cite", "done"} => check.loading = {} /\ DOMAIN check.items = {}
  /\ check.pc = "done" => check.todo = {}
  /\ check.pc = "idle" => check.still = {}

\* The models kept are those of whole catalogues, one for each source and target.
ModelsKept ==
  /\ \A m \in check.models, s \in Subjects : m[2][1] = SourceOf[s] =>
       \A t \in Drafted[s] : \E l \in check.models : l[2] = <<SourceOf[s], t>>
  /\ \A m, l \in check.models : m[2] = l[2] => m = l

\* A subject's figures of one kind are at hand all together, and as they still are.
AtHand ==
  /\ \E n \in Data : check.at = {n}
  /\ \A k \in check.kept : k[3] # Plain
  /\ \A k \in check.kept \cap check.still : obs[k].model \in check.models /\ Ours(k)
  /\ \A l \in check.kept, k \in check.still :
       k[1] \in check.at /\ k[2] = l[2] /\ k[3] # Plain => k \in check.kept
  /\ \A k \in check.still :
       k[1] \in check.at /\ k[3] # Plain /\ Ours(k) => k \in check.kept \cup check.unverifiable
  /\ \A l \in DOMAIN check.items :
       /\ l[1] \in check.at /\ l[2] \notin check.loading
       /\ l[3] # Plain => l \in check.kept
       /\ l \in check.still => check.items[l] = obs[l].model /\ Ours(l)
       /\ \A k \in check.still :
            k[1] \in check.at /\ k[2] = l[2] /\ (k[3] = Plain <=> l[3] = Plain)
               => k \in DOMAIN check.items

\* What is at hand is of one source, whose other subjects are loaded before they are compared.
InTurn ==
  /\ \A k, l \in DOMAIN check.items : SourceOf[k[2]] = SourceOf[l[2]]
  /\ \A k \in DOMAIN check.items : \A s \in check.loading : k[2] < s
  /\ check.pc = "load" => \A k \in DOMAIN check.items :
        \E s \in check.loading : SourceOf[s] = SourceOf[k[2]]

VerifyInv ==
  /\ CheckTyped /\ Accounted
  /\ check.pc \in {"load", "compare"} => ModelsKept /\ AtHand /\ InTurn

-----------------------------------------------------------------------------
(* Operators.                                                              *)

\* f over g has f's values where f is defined, and g's elsewhere.
LEMMA OverAt ==
  ASSUME NEW f, NEW g, NEW h, h = Over(f, g)
  PROVE  /\ DOMAIN h = DOMAIN f \cup DOMAIN g
         /\ \A x \in DOMAIN f : h[x] = f[x]
         /\ \A x \in DOMAIN g \ DOMAIN f : h[x] = g[x]
  BY DEF Over

\* Which layer comes first does not matter.
LEMMA OverTwice ==
  ASSUME NEW f, NEW g, NEW h
  PROVE  Over(Over(f, g), h) = Over(f, Over(g, h))
  BY DEF Over

\* Nothing is a function of nothing.
LEMMA NothingThere == DOMAIN Nothing = {}
  BY DEF Nothing

\* Some natural numbers have a smallest.
LEMMA Smallest ==
  ASSUME NEW S \in SUBSET Nat, S # {}
  PROVE  \E x \in S : \A y \in S : x <= y
<1>1. \E x \in S : \A y \in S : ~(<<y, x>> \in OpToRel(<, Nat))
  BY NatLessThanWellFounded, WFMin
<1>2. PICK x \in S : \A y \in S : ~(<<y, x>> \in OpToRel(<, Nat))
  BY <1>1
<1>3. ASSUME NEW y \in S
      PROVE  x <= y
  <2>1. x \in Nat /\ y \in Nat
    OBVIOUS
  <2>2. ~(y < x)
    BY <1>2, <2>1 DEF OpToRel
  <2> QED
    BY <2>1, <2>2
<1> QED
  BY <1>3

\* The next subject is one of them.
LEMMA NextIsOne ==
  ASSUME NEW S \in SUBSET Subjects, S # {}
  PROVE  NextSubject(S) \in S
  BY Smallest, CatalogData DEF NextSubject

\* A publication writes of its subject only: the new rows, and the current ones it replaces, no
\* longer current; or it writes nothing.
LEMMA Published ==
  ASSUME NEW seen, NEW n, NEW s, NEW scope, NEW drafts, NEW release,
         NEW W, W = Publication(seen, n, s, scope, drafts, release)
  PROVE  /\ \A k \in DOMAIN W : k[2] = s
         /\ \A k \in DOMAIN W :
              \/ /\ k[3] \in DOMAIN drafts /\ k = <<n, s, k[3]>>
                 /\ W[k] = [model |-> drafts[k[3]], release |-> release, current |-> TRUE]
              \/ /\ k \in Current(seen, s, scope)
                 /\ W[k] = [seen[k] EXCEPT !.current = FALSE]
         /\ \/ DOMAIN W = {}
            \/ /\ \A t \in DOMAIN drafts :
                    /\ <<n, s, t>> \in DOMAIN W
                    /\ W[<<n, s, t>>]
                         = [model |-> drafts[t], release |-> release, current |-> TRUE]
               /\ Current(seen, s, scope) \subseteq DOMAIN W
<1> DEFINE new == [k \in {<<n, s, t>> : t \in DOMAIN drafts} |->
                     [model |-> drafts[k[3]], release |-> release, current |-> TRUE]]
           old == [k \in Current(seen, s, scope) |-> [seen[k] EXCEPT !.current = FALSE]]
<1>1. CASE Unchanged(seen, n, s, scope, drafts, release)
  <2>1. DOMAIN W = {}
    BY <1>1, NothingThere DEF Publication
  <2> QED
    BY <2>1
<1>2. CASE ~Unchanged(seen, n, s, scope, drafts, release)
  <2>1. W = Over(new, old)
    BY <1>2 DEF Publication
  <2>2. /\ DOMAIN new = {<<n, s, t>> : t \in DOMAIN drafts}
        /\ DOMAIN old = Current(seen, s, scope)
        /\ \A k \in DOMAIN new :
             new[k] = [model |-> drafts[k[3]], release |-> release, current |-> TRUE]
        /\ \A k \in DOMAIN old : old[k] = [seen[k] EXCEPT !.current = FALSE]
    OBVIOUS
  <2>3. \A k \in DOMAIN new : k[3] \in DOMAIN drafts /\ k = <<n, s, k[3]>> /\ k[2] = s
    BY <2>2
  <2>4. \A k \in DOMAIN old : k[2] = s
    BY <2>2 DEF Current
  <2> HIDE DEF new, old
  <2>5. /\ DOMAIN W = DOMAIN new \cup DOMAIN old
        /\ \A k \in DOMAIN new : W[k] = new[k]
        /\ \A k \in DOMAIN old \ DOMAIN new : W[k] = old[k]
    BY <2>1 DEF Over
  <2>6. \A t \in DOMAIN drafts :
           /\ <<n, s, t>> \in DOMAIN W
           /\ W[<<n, s, t>>] = [model |-> drafts[t], release |-> release, current |-> TRUE]
    <3> SUFFICES ASSUME NEW t \in DOMAIN drafts
                 PROVE  /\ <<n, s, t>> \in DOMAIN W
                        /\ W[<<n, s, t>>]
                             = [model |-> drafts[t], release |-> release, current |-> TRUE]
      OBVIOUS
    <3>1. <<n, s, t>> \in DOMAIN new /\ <<n, s, t>>[3] = t
      BY <2>2
    <3> QED
      BY <2>2, <2>5, <3>1
  <2> QED
    BY <2>2, <2>3, <2>4, <2>5, <2>6
<1> QED
  BY <1>1, <1>2

-----------------------------------------------------------------------------
(* The catalogue, step by step.                                            *)

\* What a command fits is a model of its snapshot and specification.
LEMMA ArtifactOf ==
  ASSUME CatalogueInv, NEW p \in Commands, Alive(p), NEW k \in ModelKeys
  PROVE  /\ proc[p].snapshot = {Snapshot(p)} /\ Snapshot(p) \in Data
         /\ Artifact(p, k) \in Models
         /\ Artifact(p, k) = <<Snapshot(p), k, Spec_(p), proc[p].release>>
         /\ Unique(Artifact(p, k)) = <<Snapshot(p), k, Spec_(p)>>
<1>1. PICK n \in Data : proc[p].snapshot = {n}
  BY DEF CatalogueInv, Fitting
<1>2. Snapshot(p) = n
  BY <1>1 DEF Snapshot
<1>3. proc[p].release \in Releases
  BY DEF CatalogueInv, ProcsTyped, Process
<1>4. Spec_(p) \in Versions
  BY <1>3 DEF Spec_, Versions
<1> QED
  BY <1>1, <1>2, <1>3, <1>4 DEF Artifact, Models, Unique

\* Figures that agree on a subject's ratios are together alike.
LEMMA TogetherAlike ==
  ASSUME NEW o, NEW u, NEW s \in Subjects, Together(o, s),
         \A k \in DOMAIN u : k[2] = s /\ k[3] # Plain => k \in DOMAIN o /\ u[k] = o[k],
         \A k \in DOMAIN o : k[2] = s /\ k[3] # Plain => k \in DOMAIN u
  PROVE  Together(u, s)
<1> SUFFICES ASSUME NEW k \in DOMAIN u, k[2] = s, k[3] # Plain, u[k].current
             PROVE  /\ k[3] \in Drafted[s]
                    /\ \A t \in Drafted[s] :
                         /\ <<k[1], s, t>> \in DOMAIN u
                         /\ u[<<k[1], s, t>>].current
                         /\ u[<<k[1], s, t>>].release = u[k].release
  BY DEF Together
<1>1. k \in DOMAIN o /\ u[k] = o[k]
  OBVIOUS
<1>2. k[3] \in Drafted[s]
  BY <1>1 DEF Together
<1>3. ASSUME NEW t \in Drafted[s]
      PROVE  /\ <<k[1], s, t>> \in DOMAIN u
             /\ u[<<k[1], s, t>>].current
             /\ u[<<k[1], s, t>>].release = u[k].release
  <2>1. t \in Targets /\ t # Plain
    BY CatalogData
  <2>2. /\ <<k[1], s, t>> \in DOMAIN o
        /\ o[<<k[1], s, t>>].current
        /\ o[<<k[1], s, t>>].release = o[k].release
    BY <1>1 DEF Together
  <2>3. <<k[1], s, t>>[2] = s /\ <<k[1], s, t>>[3] = t
    OBVIOUS
  <2>4. <<k[1], s, t>> \in DOMAIN u
    BY <2>1, <2>2, <2>3
  <2> QED
    BY <1>1, <2>1, <2>2, <2>3, <2>4
<1> QED
  BY <1>2, <1>3

\* What backs some figures backs them when more is visible.
LEMMA BackedMore ==
  ASSUME NEW o, NEW small, NEW large, small \subseteq large, Backed(o, small)
  PROVE  Backed(o, large)
  BY DEF Backed, Cites

\* What a command sees is backed by what is visible to it, and typed.
LEMMA SeenBacked ==
  ASSUME CatalogueInv, NEW p \in Commands
  PROVE  Backed(Seen(p), Visible(p)) /\ RowsTyped(Seen(p))
<1>1. Backed(proc[p].write, Visible(p)) /\ Backed(obs, Visible(p))
  BY BackedMore DEF CatalogueInv, Publishing, Visible
<1>2. RowsTyped(proc[p].write) /\ RowsTyped(obs)
  BY DEF CatalogueInv, ProcsTyped, TypeOK, RowsTyped
<1>3. /\ DOMAIN Seen(p) = DOMAIN proc[p].write \cup DOMAIN obs
      /\ \A k \in DOMAIN proc[p].write : Seen(p)[k] = proc[p].write[k]
      /\ \A k \in DOMAIN obs \ DOMAIN proc[p].write : Seen(p)[k] = obs[k]
  BY DEF Seen, Over
<1>4. Backed(Seen(p), Visible(p))
  <2> SUFFICES ASSUME NEW k \in DOMAIN Seen(p)
               PROVE  IF k[3] = Plain THEN Seen(p)[k].model = None
                      ELSE Cites(Seen(p)[k], k, Visible(p))
    BY DEF Backed
  <2>1. CASE k \in DOMAIN proc[p].write
    BY <1>1, <1>3, <2>1 DEF Backed
  <2>2. CASE k \in DOMAIN obs \ DOMAIN proc[p].write
    BY <1>1, <1>3, <2>2 DEF Backed
  <2> QED
    BY <1>3, <2>1, <2>2
<1>5. RowsTyped(Seen(p))
  BY <1>2, <1>3 DEF RowsTyped
<1> QED
  BY <1>4, <1>5

\* What is whole stays whole.
WholeStay == \A m \in Models : files[m] = "whole" => files'[m] = "whole"

\* A command that does not move stays in order while rows only come and files stay whole.
LEMMA FittingStays ==
  ASSUME CatalogueInv, NEW q \in Commands, proc'[q] = proc[q], rows \subseteq rows', WholeStay
  PROVE  Fitting(q)'
<1>1. Fitting(q)
  BY DEF CatalogueInv
<1>2. /\ Alive(q)' <=> Alive(q)
      /\ Snapshot(q)' = Snapshot(q) /\ Spec_(q)' = Spec_(q)
      /\ \A k : Artifact(q, k)' = Artifact(q, k)
      /\ Wanted(q)' = Wanted(q)
  BY DEF Alive, Snapshot, Spec_, Artifact, Wanted
<1>3. /\ Visible(q) \subseteq Visible(q)'
      /\ Existing(q) \subseteq Existing(q)'
      /\ Parameters(q) \subseteq Parameters(q)'
  BY <1>2 DEF Visible, Existing, Parameters
<1>4. ASSUME NEW k \in proc[q].fitted
      PROVE  files'[Artifact(q, k)] = "whole"
  <2>1. proc[q].fitted # {} /\ k \in ModelKeys
    BY DEF CatalogueInv, ProcsTyped, Process
  <2>2. Alive(q)
    BY <1>1, <2>1 DEF Fitting, Alive, Ended
  <2> QED
    BY <1>1, <2>1, <2>2, ArtifactOf DEF Fitting, WholeStay
<1> QED
  BY <1>1, <1>2, <1>3, <1>4 DEF Fitting

\* A step of one command that leaves the tables alone keeps the catalogue in order, if it
\* leaves the command in order and what it writes is nobody else's.
LEMMA StepOfOne ==
  ASSUME CatalogueInv, NEW p \in Commands, NEW new, proc' = [proc EXCEPT ![p] = new],
         rows' = rows, obs' = obs, WholeStay, TypeOK',
         new \in Process(new.write), RowsTyped(new.write),
         Fitting(p)',
         ~Alive(p)' => new.mine = {} /\ new.write = Nothing,
         \A m \in new.mine : m = Artifact(p, m[2])' /\ files'[m] = "whole",
         \A m \in new.mine : \A r \in rows : Unique(m) # Unique(r),
         \A m \in new.mine : \A q \in Commands \ {p} : \A r \in proc[q].mine :
           Unique(m) # Unique(r),
         Backed(new.write, rows \cup new.mine),
         \A s \in Subjects : Together(Over(new.write, obs), s),
         \A k \in DOMAIN new.write : \A q \in Commands \ {p} : \A l \in DOMAIN proc[q].write :
           k[2] # l[2]
  PROVE  CatalogueInv'
<1>1. /\ proc'[p] = new
      /\ \A q \in Commands \ {p} : proc'[q] = proc[q]
      /\ proc' = [q \in Commands |-> proc'[q]]
  BY DEF CatalogueInv, ProcsTyped
<1>2. ProcsTyped'
  BY <1>1 DEF CatalogueInv, ProcsTyped
<1>3. CatalogueWhole'
  BY DEF CatalogueInv, CatalogueWhole, WholeStay, TypeOK
<1>4. Backed(obs, rows)' /\ \A s \in Subjects : Together(obs, s)'
  BY DEF CatalogueInv, Backed, Cites, Together
<1>5. ASSUME NEW q \in Commands
      PROVE  Fitting(q)'
  BY <1>1, FittingStays
<1>6. ASSUME NEW q \in Commands
      PROVE  Recording(q)'
  <2>1. CASE q = p
    <3>1. \A r \in Commands \ {p} : \A m \in proc'[p].mine, l \in proc'[r].mine :
             Unique(m) # Unique(l)
      BY <1>1
    <3> QED
      BY <1>1, <2>1, <3>1 DEF Recording, Unique
  <2>2. CASE q # p
    <3>1. /\ ~Alive(q)' => proc'[q].mine = {} /\ proc'[q].write = Nothing
          /\ \A m \in proc'[q].mine : \A r \in rows' : Unique(m) # Unique(r)
      BY <1>1, <2>2 DEF CatalogueInv, Recording, Alive
    <3>2. \A m \in proc'[q].mine : m = Artifact(q, m[2])' /\ files'[m] = "whole"
      <4>1. \A m \in proc[q].mine : m = Artifact(q, m[2]) /\ files[m] = "whole" /\ m \in Models
        BY DEF CatalogueInv, Recording, ProcsTyped, Process
      <4>2. \A k : Artifact(q, k)' = Artifact(q, k)
        BY <1>1, <2>2 DEF Artifact, Snapshot, Spec_
      <4> QED
        BY <1>1, <2>2, <4>1, <4>2 DEF WholeStay
    <3>3. \A r \in Commands \ {q} : \A m \in proc'[q].mine, l \in proc'[r].mine :
             Unique(m) # Unique(l)
      <4> SUFFICES ASSUME NEW r \in Commands \ {q}, NEW m \in proc[q].mine,
                          NEW l \in proc'[r].mine
                   PROVE  Unique(m) # Unique(l)
        BY <1>1, <2>2
      <4>1. CASE r = p
        BY <1>1, <2>2, <4>1
      <4>2. CASE r # p
        <5>1. Recording(q) /\ l \in proc[r].mine
          BY <1>1, <4>2 DEF CatalogueInv
        <5> QED
          BY <5>1 DEF Recording
      <4> QED
        BY <4>1, <4>2
    <3> QED
      BY <3>1, <3>2, <3>3 DEF Recording, Unique
  <2> QED
    BY <2>1, <2>2
<1>7. ASSUME NEW q \in Commands
      PROVE  Publishing(q)'
  <2>1. CASE q = p
    <3>1. Backed(proc[q].write, Visible(q))'
      BY <1>1, <2>1 DEF Visible, Backed, Cites
    <3>2. \A s \in Subjects : Together(Seen(q), s)'
      <4>1. Seen(q)' = Over(new.write, obs)
        BY <1>1, <2>1 DEF Seen, Over
      <4> QED
        BY <4>1 DEF Together
    <3>3. \A r \in Commands \ {q} : \A k \in DOMAIN proc'[q].write, l \in DOMAIN proc'[r].write :
             k[2] # l[2]
      BY <1>1, <2>1
    <3> QED
      BY <3>1, <3>2, <3>3 DEF Publishing
  <2>2. CASE q # p
    <3>1. Publishing(q)
      BY DEF CatalogueInv
    <3>2. Backed(proc[q].write, Visible(q))'
      BY <1>1, <2>2, <3>1 DEF Publishing, Visible, Backed, Cites
    <3>3. \A s \in Subjects : Together(Seen(q), s)'
      <4>1. Seen(q)' = Seen(q)
        BY <1>1, <2>2 DEF Seen, Over
      <4> QED
        BY <3>1, <4>1 DEF Publishing, Together
    <3>4. \A r \in Commands \ {q} : \A k \in DOMAIN proc'[q].write, l \in DOMAIN proc'[r].write :
             k[2] # l[2]
      <4> SUFFICES ASSUME NEW r \in Commands \ {q}, NEW k \in DOMAIN proc[q].write,
                          NEW l \in DOMAIN proc'[r].write
                   PROVE  k[2] # l[2]
        BY <1>1, <2>2
      <4>1. CASE r = p
        BY <1>1, <2>2, <4>1
      <4>2. CASE r # p
        BY <1>1, <3>1, <4>2 DEF Publishing
      <4> QED
        BY <4>1, <4>2
    <3> QED
      BY <3>2, <3>3, <3>4 DEF Publishing
  <2> QED
    BY <2>1, <2>2
<1> QED
  BY <1>2, <1>3, <1>4, <1>5, <1>6, <1>7 DEF CatalogueInv

\* A command in flight moves on without writing a row.
LEMMA StepWithin ==
  ASSUME CatalogueInv, NEW p \in Commands, NEW new, proc' = [proc EXCEPT ![p] = new],
         rows' = rows, obs' = obs, WholeStay, TypeOK', Alive(p), Alive(p)',
         new \in Process(proc[p].write),
         new.mine = proc[p].mine, new.snapshot = proc[p].snapshot,
         new.release = proc[p].release, Fitting(p)'
  PROVE  CatalogueInv'
<1>1. proc'[p] = new
  BY DEF CatalogueInv, ProcsTyped
<1>2. new.write = proc[p].write /\ RowsTyped(new.write)
  BY DEF CatalogueInv, ProcsTyped, Process
<1>3. \A k : Artifact(p, k)' = Artifact(p, k)
  BY <1>1 DEF Artifact, Snapshot, Spec_
<1>4. Recording(p) /\ Publishing(p) /\ proc[p].mine \subseteq Models
  BY DEF CatalogueInv, ProcsTyped, Process
<1>5. \A m \in new.mine : m = Artifact(p, m[2])' /\ files'[m] = "whole"
  BY <1>3, <1>4 DEF Recording, WholeStay
<1>6. /\ \A m \in new.mine : \A r \in rows : Unique(m) # Unique(r)
      /\ \A m \in new.mine : \A q \in Commands \ {p} : \A r \in proc[q].mine :
           Unique(m) # Unique(r)
  BY <1>4 DEF Recording
<1>7. Backed(new.write, rows \cup new.mine)
  BY <1>2, <1>4 DEF Publishing, Visible
<1>8. \A s \in Subjects : Together(Over(new.write, obs), s)
  BY <1>2, <1>4 DEF Publishing, Seen
<1>9. \A k \in DOMAIN new.write : \A q \in Commands \ {p} : \A l \in DOMAIN proc[q].write :
        k[2] # l[2]
  BY <1>2, <1>4 DEF Publishing
<1> HIDE DEF CatalogueInv
<1> QED
  BY <1>2, <1>5, <1>6, <1>7, <1>8, <1>9, StepOfOne

\* What stands committed is together, seen by a command that has written nothing.
LEMMA NothingWritten ==
  ASSUME CatalogueInv, NEW s \in Subjects
  PROVE  Together(Over(Nothing, obs), s)
<1> DEFINE o == Over(Nothing, obs)
<1>1. DOMAIN o = DOMAIN obs /\ \A k \in DOMAIN obs : o[k] = obs[k]
  BY NothingThere DEF Over
<1>2. Together(obs, s)
  BY DEF CatalogueInv
<1> HIDE DEF o
<1>3. Together(o, s)
  BY <1>1, <1>2, TogetherAlike
<1> QED
  BY <1>3 DEF o

\* A command that starts, or ends, has written nothing.
LEMMA StepAfresh ==
  ASSUME CatalogueInv, NEW p \in Commands, NEW new, proc' = [proc EXCEPT ![p] = new],
         rows' = rows, obs' = obs, files' = files, TypeOK', new \in Process(Nothing),
         new.mine = {}, new.fitted = {}, new.pc \in {"row", "list", "over"},
         new.pc # "over" => \E n \in Data : new.snapshot = {n}
  PROVE  CatalogueInv'
<1>1. proc'[p] = new
  BY DEF CatalogueInv, ProcsTyped
<1>2. new.write = Nothing
  BY DEF Process
<1>3. RowsTyped(new.write) /\ DOMAIN new.write = {}
  BY <1>2, NothingThere DEF RowsTyped
<1>4. Fitting(p)'
  BY <1>1 DEF Fitting, Alive, Ended
<1>5. Backed(new.write, rows \cup new.mine)
  BY <1>3 DEF Backed
<1>6. \A s \in Subjects : Together(Over(new.write, obs), s)
  BY <1>2, NothingWritten
<1>7. WholeStay
  BY DEF WholeStay
<1> HIDE DEF CatalogueInv
<1> QED
  BY <1>2, <1>3, <1>4, <1>5, <1>6, <1>7, StepOfOne

\* Steps that leave the tables, the files and the commands alone keep the catalogue in order.
LEMMA Untouched ==
  ASSUME CatalogueInv, deployed' \in Releases, UNCHANGED <<data, snaps, rows, files, obs, proc>>
  PROVE  CatalogueInv'
<1>1. TypeOK' /\ ProcsTyped' /\ CatalogueWhole'
  BY DEF CatalogueInv, TypeOK, ProcsTyped, CatalogueWhole
<1>2. Backed(obs, rows)' /\ \A s \in Subjects : Together(obs, s)'
  BY DEF CatalogueInv, Backed, Cites, Together
<1>3. ASSUME NEW p \in Commands
      PROVE  Fitting(p)' /\ Recording(p)' /\ Publishing(p)'
  <2>1. Fitting(p)'
    BY FittingStays DEF WholeStay
  <2>2. Recording(p)'
    <3>1. (\A k : Artifact(p, k)' = Artifact(p, k)) /\ (Alive(p)' <=> Alive(p))
      BY DEF Artifact, Snapshot, Spec_, Alive
    <3>2. Recording(p)
      BY DEF CatalogueInv
    <3> QED
      BY <3>1, <3>2 DEF Recording
  <2>3. Publishing(p)'
    <3>1. Visible(p)' = Visible(p) /\ Seen(p)' = Seen(p)
      BY DEF Visible, Seen, Over
    <3>2. Publishing(p)
      BY DEF CatalogueInv
    <3> QED
      BY <3>1, <3>2 DEF Publishing, Backed, Cites, Together
  <2> QED
    BY <2>1, <2>2, <2>3
<1> QED
  BY <1>1, <1>2, <1>3 DEF CatalogueInv

\* Of a command in flight: what is installed has been.
LEMMA Typed ==
  ASSUME CatalogueInv, NEW p \in Commands
  PROVE  /\ proc[p].pc \in Places /\ proc[p].release \in Releases
         /\ proc[p].snapshot \subseteq Data /\ proc[p].fresh \subseteq Data
         /\ proc[p].sources \subseteq Sources /\ proc[p].subjects \subseteq Subjects
         /\ proc[p].todo \subseteq ModelKeys /\ proc[p].fitted \subseteq ModelKeys
         /\ proc[p].mine \subseteq Models /\ proc[p].models \subseteq Models
         /\ proc[p] \in Process(proc[p].write) /\ RowsTyped(proc[p].write)
         /\ proc = [q \in Commands |-> proc[q]]
  BY DEF CatalogueInv, ProcsTyped, Process

\* A command that gives up leaves nothing behind but files.
LEMMA Left ==
  ASSUME CatalogueInv, NEW p \in Commands, Leave(p),
         UNCHANGED <<data, deployed, snaps, rows, files, obs>>
  PROVE  CatalogueInv'
<1>1. 1 \in Releases
  BY CatalogBounds DEF Releases
<1> DEFINE new == [Idle EXCEPT !.pc = "over"]
<1>2. /\ new \in Process(Nothing) /\ new.mine = {} /\ new.fitted = {} /\ new.pc = "over"
  BY <1>1 DEF Idle, Process, Places
<1>3. TypeOK'
  BY DEF CatalogueInv, TypeOK
<1>4. proc' = [proc EXCEPT ![p] = new]
  BY DEF Leave
<1> HIDE DEF new, CatalogueInv
<1> QED
  BY <1>2, <1>3, <1>4, StepAfresh

\* The commands that begin.
LEMMA BeginStep ==
  ASSUME CatalogueInv, NEW p \in Commands, BeginFit(p) \/ BeginCompute(p)
  PROVE  CatalogueInv'
<1>1. 1 \in Releases
  BY CatalogBounds DEF Releases
<1>2. TypeOK
  BY DEF CatalogueInv
<1>3. CASE BeginFit(p)
  <2>1. PICK r \in Releases, n \in snaps :
          /\ Install(r)
          /\ proc' = [proc EXCEPT ![p] =
               [Idle EXCEPT !.pc = "list", !.release = r, !.snapshot = {n}, !.sources = Sources]]
    BY <1>3 DEF BeginFit
  <2>2. UNCHANGED <<data, snaps, rows, files, obs>>
    BY <1>3 DEF BeginFit
  <2> DEFINE new == [Idle EXCEPT !.pc = "list", !.release = r, !.snapshot = {n},
                                 !.sources = Sources]
  <2>3. n \in Data
    BY <1>2 DEF TypeOK
  <2>4. /\ new \in Process(Nothing) /\ new.mine = {} /\ new.fitted = {} /\ new.pc = "list"
        /\ new.snapshot = {n}
    BY <1>1, <2>3 DEF Idle, Process, Places
  <2>5. TypeOK'
    BY <1>2, <2>1, <2>2 DEF TypeOK, Install
  <2> HIDE DEF new, CatalogueInv
  <2>6. \E m \in Data : new.snapshot = {m}
    BY <2>3, <2>4
  <2>7. proc' = [proc EXCEPT ![p] = new]
    BY <2>1 DEF new
  <2> QED
    BY <2>2, <2>4, <2>5, <2>6, <2>7, StepAfresh
<1>4. CASE BeginCompute(p)
  <2>1. PICK r \in Releases, s \in Scopes :
          /\ Install(r)
          /\ proc' = [proc EXCEPT ![p] =
               [Idle EXCEPT !.pc = "row", !.release = r, !.snapshot = {data},
                            !.sources = s.sources, !.subjects = s.subjects]]
    BY <1>4 DEF BeginCompute
  <2>2. UNCHANGED <<data, snaps, rows, files, obs>>
    BY <1>4 DEF BeginCompute
  <2> DEFINE new == [Idle EXCEPT !.pc = "row", !.release = r, !.snapshot = {data},
                                 !.sources = s.sources, !.subjects = s.subjects]
  <2>3. data \in Data /\ s.sources \subseteq Sources /\ s.subjects \subseteq Subjects
    BY <1>2, CatalogScopes DEF TypeOK
  <2>4. /\ new \in Process(Nothing) /\ new.mine = {} /\ new.fitted = {} /\ new.pc = "row"
        /\ new.snapshot = {data}
    BY <1>1, <2>3 DEF Idle, Process, Places
  <2>5. TypeOK'
    BY <1>2, <2>1, <2>2 DEF TypeOK, Install
  <2> HIDE DEF new, CatalogueInv
  <2>6. \E m \in Data : new.snapshot = {m}
    BY <2>3, <2>4
  <2>7. proc' = [proc EXCEPT ![p] = new]
    BY <2>1 DEF new
  <2> QED
    BY <2>2, <2>4, <2>5, <2>6, <2>7, StepAfresh
<1> QED
  BY <1>3, <1>4

\* The commands that find or insert the snapshot's row.
LEMMA SnapshotRowStep ==
  ASSUME CatalogueInv, NEW p \in Commands,
         FindSnapshot(p) \/ InsertSnapshot(p) \/ SnapshotConflict(p)
  PROVE  CatalogueInv'
<1>1. UNCHANGED <<data, deployed, snaps, rows, files, obs>>
  BY DEF FindSnapshot, InsertSnapshot, SnapshotConflict, Unshared
<1>2. TypeOK' /\ WholeStay
  BY <1>1 DEF CatalogueInv, TypeOK, WholeStay
<1>3. Fitting(p)
  BY DEF CatalogueInv
<1>4. CASE FindSnapshot(p)
  <2> DEFINE new == [proc[p] EXCEPT !.pc = IF proc[p].snapshot \subseteq snaps
                                           THEN "list" ELSE "insert"]
  <2>1. proc[p].pc = "row" /\ proc' = [proc EXCEPT ![p] = new]
    BY <1>4, Typed DEF FindSnapshot, Go
  <2>2. /\ new \in Process(proc[p].write)
        /\ new.mine = proc[p].mine /\ new.snapshot = proc[p].snapshot
        /\ new.release = proc[p].release /\ new.fitted = proc[p].fitted
        /\ new.pc \in {"list", "insert"}
    BY Typed DEF Process, Places
  <2> HIDE DEF new, CatalogueInv
  <2>3. proc'[p] = new
    BY <2>1, Typed
  <2>4. Alive(p) /\ Alive(p)'
    BY <2>1, <2>2, <2>3 DEF Alive, Ended
  <2>5. Fitting(p)'
    BY <1>3, <2>1, <2>2, <2>3, <2>4 DEF Fitting
  <2> QED
    BY <1>1, <1>2, <2>1, <2>2, <2>4, <2>5, StepWithin
<1>5. CASE InsertSnapshot(p)
  <2> DEFINE new == [proc[p] EXCEPT !.pc = "list", !.fresh = proc[p].snapshot]
  <2>1. proc[p].pc = "insert" /\ proc' = [proc EXCEPT ![p] = new]
    BY <1>5, Typed DEF InsertSnapshot
  <2>2. /\ new \in Process(proc[p].write)
        /\ new.mine = proc[p].mine /\ new.snapshot = proc[p].snapshot
        /\ new.release = proc[p].release /\ new.fitted = proc[p].fitted /\ new.pc = "list"
    BY Typed DEF Process, Places
  <2> HIDE DEF new, CatalogueInv
  <2>3. proc'[p] = new
    BY <2>1, Typed
  <2>4. Alive(p) /\ Alive(p)'
    BY <2>1, <2>2, <2>3 DEF Alive, Ended
  <2>5. Fitting(p)'
    BY <1>3, <2>1, <2>2, <2>3, <2>4 DEF Fitting
  <2> QED
    BY <1>1, <1>2, <2>1, <2>2, <2>4, <2>5, StepWithin
<1>6. CASE SnapshotConflict(p)
  BY <1>1, <1>6, Left DEF SnapshotConflict
<1> QED
  BY <1>4, <1>5, <1>6

\* The catalogue a command is to complete, as it lists it.
LEMMA ListStep ==
  ASSUME CatalogueInv, NEW p \in Commands, ListMissing(p)
  PROVE  CatalogueInv'
<1>1. UNCHANGED <<data, deployed, snaps, rows, files, obs>>
  BY DEF ListMissing, Unshared
<1>2. TypeOK' /\ WholeStay
  BY <1>1 DEF CatalogueInv, TypeOK, WholeStay
<1>3. Fitting(p)
  BY DEF CatalogueInv
<1> DEFINE missing == Wanted(p) \ Existing(p)
           where == IF missing = {} THEN Then(proc[p].subjects) ELSE "open"
           new == [proc[p] EXCEPT !.todo = missing, !.pc = where]
<1>4. proc[p].pc = "list" /\ proc' = [proc EXCEPT ![p] = new]
  BY Typed DEF ListMissing
<1>5. missing \subseteq ModelKeys
  BY DEF Wanted
<1>6. where \in {"commit", "read", "open"} /\ (where # "open" => missing = {})
  BY DEF Then
<1>7. Wanted(p) \subseteq Existing(p) \cup missing
  OBVIOUS
<1> HIDE DEF missing, where
<1>8. /\ new \in Process(proc[p].write)
      /\ new.mine = proc[p].mine /\ new.snapshot = proc[p].snapshot
      /\ new.release = proc[p].release /\ new.fitted = proc[p].fitted
      /\ new.pc = where /\ new.todo = missing /\ new.sources = proc[p].sources
  BY <1>5, <1>6, Typed DEF Process, Places
<1> HIDE DEF new, CatalogueInv
<1>9. proc'[p] = new
  BY <1>4, Typed
<1>10. Alive(p) /\ Alive(p)'
  BY <1>4, <1>6, <1>8, <1>9 DEF Alive, Ended
<1>11. Wanted(p)' = Wanted(p) /\ Existing(p)' = Existing(p)
  BY <1>1, <1>8, <1>9 DEF Wanted, Existing, Visible, Spec_
<1>12. proc[p].fitted = {}
  BY <1>3, <1>4 DEF Fitting
<1>13. Fitting(p)'
  BY <1>3, <1>6, <1>7, <1>8, <1>9, <1>10, <1>11, <1>12 DEF Fitting
<1> QED
  BY <1>1, <1>2, <1>4, <1>8, <1>10, <1>13, StepWithin

\* One more of what a command has to fit is fitted, and its artifact can be read back.
LEMMA KeptOne ==
  ASSUME CatalogueInv, NEW p \in Commands, proc[p].pc \in {"open", "write"},
         NEW k \in proc[p].todo, Keep(p, k), files'[Artifact(p, k)] = "whole", WholeStay,
         files' \in [Models -> {"absent", "partial", "whole"}],
         UNCHANGED <<data, deployed, snaps, rows, obs>>
  PROVE  CatalogueInv'
<1>1. TypeOK'
  BY DEF CatalogueInv, TypeOK
<1>2. Fitting(p) /\ Alive(p)
  BY DEF CatalogueInv, Alive, Ended
<1> DEFINE where == IF proc[p].todo = {k} THEN "record" ELSE "open"
           left == proc[p].todo \ {k}
           done == proc[p].fitted \cup {k}
           new == [proc[p] EXCEPT !.todo = left, !.fitted = done, !.pc = where]
<1>3. proc' = [proc EXCEPT ![p] = new]
  BY Typed DEF Keep
<1>4. /\ left \subseteq ModelKeys /\ done \subseteq ModelKeys
      /\ where \in {"record", "open"} /\ (where = "record" => left = {})
      /\ proc[p].todo \cup proc[p].fitted = left \cup done
      /\ done = proc[p].fitted \cup {k} /\ k \in ModelKeys
  BY Typed
<1> HIDE DEF where, left, done
<1>5. /\ new \in Process(proc[p].write)
      /\ new.mine = proc[p].mine /\ new.snapshot = proc[p].snapshot
      /\ new.release = proc[p].release /\ new.fitted = done
      /\ new.pc = where /\ new.todo = left /\ new.sources = proc[p].sources
  BY <1>4, Typed DEF Process, Places
<1> HIDE DEF new
<1>6. proc'[p] = new
  BY <1>3, Typed
<1>7. Alive(p)'
  BY <1>4, <1>5, <1>6 DEF Alive, Ended
<1>8. /\ Wanted(p)' = Wanted(p) /\ Existing(p)' = Existing(p)
      /\ \A l : Artifact(p, l)' = Artifact(p, l)
  BY <1>5, <1>6 DEF Wanted, Existing, Visible, Spec_, Artifact, Snapshot
<1>9. ASSUME NEW l \in done
      PROVE  files'[Artifact(p, l)'] = "whole"
  <2>1. CASE l = k
    BY <1>8, <2>1
  <2>2. CASE l \in proc[p].fitted
    <3>1. Artifact(p, l) \in Models
      BY <1>2, <2>2, Typed, ArtifactOf
    <3> QED
      BY <1>2, <1>8, <2>2, <3>1 DEF Fitting, WholeStay
  <2> QED
    BY <1>4, <2>1, <2>2
<1>10. Wanted(p)' \subseteq Existing(p)' \cup left \cup done
  BY <1>2, <1>4, <1>8 DEF Fitting
<1> HIDE DEF CatalogueInv
<1>11. Fitting(p)'
  BY <1>2, <1>4, <1>5, <1>6, <1>7, <1>9, <1>10 DEF Fitting
<1> QED
  BY <1>1, <1>2, <1>3, <1>5, <1>7, <1>11, StepWithin

\* Writing an artifact, finding it written, finding another's.
LEMMA ArtifactStep ==
  ASSUME CatalogueInv, NEW p \in Commands,
         OpenArtifact(p) \/ WriteArtifact(p) \/ KeepArtifact(p) \/ RefuseArtifact(p)
  PROVE  CatalogueInv'
<1>1. files \in [Models -> {"absent", "partial", "whole"}]
  BY DEF CatalogueInv, TypeOK
<1>2. \A k \in First(proc[p].todo) : k \in proc[p].todo
  BY DEF First
<1>3. CASE OpenArtifact(p)
  <2>1. PICK k \in First(proc[p].todo) :
          /\ files[Artifact(p, k)] = "absent"
          /\ files' = [files EXCEPT ![Artifact(p, k)] = "partial"]
    BY <1>3 DEF OpenArtifact
  <2>2. /\ proc[p].pc = "open" /\ Go(p, "write")
        /\ UNCHANGED <<data, deployed, snaps, rows, obs>>
    BY <1>3 DEF OpenArtifact
  <2>3. WholeStay /\ files' \in [Models -> {"absent", "partial", "whole"}]
    BY <1>1, <2>1 DEF WholeStay
  <2>4. TypeOK'
    BY <2>2, <2>3 DEF CatalogueInv, TypeOK
  <2> DEFINE new == [proc[p] EXCEPT !.pc = "write"]
  <2>5. proc' = [proc EXCEPT ![p] = new]
    BY <2>2, Typed DEF Go
  <2>6. /\ new \in Process(proc[p].write)
        /\ new.mine = proc[p].mine /\ new.snapshot = proc[p].snapshot
        /\ new.release = proc[p].release /\ new.fitted = proc[p].fitted
        /\ new.pc = "write" /\ new.todo = proc[p].todo /\ new.sources = proc[p].sources
    BY Typed DEF Process, Places
  <2> HIDE DEF new
  <2>7. proc'[p] = new
    BY <2>5, Typed
  <2>8. Alive(p) /\ Alive(p)' /\ Fitting(p)
    BY <2>2, <2>6, <2>7 DEF Alive, Ended, CatalogueInv
  <2>9. /\ Wanted(p)' = Wanted(p) /\ Existing(p)' = Existing(p)
        /\ \A l : Artifact(p, l)' = Artifact(p, l)
    BY <2>2, <2>6, <2>7 DEF Wanted, Existing, Visible, Spec_, Artifact, Snapshot
  <2>10. ASSUME NEW l \in proc[p].fitted
         PROVE  files'[Artifact(p, l)'] = "whole"
    <3>1. Artifact(p, l) \in Models
      BY <2>8, Typed, ArtifactOf
    <3> QED
      BY <2>3, <2>8, <2>9, <3>1 DEF Fitting, WholeStay
  <2> HIDE DEF CatalogueInv
  <2>11. Fitting(p)'
    BY <2>2, <2>6, <2>7, <2>8, <2>9, <2>10 DEF Fitting
  <2> QED
    BY <2>2, <2>3, <2>4, <2>5, <2>6, <2>8, <2>11, StepWithin
<1>4. CASE WriteArtifact(p)
  <2>1. PICK k \in First(proc[p].todo) :
          /\ files' = [files EXCEPT ![Artifact(p, k)] = "whole"]
          /\ Keep(p, k)
    BY <1>4 DEF WriteArtifact
  <2>2. /\ proc[p].pc = "write"
        /\ UNCHANGED <<data, deployed, snaps, rows, obs>>
    BY <1>4 DEF WriteArtifact
  <2>3. Artifact(p, k) \in Models
    BY <1>2, <2>2, Typed, ArtifactOf DEF Alive, Ended
  <2>4. /\ WholeStay /\ files' \in [Models -> {"absent", "partial", "whole"}]
        /\ files'[Artifact(p, k)] = "whole"
    BY <1>1, <2>1, <2>3 DEF WholeStay
  <2> QED
    BY <1>2, <2>1, <2>2, <2>4, KeptOne
<1>5. CASE KeepArtifact(p)
  <2>1. PICK k \in First(proc[p].todo) : files[Artifact(p, k)] = "whole" /\ Keep(p, k)
    BY <1>5 DEF KeepArtifact
  <2>2. /\ proc[p].pc = "open"
        /\ UNCHANGED <<data, deployed, snaps, rows, files, obs>>
    BY <1>5 DEF KeepArtifact, Unshared
  <2>3. WholeStay /\ files'[Artifact(p, k)] = "whole"
    BY <2>1, <2>2 DEF WholeStay
  <2> QED
    BY <1>1, <1>2, <2>1, <2>2, <2>3, KeptOne
<1>6. CASE RefuseArtifact(p)
  BY <1>6, Left DEF RefuseArtifact, Unshared
<1> QED
  BY <1>3, <1>4, <1>5, <1>6

\* A model is recorded, or has been.
LEMMA RecordStep ==
  ASSUME CatalogueInv, NEW p \in Commands, RecordModel(p)
  PROVE  CatalogueInv'
<1>1. PICK k \in First(proc[p].fitted) :
        LET m == Artifact(p, k)
            taken == \E r \in rows : Unique(r) = Unique(m)
        IN /\ \A q \in Commands \ {p} : \A r \in proc[q].mine : Unique(r) # Unique(m)
           /\ proc' = [proc EXCEPT
                ![p].fitted = @ \ {k},
                ![p].mine = IF taken THEN @ ELSE @ \cup {m},
                ![p].pc = IF proc[p].fitted = {k} THEN Then(proc[p].subjects) ELSE "record"]
  BY DEF RecordModel
<1>2. proc[p].pc = "record" /\ UNCHANGED <<data, deployed, snaps, rows, files, obs>>
  BY DEF RecordModel, Unshared
<1>3. TypeOK' /\ WholeStay
  BY <1>2 DEF CatalogueInv, TypeOK, WholeStay
<1>4. Fitting(p) /\ Recording(p) /\ Publishing(p) /\ Alive(p)
  BY <1>2 DEF CatalogueInv, Alive, Ended
<1>5. k \in proc[p].fitted /\ k \in ModelKeys
  BY Typed DEF First
<1> DEFINE m == Artifact(p, k)
           taken == \E r \in rows : Unique(r) = Unique(m)
           mine == IF taken THEN proc[p].mine ELSE proc[p].mine \cup {m}
           left == proc[p].fitted \ {k}
           where == IF proc[p].fitted = {k} THEN Then(proc[p].subjects) ELSE "record"
           new == [proc[p] EXCEPT !.fitted = left, !.mine = mine, !.pc = where]
<1>6. /\ m \in Models /\ m[1] \in proc[p].snapshot /\ m[2] = k /\ m[3] = Spec_(p)
      /\ files[m] = "whole"
  BY <1>4, <1>5, ArtifactOf DEF Fitting
<1>7. \A q \in Commands \ {p} : \A r \in proc[q].mine : Unique(r) # Unique(m)
  BY <1>1
<1>8. proc' = [proc EXCEPT ![p] = new]
  BY <1>1, Typed
<1>9. /\ where \in {"record", "commit", "read"} /\ (where # "record" => left = {})
      /\ left \subseteq ModelKeys /\ left \subseteq proc[p].fitted
      /\ proc[p].fitted = left \cup {k}
  BY <1>5, Typed DEF Then
<1>10. /\ mine \subseteq Models /\ proc[p].mine \subseteq mine
       /\ \A r \in mine : r \in proc[p].mine \/ (r = m /\ ~taken)
       /\ taken \/ m \in mine
  BY <1>6, Typed
<1> HIDE DEF where, left, mine, m
<1>11. /\ new \in Process(proc[p].write)
       /\ new.mine = mine /\ new.snapshot = proc[p].snapshot
       /\ new.release = proc[p].release /\ new.fitted = left /\ new.write = proc[p].write
       /\ new.pc = where /\ new.todo = proc[p].todo /\ new.sources = proc[p].sources
  BY <1>9, <1>10, Typed DEF Process, Places
<1> HIDE DEF new
<1>12. proc'[p] = new
  BY <1>8, Typed
<1>13. Alive(p)'
  BY <1>9, <1>11, <1>12 DEF Alive, Ended
<1>14. /\ Wanted(p)' = Wanted(p) /\ Existing(p) \subseteq Existing(p)'
       /\ \A l : Artifact(p, l)' = Artifact(p, l)
  BY <1>2, <1>10, <1>11, <1>12
     DEF Wanted, Existing, Visible, Spec_, Artifact, Snapshot
<1>15. k \in Existing(p)'
  <2>1. CASE taken
    <3>1. PICK r \in rows : Unique(r) = Unique(m)
      BY <2>1
    <3>2. r[1] = m[1] /\ r[2] = m[2] /\ r[3] = m[3]
      BY <3>1 DEF Unique
    <3> QED
      BY <1>2, <1>6, <1>11, <1>12, <3>1, <3>2 DEF Existing, Visible, Spec_
  <2>2. CASE m \in mine
    BY <1>2, <1>6, <1>11, <1>12, <2>2 DEF Existing, Visible, Spec_
  <2> QED
    BY <1>10, <2>1, <2>2
<1>16. Fitting(p)'
  <2>1. \A l \in left : files'[Artifact(p, l)'] = "whole"
    BY <1>2, <1>4, <1>9, <1>14 DEF Fitting
  <2>2. Wanted(p)' \subseteq Existing(p)' \cup proc'[p].todo \cup left
    BY <1>2, <1>4, <1>9, <1>11, <1>12, <1>14, <1>15 DEF Fitting
  <2> QED
    BY <1>2, <1>4, <1>9, <1>11, <1>12, <1>13, <2>1, <2>2 DEF Fitting
<1>17. \A r \in mine : r = Artifact(p, r[2])' /\ files'[r] = "whole"
  <2>1. m = Artifact(p, m[2])
    BY <1>6 DEF m
  <2> QED
    BY <1>2, <1>4, <1>6, <1>10, <1>14, <2>1 DEF Recording
<1>18. \A r \in mine : \A l \in rows : Unique(r) # Unique(l)
  BY <1>4, <1>10 DEF Recording
<1>19. \A r \in mine : \A q \in Commands \ {p} : \A l \in proc[q].mine : Unique(r) # Unique(l)
  BY <1>4, <1>7, <1>10 DEF Recording
<1>20. Backed(new.write, rows \cup mine)
  <2>1. Backed(proc[p].write, Visible(p)) /\ Visible(p) \subseteq rows \cup mine
    BY <1>4, <1>10 DEF Publishing, Visible
  <2> QED
    BY <1>11, <2>1, BackedMore
<1>21. \A s \in Subjects : Together(Over(new.write, obs), s)
  BY <1>4, <1>11 DEF Publishing, Seen
<1>22. \A l \in DOMAIN new.write : \A q \in Commands \ {p} : \A x \in DOMAIN proc[q].write :
         l[2] # x[2]
  BY <1>4, <1>11 DEF Publishing
<1>23. new \in Process(new.write) /\ RowsTyped(new.write)
  BY <1>11, Typed
<1> HIDE DEF CatalogueInv
<1> QED
  BY <1>2, <1>3, <1>8, <1>11, <1>13, <1>16, <1>17, <1>18, <1>19, <1>20, <1>21, <1>22, <1>23,
     StepOfOne

\* What a publication writes is typed and backed, when its drafts are and what it saw was.
LEMMA PublicationSound ==
  ASSUME NEW seen, NEW visible, RowsTyped(seen), Backed(seen, visible),
         NEW n \in Data, NEW s \in Subjects, NEW scope \in SUBSET Slots, NEW drafts,
         NEW release \in Releases, DOMAIN drafts \subseteq scope,
         \A t \in DOMAIN drafts : drafts[t] \in Models \cup {None},
         \A t \in DOMAIN drafts :
           IF t = Plain THEN drafts[t] = None
           ELSE Cites([model |-> drafts[t], release |-> release, current |-> TRUE],
                      <<n, s, t>>, visible),
         NEW W, W = Publication(seen, n, s, scope, drafts, release)
  PROVE  RowsTyped(W) /\ Backed(W, visible) /\ \A k \in DOMAIN W : k[2] = s /\ k[3] \in scope
<1> SUFFICES ASSUME NEW k \in DOMAIN W
             PROVE  /\ k \in Figures /\ W[k] \in Cells /\ k[2] = s /\ k[3] \in scope
                    /\ IF k[3] = Plain THEN W[k].model = None ELSE Cites(W[k], k, visible)
  BY DEF RowsTyped, Backed
<1>1. k[2] = s
  BY Published
<1>2. CASE /\ k[3] \in DOMAIN drafts /\ k = <<n, s, k[3]>>
           /\ W[k] = [model |-> drafts[k[3]], release |-> release, current |-> TRUE]
  <2>1. k \in Figures /\ W[k] \in Cells /\ k[3] \in scope
    BY <1>2 DEF Figures, Cells
  <2>2. IF k[3] = Plain THEN W[k].model = None ELSE Cites(W[k], k, visible)
    BY <1>2
  <2> QED
    BY <1>1, <2>1, <2>2
<1>3. CASE k \in Current(seen, s, scope) /\ W[k] = [seen[k] EXCEPT !.current = FALSE]
  <2>1. k \in DOMAIN seen /\ k[3] \in scope /\ k \in Figures /\ seen[k] \in Cells
    BY <1>3 DEF Current, RowsTyped
  <2>2. /\ W[k] \in Cells /\ W[k].model = seen[k].model /\ W[k].release = seen[k].release
    BY <1>3, <2>1 DEF Cells
  <2>3. IF k[3] = Plain THEN seen[k].model = None ELSE Cites(seen[k], k, visible)
    BY <2>1 DEF Backed
  <2> QED
    BY <1>1, <2>1, <2>2, <2>3 DEF Cites
<1> QED
  BY <1>2, <1>3, Published

\* A subject published whole has its current ratios together, under one release.
LEMMA PublishedTogether ==
  ASSUME NEW seen, RowsTyped(seen), \A t \in Subjects : Together(seen, t),
         NEW n \in Data, NEW s \in Subjects, NEW drafts, DOMAIN drafts = Drafted[s] \cup {Plain},
         NEW release,
         NEW W, W = Publication(seen, n, s, Slots, drafts, release),
         NEW u, u = Over(W, seen),
         NEW t \in Subjects
  PROVE  Together(u, t)
<1>0. /\ DOMAIN u = DOMAIN W \cup DOMAIN seen
      /\ \A k \in DOMAIN W : u[k] = W[k]
      /\ \A k \in DOMAIN seen \ DOMAIN W : u[k] = seen[k]
  BY DEF Over
<1>1. \A k \in DOMAIN W : k[2] = s
  BY Published
<1>2. CASE t # s \/ DOMAIN W = {}
  <2>1. Together(seen, t)
    OBVIOUS
  <2>2. /\ \A k \in DOMAIN u : k[2] = t => k \in DOMAIN seen /\ u[k] = seen[k]
        /\ \A k \in DOMAIN seen : k \in DOMAIN u
    BY <1>0, <1>1, <1>2
  <2> QED
    BY <2>1, <2>2, TogetherAlike
<1>3. CASE t = s /\ DOMAIN W # {}
  <2>1. /\ \A x \in DOMAIN drafts :
             /\ <<n, s, x>> \in DOMAIN W
             /\ W[<<n, s, x>>] = [model |-> drafts[x], release |-> release, current |-> TRUE]
        /\ Current(seen, s, Slots) \subseteq DOMAIN W
    BY <1>3, Published
  <2> SUFFICES ASSUME NEW k \in DOMAIN u, k[2] = s, k[3] # Plain, u[k].current
               PROVE  /\ k[3] \in Drafted[s]
                      /\ \A x \in Drafted[s] :
                           /\ <<k[1], s, x>> \in DOMAIN u
                           /\ u[<<k[1], s, x>>].current
                           /\ u[<<k[1], s, x>>].release = u[k].release
    BY <1>3 DEF Together
  <2>2. k \in DOMAIN W
    <3> SUFFICES ASSUME k \notin DOMAIN W
                 PROVE  FALSE
      OBVIOUS
    <3>1. k \in DOMAIN seen /\ u[k] = seen[k] /\ k \in Figures
      BY <1>0 DEF RowsTyped
    <3>2. k \in Current(seen, s, Slots)
      BY <3>1 DEF Current, Figures
    <3> QED
      BY <2>1, <3>2
  <2>3. u[k] = W[k]
    BY <1>0, <2>2
  <2>4. CASE /\ k[3] \in DOMAIN drafts /\ k = <<n, s, k[3]>>
             /\ W[k] = [model |-> drafts[k[3]], release |-> release, current |-> TRUE]
    <3>1. k[1] = n /\ k[3] \in Drafted[s] /\ u[k].release = release
      BY <2>3, <2>4
    <3>2. ASSUME NEW x \in Drafted[s]
          PROVE  /\ <<n, s, x>> \in DOMAIN u
                 /\ u[<<n, s, x>>].current
                 /\ u[<<n, s, x>>].release = release
      <4>1. /\ <<n, s, x>> \in DOMAIN W
            /\ W[<<n, s, x>>] = [model |-> drafts[x], release |-> release, current |-> TRUE]
        BY <2>1
      <4> QED
        BY <1>0, <4>1
    <3> QED
      BY <3>1, <3>2
  <2>5. CASE k \in Current(seen, s, Slots) /\ W[k] = [seen[k] EXCEPT !.current = FALSE]
    <3>1. k \in DOMAIN seen /\ seen[k] \in Cells
      BY <2>5 DEF Current, RowsTyped
    <3>2. W[k].current = FALSE
      BY <2>5, <3>1 DEF Cells
    <3> QED
      BY <2>3, <3>2
  <2> QED
    BY <2>2, <2>4, <2>5, Published
<1> QED
  BY <1>2, <1>3

\* The snapshot's models, read back.
LEMMA ReadStep ==
  ASSUME CatalogueInv, NEW p \in Commands, ReadModels(p)
  PROVE  CatalogueInv'
<1>1. proc[p].pc = "read" /\ UNCHANGED <<data, deployed, snaps, rows, files, obs>>
  BY DEF ReadModels, Unshared
<1>2. TypeOK' /\ WholeStay
  BY <1>1 DEF CatalogueInv, TypeOK, WholeStay
<1>3. Fitting(p)
  BY DEF CatalogueInv
<1>4. CASE Leave(p)
  BY <1>1, <1>4, Left
<1>5. CASE proc' = [proc EXCEPT ![p].models = Parameters(p), ![p].pc = "publish"]
  <2> DEFINE new == [proc[p] EXCEPT !.models = Parameters(p), !.pc = "publish"]
  <2>1. proc' = [proc EXCEPT ![p] = new]
    BY <1>5, Typed
  <2>2. Parameters(p) \subseteq Models
    BY Typed DEF Parameters, Visible, CatalogueInv, TypeOK
  <2>3. /\ new \in Process(proc[p].write)
        /\ new.mine = proc[p].mine /\ new.snapshot = proc[p].snapshot
        /\ new.release = proc[p].release /\ new.fitted = proc[p].fitted
        /\ new.todo = proc[p].todo /\ new.sources = proc[p].sources
        /\ new.pc = "publish" /\ new.models = Parameters(p)
    BY <2>2, Typed DEF Process, Places
  <2> HIDE DEF new, CatalogueInv
  <2>4. proc'[p] = new
    BY <2>1, Typed
  <2>5. Alive(p) /\ Alive(p)'
    BY <1>1, <2>3, <2>4 DEF Alive, Ended
  <2>6. /\ Wanted(p)' = Wanted(p) /\ Existing(p)' = Existing(p)
        /\ Parameters(p)' = Parameters(p)
    BY <1>1, <2>3, <2>4 DEF Wanted, Existing, Parameters, Visible, Spec_
  <2>7. Fitting(p)'
    BY <1>1, <1>3, <2>3, <2>4, <2>5, <2>6 DEF Fitting
  <2> QED
    BY <1>1, <1>2, <2>1, <2>3, <2>5, <2>7, StepWithin
<1> QED
  BY <1>4, <1>5 DEF ReadModels

\* The catalogue a publishing command sees is complete, and its models are of it.
LEMMA CatalogueSeen ==
  ASSUME CatalogueInv, NEW p \in Commands, proc[p].pc = "publish"
  PROVE  /\ \A m \in proc[p].models :
              m \in Visible(p) /\ m[1] = Snapshot(p) /\ m[3] = Specification[proc[p].release]
         /\ \A s \in Sources : \A t \in Unavailable[s] : \E m \in Visible(p) :
              Unique(m) = <<Snapshot(p), <<s, t>>, Specification[proc[p].release]>>
<1>1. Fitting(p) /\ proc[p].snapshot = {Snapshot(p)}
  <2>1. PICK n \in Data : proc[p].snapshot = {n}
    BY DEF CatalogueInv, Fitting, Alive, Ended
  <2> QED
    BY <2>1 DEF CatalogueInv, Snapshot
<1>2. \A m \in proc[p].models :
        m \in Visible(p) /\ m[1] = Snapshot(p) /\ m[3] = Specification[proc[p].release]
  BY <1>1 DEF Fitting, Parameters, Spec_
<1>3. ASSUME NEW s \in Sources, NEW t \in Unavailable[s]
      PROVE  \E m \in Visible(p) :
               Unique(m) = <<Snapshot(p), <<s, t>>, Specification[proc[p].release]>>
  <2>1. <<s, t>> \in Wanted(p)
    BY CatalogData DEF Wanted, ModelKeys
  <2>2. <<s, t>> \in Existing(p)
    BY <1>1, <2>1 DEF Fitting
  <2>3. PICK m \in Visible(p) : m[1] \in proc[p].snapshot /\ m[3] = Spec_(p) /\ m[2] = <<s, t>>
    BY <2>2 DEF Existing
  <2> QED
    BY <1>1, <2>3 DEF Unique, Spec_
<1> QED
  BY <1>2, <1>3

\* One subject is published, or a figure lacks its model.
LEMMA PublishStep ==
  ASSUME CatalogueInv, NEW p \in Commands, Publish(p)
  PROVE  CatalogueInv'
<1>1. proc[p].pc = "publish" /\ proc[p].subjects # {}
      /\ UNCHANGED <<data, deployed, snaps, rows, files, obs>>
  BY DEF Publish, Unshared
<1>2. TypeOK' /\ WholeStay
  BY <1>1 DEF CatalogueInv, TypeOK, WholeStay
<1>3. Fitting(p) /\ Recording(p) /\ Publishing(p) /\ Alive(p)
  BY <1>1 DEF CatalogueInv, Alive, Ended
<1> DEFINE s == NextSubject(proc[p].subjects)
           models == proc[p].models
           drafts == Drafts(s, Slots, models)
           release == proc[p].release
           n == Snapshot(p)
           W == Publication(Seen(p), n, s, Slots, drafts, release)
           write == Over(W, proc[p].write)
           new == [proc[p] EXCEPT !.subjects = @ \ {s}, !.write = write]
<1>4. CASE Leave(p)
  BY <1>1, <1>4, Left
<1>5. CASE /\ ~\E t \in Drafted[s] : \A m \in models : m[2] # <<SourceOf[s], t>>
           /\ Free(p, s)
           /\ proc' = [proc EXCEPT ![p].subjects = @ \ {s}, ![p].write = write]
  <2>1. s \in Subjects
    BY <1>1, NextIsOne, Typed
  <2>2. proc' = [proc EXCEPT ![p] = new]
    BY <1>5, Typed
  <2>3. n \in Data /\ release \in Releases /\ Drafted[s] \subseteq Targets /\ Plain \notin Targets
    <3>1. PICK d \in Data : proc[p].snapshot = {d}
      BY <1>3 DEF Fitting
    <3> QED
      BY <2>1, <3>1, Typed, CatalogData DEF Snapshot
  <2>4. /\ DOMAIN drafts = Drafted[s] \cup {Plain}
        /\ drafts[Plain] = None
        /\ \A t \in Drafted[s] : drafts[t] \in models /\ drafts[t][2] = <<SourceOf[s], t>>
    <3>1. DOMAIN drafts = Drafted[s] \cup {Plain}
      BY <2>3 DEF Drafts, Slots
    <3>2. drafts[Plain] = None
      BY <3>1 DEF Drafts
    <3>3. ASSUME NEW t \in Drafted[s]
          PROVE  drafts[t] \in models /\ drafts[t][2] = <<SourceOf[s], t>>
      <4>1. \E m \in models : m[2] = <<SourceOf[s], t>>
        BY <1>5
      <4>2. drafts[t] = CHOOSE m \in models : m[2] = <<SourceOf[s], t>>
        BY <2>3, <3>1 DEF Drafts
      <4> QED
        BY <4>1, <4>2
    <3> QED
      BY <3>1, <3>2, <3>3
  <2>5. /\ \A m \in models :
             m \in Visible(p) /\ m[1] = n /\ m[3] = Specification[release]
        /\ \A c \in Sources : \A t \in Unavailable[c] : \E m \in Visible(p) :
             Unique(m) = <<n, <<c, t>>, Specification[release]>>
    BY <1>1, CatalogueSeen
  <2>6. models \subseteq Models /\ RowsTyped(Seen(p)) /\ Backed(Seen(p), Visible(p))
    BY Typed, SeenBacked
  <2>7. /\ Slots \in SUBSET Slots /\ DOMAIN drafts \subseteq Slots
        /\ \A t \in DOMAIN drafts : drafts[t] \in Models \cup {None}
    BY <2>3, <2>4, <2>6 DEF Slots
  <2> HIDE DEF s, models, drafts, release, n, CatalogueInv
  <2>8. ASSUME NEW t \in DOMAIN drafts
        PROVE  IF t = Plain THEN drafts[t] = None
               ELSE Cites([model |-> drafts[t], release |-> release, current |-> TRUE],
                          <<n, s, t>>, Visible(p))
    <3>1. CASE t = Plain
      BY <2>4, <3>1
    <3>2. CASE t # Plain
      <4>1. drafts[t] \in models /\ drafts[t][2] = <<SourceOf[s], t>>
        BY <2>4, <3>2
      <4>2. drafts[t] \in Visible(p) /\ drafts[t][1] = n /\ drafts[t][3] = Specification[release]
        BY <2>5, <4>1
      <4> QED
        BY <2>5, <3>2, <4>1, <4>2 DEF Cites
    <3> QED
      BY <3>1, <3>2
  <2>0. W = Publication(Seen(p), n, s, Slots, drafts, release)
    OBVIOUS
  <2> HIDE DEF W
  <2>9. RowsTyped(W) /\ Backed(W, Visible(p)) /\ \A k \in DOMAIN W : k[2] = s
    BY <2>0, <2>1, <2>3, <2>6, <2>7, <2>8, PublicationSound, SMTT(60)
  <2>10. /\ DOMAIN write = DOMAIN W \cup DOMAIN proc[p].write
         /\ \A k \in DOMAIN W : write[k] = W[k]
         /\ \A k \in DOMAIN proc[p].write \ DOMAIN W : write[k] = proc[p].write[k]
    BY DEF Over
  <2> DEFINE u == Over(write, obs)
  <2>11. u = Over(W, Seen(p))
    BY OverTwice DEF Seen
  <2> HIDE DEF u
  <2>12. \A t \in Subjects : Together(Seen(p), t)
    BY <1>3 DEF Publishing
  <2>13. ASSUME NEW t \in Subjects
         PROVE  Together(u, t)
    BY <2>0, <2>1, <2>3, <2>4, <2>6, <2>11, <2>12, PublishedTogether
  <2> HIDE DEF write
  <2>14. /\ new.mine = proc[p].mine /\ new.snapshot = proc[p].snapshot
         /\ new.release = proc[p].release /\ new.fitted = proc[p].fitted
         /\ new.todo = proc[p].todo /\ new.sources = proc[p].sources
         /\ new.pc = proc[p].pc /\ new.models = proc[p].models /\ new.write = write
         /\ new \in Process(new.write)
    BY Typed DEF Process
  <2> HIDE DEF new
  <2>15. proc'[p] = new
    BY <2>2, Typed
  <2>16. Alive(p)'
    BY <1>3, <2>14, <2>15 DEF Alive
  <2>17. /\ Wanted(p)' = Wanted(p) /\ Existing(p)' = Existing(p)
         /\ Parameters(p)' = Parameters(p)
         /\ \A l : Artifact(p, l)' = Artifact(p, l)
    BY <1>1, <2>14, <2>15
       DEF Wanted, Existing, Parameters, Visible, Spec_, Artifact, Snapshot
  <2>18. Fitting(p)'
    BY <1>1, <1>3, <2>14, <2>15, <2>16, <2>17 DEF Fitting
  <2>19. \A m \in new.mine : m = Artifact(p, m[2])' /\ files'[m] = "whole"
    BY <1>1, <1>3, <2>14, <2>17 DEF Recording
  <2>20. /\ \A m \in new.mine : \A r \in rows : Unique(m) # Unique(r)
         /\ \A m \in new.mine : \A q \in Commands \ {p} : \A r \in proc[q].mine :
              Unique(m) # Unique(r)
    BY <1>3, <2>14 DEF Recording
  <2>21. RowsTyped(new.write) /\ Backed(new.write, rows \cup new.mine)
    <3>1. RowsTyped(proc[p].write) /\ Backed(proc[p].write, Visible(p))
      BY <1>3, Typed DEF Publishing
    <3>2. RowsTyped(write)
      BY <2>9, <2>10, <3>1 DEF RowsTyped
    <3>3. Backed(write, Visible(p))
      <4> SUFFICES ASSUME NEW k \in DOMAIN write
                   PROVE  IF k[3] = Plain THEN write[k].model = None
                          ELSE Cites(write[k], k, Visible(p))
        BY DEF Backed
      <4>1. CASE k \in DOMAIN W
        BY <2>9, <2>10, <4>1 DEF Backed
      <4>2. CASE k \in DOMAIN proc[p].write \ DOMAIN W
        BY <2>10, <3>1, <4>2 DEF Backed
      <4> QED
        BY <2>10, <4>1, <4>2
    <3> QED
      BY <2>14, <3>2, <3>3 DEF Visible
  <2>22. \A t \in Subjects : Together(Over(new.write, obs), t)
    BY <2>13, <2>14 DEF u
  <2>23. \A k \in DOMAIN new.write : \A q \in Commands \ {p} : \A l \in DOMAIN proc[q].write :
           k[2] # l[2]
    <3>1. \A k \in DOMAIN write : k[2] = s \/ k \in DOMAIN proc[p].write
      BY <2>9, <2>10
    <3> QED
      BY <1>3, <1>5, <2>14, <3>1 DEF Free, Publishing
  <2> QED
    BY <1>1, <1>2, <2>2, <2>14, <2>16, <2>18, <2>19, <2>20, <2>21, <2>22, <2>23, <1>3, StepOfOne
<1> QED
  BY <1>4, <1>5 DEF Publish

\* A commit: what was visible to the command is visible to all.
LEMMA CommitStep ==
  ASSUME CatalogueInv, NEW p \in Commands, Commit(p)
  PROVE  CatalogueInv'
<1> DEFINE new == [Idle EXCEPT !.pc = "over"]
<1>1. /\ snaps' = snaps \cup proc[p].fresh /\ rows' = Visible(p) /\ obs' = Seen(p)
      /\ proc' = [proc EXCEPT ![p] = new]
      /\ UNCHANGED <<data, deployed, files>>
  BY DEF Commit, Leave, Visible
<1>2. Fitting(p) /\ Recording(p) /\ Publishing(p)
  BY DEF CatalogueInv
<1>3. 1 \in Releases
  BY CatalogBounds DEF Releases
<1>4. /\ new \in Process(Nothing) /\ new.mine = {} /\ new.fitted = {} /\ new.pc = "over"
      /\ new.write = Nothing
  BY <1>3 DEF Idle, Process, Places
<1> HIDE DEF new
<1>5. /\ proc'[p] = new /\ ~Alive(p)'
      /\ \A q \in Commands \ {p} : proc'[q] = proc[q]
      /\ proc' = [q \in Commands |-> proc'[q]]
  BY <1>1, <1>4, Typed DEF Alive, Ended
<1>6. ProcsTyped'
  <2>1. RowsTyped(new.write)
    BY <1>4, NothingThere DEF RowsTyped
  <2> QED
    BY <1>4, <1>5, <2>1 DEF CatalogueInv, ProcsTyped
<1>7. TypeOK'
  <2>1. DOMAIN Seen(p) \subseteq Figures /\ \A k \in DOMAIN Seen(p) : Seen(p)[k] \in Cells
    BY SeenBacked DEF RowsTyped
  <2>2. Visible(p) \subseteq Models /\ snaps \cup proc[p].fresh \subseteq Data
    BY Typed DEF Visible, CatalogueInv, TypeOK
  <2> QED
    BY <1>1, <2>1, <2>2 DEF CatalogueInv, TypeOK
<1>8. CatalogueWhole'
  <2>1. \A m \in Visible(p) : files[m] = "whole"
    BY <1>2 DEF CatalogueInv, CatalogueWhole, Recording, Visible
  <2>2. ASSUME NEW m \in Visible(p), NEW r \in Visible(p), Unique(m) = Unique(r)
        PROVE  m = r
    <3>1. CASE m \in rows /\ r \in rows
      BY <2>2, <3>1 DEF CatalogueInv, CatalogueWhole
    <3>2. CASE m \in proc[p].mine /\ r \in proc[p].mine
      <4>1. m = Artifact(p, m[2]) /\ r = Artifact(p, r[2])
        BY <1>2, <3>2 DEF Recording
      <4>2. m[2] = r[2]
        BY <2>2 DEF Unique
      <4> QED
        BY <4>1, <4>2
    <3>3. CASE ~(m \in rows /\ r \in rows) /\ ~(m \in proc[p].mine /\ r \in proc[p].mine)
      BY <1>2, <2>2, <3>3 DEF Recording, Visible
    <3> QED
      BY <3>1, <3>2, <3>3
  <2> QED
    BY <1>1, <2>1, <2>2 DEF CatalogueWhole, Unique
<1>9. Backed(obs, rows)' /\ \A s \in Subjects : Together(obs, s)'
  <2>1. Backed(Seen(p), Visible(p)) /\ \A s \in Subjects : Together(Seen(p), s)
    BY <1>2, SeenBacked DEF Publishing
  <2> QED
    BY <1>1, <2>1 DEF Backed, Cites, Together
<1>10. WholeStay /\ rows \subseteq rows'
  BY <1>1 DEF WholeStay, Visible
<1>11. ASSUME NEW q \in Commands
       PROVE  Fitting(q)' /\ Recording(q)' /\ Publishing(q)'
  <2>1. CASE q = p
    <3>1. Fitting(q)'
      BY <1>4, <1>5, <2>1 DEF Fitting, Alive, Ended
    <3>2. Recording(q)'
      BY <1>4, <1>5, <2>1 DEF Recording
    <3>3. Publishing(q)'
      <4>1. DOMAIN proc'[q].write = {}
        BY <1>4, <1>5, <2>1, NothingThere
      <4>2. Backed(proc[q].write, Visible(q))'
        BY <4>1 DEF Backed
      <4>3. Seen(q)' = obs'
        <5>1. Seen(q)' = Over(proc'[q].write, obs')
          BY DEF Seen, Over
        <5>2. obs' = [k \in DOMAIN obs' |-> obs'[k]]
          BY <1>1 DEF Seen, Over
        <5> QED
          BY <4>1, <5>1, <5>2 DEF Over
      <4>4. \A s \in Subjects : Together(Seen(q), s)'
        BY <1>9, <4>3 DEF Together
      <4> QED
        BY <4>1, <4>2, <4>4 DEF Publishing
    <3> QED
      BY <3>1, <3>2, <3>3
  <2>2. CASE q # p
    <3>1. Recording(q) /\ Publishing(q) /\ proc'[q] = proc[q]
      BY <1>5, <2>2 DEF CatalogueInv
    <3>2. Fitting(q)'
      BY <1>10, <3>1, FittingStays
    <3>3. \A k : Artifact(q, k)' = Artifact(q, k)
      BY <3>1 DEF Artifact, Snapshot, Spec_
    <3>4. Recording(q)'
      <4>1. /\ ~Alive(q)' => proc'[q].mine = {} /\ proc'[q].write = Nothing
            /\ \A m \in proc'[q].mine : m = Artifact(q, m[2])' /\ files'[m] = "whole"
        BY <1>1, <3>1, <3>3 DEF Recording, Alive
      <4>2. \A m \in proc'[q].mine : \A r \in rows' : Unique(m) # Unique(r)
        BY <1>1, <2>2, <3>1 DEF Recording, Visible
      <4>3. ASSUME NEW r \in Commands \ {q}, NEW m \in proc'[q].mine, NEW l \in proc'[r].mine
            PROVE  Unique(m) # Unique(l)
        <5>1. r # p /\ l \in proc[r].mine
          BY <1>4, <1>5, <4>3
        <5> QED
          BY <3>1, <5>1 DEF Recording
      <4> QED
        BY <4>1, <4>2, <4>3 DEF Recording, Unique
    <3>5. Publishing(q)'
      <4>1. Backed(proc[q].write, Visible(q))'
        <5>1. Visible(q)' = rows' \cup proc[q].mine /\ Visible(q) \subseteq Visible(q)'
          BY <1>10, <3>1 DEF Visible
        <5>2. Backed(proc[q].write, Visible(q))
          BY <3>1 DEF Publishing
        <5> QED
          BY <3>1, <5>1, <5>2 DEF Backed, Cites
      <4>2. ASSUME NEW s \in Subjects
            PROVE  Together(Seen(q), s)'
        <5> DEFINE u == Over(proc[q].write, Seen(p))
        <5>1. Seen(q)' = u
          BY <1>1, <3>1 DEF Seen, Over
        <5>2. /\ DOMAIN Seen(p) = DOMAIN proc[p].write \cup DOMAIN obs
              /\ \A k \in DOMAIN proc[p].write : Seen(p)[k] = proc[p].write[k]
              /\ \A k \in DOMAIN obs \ DOMAIN proc[p].write : Seen(p)[k] = obs[k]
          BY DEF Seen, Over
        <5>3. /\ DOMAIN Seen(q) = DOMAIN proc[q].write \cup DOMAIN obs
              /\ \A k \in DOMAIN proc[q].write : Seen(q)[k] = proc[q].write[k]
              /\ \A k \in DOMAIN obs \ DOMAIN proc[q].write : Seen(q)[k] = obs[k]
          BY DEF Seen, Over
        <5>4. /\ DOMAIN u = DOMAIN proc[q].write \cup DOMAIN Seen(p)
              /\ \A k \in DOMAIN proc[q].write : u[k] = proc[q].write[k]
              /\ \A k \in DOMAIN Seen(p) \ DOMAIN proc[q].write : u[k] = Seen(p)[k]
          BY DEF Over
        <5>5. \A k \in DOMAIN proc[q].write, l \in DOMAIN proc[p].write : k[2] # l[2]
          BY <2>2, <3>1 DEF Publishing
        <5> HIDE DEF u
        <5>6. Together(u, s)
          <6>1. CASE \E k \in DOMAIN proc[q].write : k[2] = s
            <7>1. \A k \in DOMAIN proc[p].write : k[2] # s
              BY <5>5, <6>1
            <7>2. Together(Seen(q), s)
              BY <3>1 DEF Publishing
            <7>3. /\ \A k \in DOMAIN u : k[2] = s => k \in DOMAIN Seen(q) /\ u[k] = Seen(q)[k]
                  /\ \A k \in DOMAIN Seen(q) : k \in DOMAIN u
              BY <5>2, <5>3, <5>4, <7>1
            <7> QED
              BY <7>2, <7>3, TogetherAlike
          <6>2. CASE ~\E k \in DOMAIN proc[q].write : k[2] = s
            <7>1. Together(Seen(p), s)
              BY <1>2 DEF Publishing
            <7>2. /\ \A k \in DOMAIN u : k[2] = s => k \in DOMAIN Seen(p) /\ u[k] = Seen(p)[k]
                  /\ \A k \in DOMAIN Seen(p) : k \in DOMAIN u
              BY <5>4, <6>2
            <7> QED
              BY <7>1, <7>2, TogetherAlike
          <6> QED
            BY <6>1, <6>2
        <5> QED
          BY <5>1, <5>6 DEF Together
      <4>3. ASSUME NEW r \in Commands \ {q}, NEW k \in DOMAIN proc'[q].write,
                   NEW l \in DOMAIN proc'[r].write
            PROVE  k[2] # l[2]
        <5>1. CASE r = p
          BY <1>4, <1>5, <5>1, NothingThere
        <5>2. CASE r # p
          BY <1>5, <3>1, <5>2 DEF Publishing
        <5> QED
          BY <5>1, <5>2
      <4> QED
        BY <4>1, <4>2, <4>3 DEF Publishing
    <3> QED
      BY <3>2, <3>4, <3>5
  <2> QED
    BY <2>1, <2>2
<1> QED
  BY <1>6, <1>7, <1>8, <1>9, <1>11 DEF CatalogueInv

\* An ingest writes descriptive figures only, over what nobody else is writing.
LEMMA IngestWrites ==
  ASSUME CatalogueInv, NEW d \in Data, NEW r \in Releases, Ingest(d, r)
  PROVE  \E w : /\ obs' = Over(w, obs) /\ RowsTyped(w)
                /\ \A k \in DOMAIN w : k[3] = Plain /\ w[k].model = None
<1> DEFINE new(s) == Publication(obs, d, s, {Plain}, Drafts(s, {Plain}, {}), r)
           w == [k \in UNION {DOMAIN new(s) : s \in Subjects} |-> new(k[2])[k]]
<1>1. obs' = Over(w, obs)
  BY DEF Ingest
<1>2. RowsTyped(obs) /\ Backed(obs, rows)
  BY DEF CatalogueInv, TypeOK, RowsTyped
<1>3. ASSUME NEW s \in Subjects
      PROVE  /\ RowsTyped(new(s)) /\ Backed(new(s), rows)
             /\ \A k \in DOMAIN new(s) : k[2] = s /\ k[3] \in {Plain}
  <2> DEFINE drafts == Drafts(s, {Plain}, {})
  <2>1. DOMAIN drafts = {Plain} /\ drafts[Plain] = None
    BY DEF Drafts
  <2>2. {Plain} \in SUBSET Slots
    BY DEF Slots
  <2> DEFINE W == new(s)
  <2>3. W = Publication(obs, d, s, {Plain}, drafts, r)
    OBVIOUS
  <2> HIDE DEF drafts, W
  <2>4. /\ DOMAIN drafts \subseteq {Plain}
        /\ \A t \in DOMAIN drafts : drafts[t] \in Models \cup {None}
        /\ \A t \in DOMAIN drafts :
             IF t = Plain THEN drafts[t] = None
             ELSE Cites([model |-> drafts[t], release |-> r, current |-> TRUE],
                        <<d, s, t>>, rows)
    BY <2>1
  <2>5. RowsTyped(W) /\ Backed(W, rows) /\ \A k \in DOMAIN W : k[2] = s /\ k[3] \in {Plain}
    BY <1>2, <2>2, <2>3, <2>4, PublicationSound
  <2> QED
    BY <2>5 DEF W
<1> HIDE DEF new
<1>4. \A k \in DOMAIN w : k[2] \in Subjects /\ k \in DOMAIN new(k[2]) /\ w[k] = new(k[2])[k]
  BY <1>3
<1> HIDE DEF w
<1>5. ASSUME NEW k \in DOMAIN w
      PROVE  k \in Figures /\ w[k] \in Cells /\ k[3] = Plain /\ w[k].model = None
  <2>1. k[2] \in Subjects /\ k \in DOMAIN new(k[2]) /\ w[k] = new(k[2])[k]
    BY <1>4
  <2>2. RowsTyped(new(k[2])) /\ Backed(new(k[2]), rows) /\ k[3] \in {Plain}
    BY <1>3, <2>1
  <2> QED
    BY <2>1, <2>2 DEF RowsTyped, Backed
<1>6. RowsTyped(w) /\ \A k \in DOMAIN w : k[3] = Plain /\ w[k].model = None
  BY <1>5 DEF RowsTyped
<1> QED
  BY <1>1, <1>6

\* An ingest keeps the catalogue in order.
LEMMA IngestStep ==
  ASSUME CatalogueInv, NEW d \in Data, NEW r \in Releases, Ingest(d, r)
  PROVE  CatalogueInv'
<1>1. /\ UNCHANGED <<rows, files, proc>> /\ data' = d /\ deployed' \in Releases
      /\ snaps' = snaps \cup {d}
      /\ \A q \in Commands : proc[q].write = Nothing
  BY DEF Ingest, Install
<1>2. PICK w : /\ obs' = Over(w, obs) /\ RowsTyped(w)
               /\ \A k \in DOMAIN w : k[3] = Plain /\ w[k].model = None
  BY IngestWrites
<1>3. /\ DOMAIN obs' = DOMAIN w \cup DOMAIN obs
      /\ \A k \in DOMAIN w : obs'[k] = w[k]
      /\ \A k \in DOMAIN obs \ DOMAIN w : obs'[k] = obs[k]
      /\ obs' = [k \in DOMAIN obs' |-> obs'[k]]
  BY <1>2 DEF Over
<1>4. TypeOK /\ Backed(obs, rows)
  BY DEF CatalogueInv
<1>5. TypeOK'
  BY <1>1, <1>2, <1>3, <1>4 DEF TypeOK, RowsTyped
<1>6. ProcsTyped' /\ CatalogueWhole'
  BY <1>1 DEF CatalogueInv, ProcsTyped, CatalogueWhole
<1>7. Backed(obs', rows)
  <2> SUFFICES ASSUME NEW k \in DOMAIN obs'
               PROVE  IF k[3] = Plain THEN obs'[k].model = None ELSE Cites(obs'[k], k, rows)
    BY DEF Backed
  <2>1. CASE k \in DOMAIN w
    BY <1>2, <1>3, <2>1
  <2>2. CASE k \in DOMAIN obs \ DOMAIN w
    BY <1>3, <1>4, <2>2 DEF Backed
  <2> QED
    BY <1>3, <2>1, <2>2
<1> DEFINE o == obs'
<1>8. ASSUME NEW s \in Subjects
      PROVE  Together(o, s)
  <2>1. Together(obs, s)
    BY DEF CatalogueInv
  <2>2. /\ \A k \in DOMAIN o : k[3] # Plain => k \in DOMAIN obs /\ o[k] = obs[k]
        /\ \A k \in DOMAIN obs : k \in DOMAIN o
    BY <1>2, <1>3
  <2> HIDE DEF o
  <2> QED
    BY <2>1, <2>2, TogetherAlike
<1>9. Backed(obs, rows)' /\ \A s \in Subjects : Together(obs, s)'
  BY <1>1, <1>7, <1>8 DEF Backed, Cites, Together
<1>10. ASSUME NEW p \in Commands
       PROVE  Fitting(p)' /\ Recording(p)' /\ Publishing(p)'
  <2>1. Fitting(p)'
    BY <1>1, FittingStays DEF WholeStay
  <2>2. Recording(p)'
    <3>1. (\A k : Artifact(p, k)' = Artifact(p, k)) /\ (Alive(p)' <=> Alive(p))
      BY <1>1 DEF Artifact, Snapshot, Spec_, Alive
    <3>2. Recording(p)
      BY DEF CatalogueInv
    <3> QED
      BY <1>1, <3>1, <3>2 DEF Recording
  <2>3. Publishing(p)'
    <3>1. DOMAIN proc'[p].write = {}
      BY <1>1, NothingThere
    <3>2. Seen(p)' = obs'
      <4>1. Seen(p)' = Over(proc'[p].write, obs')
        BY DEF Seen, Over
      <4> QED
        BY <1>3, <3>1, <4>1 DEF Over
    <3>3. Backed(proc[p].write, Visible(p))'
      BY <3>1 DEF Backed
    <3>4. \A s \in Subjects : Together(Seen(p), s)'
      BY <1>9, <3>2 DEF Together
    <3> QED
      BY <3>1, <3>3, <3>4 DEF Publishing
  <2> QED
    BY <2>1, <2>2, <2>3
<1> QED
  BY <1>5, <1>6, <1>9, <1>10 DEF CatalogueInv

\* Every step keeps the catalogue in order.
LEMMA CatalogueStep ==
  ASSUME CatalogueInv, [Next]_vars
  PROVE  CatalogueInv'
<1>0. deployed \in Releases
  BY DEF CatalogueInv, TypeOK
<1>1. ASSUME NEW p \in Commands, BeginFit(p) \/ BeginCompute(p)
      PROVE  CatalogueInv'
  BY <1>1, BeginStep
<1>2. ASSUME NEW p \in Commands, FitStep(p)
      PROVE  CatalogueInv'
  BY <1>2, SnapshotRowStep, ListStep, ArtifactStep, RecordStep, ReadStep, PublishStep,
     CommitStep DEF FitStep
<1>3. ASSUME NEW p \in Commands, Crash(p)
      PROVE  CatalogueInv'
  BY <1>3, Left DEF Crash
<1>4. ASSUME NEW d \in Data, NEW r \in Releases, Ingest(d, r)
      PROVE  CatalogueInv'
  BY <1>4, IngestStep
<1>5. CASE StartVerify \/ VerifyStep \/ UNCHANGED vars
  <2>1. deployed' \in Releases /\ UNCHANGED <<data, snaps, rows, files, obs, proc>>
    BY <1>0, <1>5 DEF StartVerify, Install, VerifyStep, CiteModels, LoadSubject, CompareSource,
                      EndVerify, Rest, vars
  <2> QED
    BY <2>1, Untouched
<1> QED
  BY <1>1, <1>2, <1>3, <1>4, <1>5 DEF Next

\* The empty catalogue is in order.
LEMMA CatalogueInit ==
  ASSUME Init
  PROVE  CatalogueInv
<1>1. 1 \in Releases /\ DOMAIN obs = {}
  BY CatalogBounds, NothingThere DEF Releases, Init
<1>2. TypeOK
  BY <1>1, CatalogData DEF Init, TypeOK
<1>3. Idle \in Process(Nothing) /\ Idle.pc = "idle" /\ Idle.mine = {} /\ Idle.fitted = {}
      /\ Idle.write = Nothing
  BY <1>1 DEF Idle, Process, Places
<1>4. \A p \in Commands : proc[p] = Idle
  BY DEF Init
<1>5. ProcsTyped
  BY <1>3, <1>4, NothingThere DEF Init, ProcsTyped, RowsTyped
<1>6. CatalogueWhole
  BY DEF Init, CatalogueWhole
<1>7. Backed(obs, rows) /\ \A s \in Subjects : Together(obs, s)
  BY <1>1 DEF Backed, Together
<1>8. ASSUME NEW p \in Commands
      PROVE  Fitting(p) /\ Recording(p) /\ Publishing(p)
  <2>1. Fitting(p)
    BY <1>3, <1>4 DEF Fitting, Alive, Ended
  <2>2. Recording(p)
    BY <1>3, <1>4 DEF Recording
  <2>3. DOMAIN proc[p].write = {}
    BY <1>3, <1>4, NothingThere
  <2>4. DOMAIN Seen(p) = {}
    BY <1>1, <2>3 DEF Seen, Over
  <2>5. Publishing(p)
    BY <2>3, <2>4 DEF Publishing, Backed, Together
  <2> QED
    BY <2>1, <2>2, <2>5
<1> QED
  BY <1>2, <1>5, <1>6, <1>7, <1>8 DEF CatalogueInv

\* The catalogue, and what cites it, stay in order: of every reachable state, with any number
\* of commands killed anywhere.
THEOREM CatalogueInvariant == Spec => []CatalogueInv
<1>1. Init => CatalogueInv
  BY CatalogueInit
<1>2. CatalogueInv /\ [Next]_vars => CatalogueInv'
  BY CatalogueStep
<1> QED
  BY <1>1, <1>2, PTL DEF Spec

\* The catalogue's tables hold what their columns can.
THEOREM CatalogueTypeCorrect == Spec => []TypeOK
<1>1. CatalogueInv => TypeOK
  BY DEF CatalogueInv
<1> QED
  BY <1>1, CatalogueInvariant, PTL

\* Every recorded model can be read back as it was fitted, and is the only one of its snapshot,
\* source, target and specification.
THEOREM ModelsReadable == Spec => []CatalogueWhole
<1>1. CatalogueInv => CatalogueWhole
  BY DEF CatalogueInv
<1> QED
  BY <1>1, CatalogueInvariant, PTL

\* Every published ratio cites a recorded model of its own snapshot, source and target, fitted
\* under the specification of the release that published it.
THEOREM RatiosBacked == Spec => []RatiosCiteTheirModel
<1>1. CatalogueInv => RatiosCiteTheirModel
  <2> SUFFICES ASSUME CatalogueInv, NEW k \in DOMAIN obs, k[3] # Plain
               PROVE  LET m == obs[k].model IN
                      /\ m \in rows
                      /\ m[1] = k[1] /\ m[2] = <<SourceOf[k[2]], k[3]>>
                      /\ m[3] = Specification[obs[k].release]
                      /\ ArtifactHolds(m) /\ (k \in Standing => HasCard(m))
    BY DEF RatiosCiteTheirModel
  <2> DEFINE m == obs[k].model
  <2>1. /\ m \in rows
        /\ m[1] = k[1] /\ m[2] = <<SourceOf[k[2]], k[3]>>
        /\ m[3] = Specification[obs[k].release]
    BY DEF CatalogueInv, Backed, Cites
  <2>2. ArtifactHolds(m)
    BY <2>1 DEF CatalogueInv, CatalogueWhole, ArtifactHolds
  <2>3. k \in Standing => HasCard(m)
    BY <2>1 DEF HasCard
  <2> QED
    BY <2>1, <2>2, <2>3
<1> QED
  BY <1>1, CatalogueInvariant, PTL

\* Where ratios of a snapshot are published, the catalogue states every target that a source
\* of the snapshot cannot support.
THEOREM UnavailableAlwaysStated == Spec => []UnavailableStated
<1>1. CatalogueInv => UnavailableStated
  BY DEF CatalogueInv, Backed, Cites, UnavailableStated
<1> QED
  BY <1>1, CatalogueInvariant, PTL

-----------------------------------------------------------------------------
(* The verify, step by step.                                               *)

\* The fields of a verify.
LEMMA VerifyTyped ==
  ASSUME VerifyInv
  PROVE  /\ check \in Checking(check.held, check.items)
         /\ DOMAIN check.held \subseteq Figures /\ DOMAIN check.items \subseteq Figures
         /\ check.release \in Releases /\ check.todo \subseteq Data
         /\ check.loading \subseteq Subjects /\ check.still \subseteq Figures
         /\ check.verified \subseteq Figures /\ check.unverifiable \subseteq Figures
         /\ check.mismatched \subseteq Figures
  BY DEF VerifyInv, CheckTyped, Checking

\* While a verify waits, what it looks at of the observations is only what stood still.
LEMMA VerifyWaits ==
  ASSUME VerifyInv, NEW S, S \subseteq check.still, check' = [check EXCEPT !.still = S],
         \A k \in S : k \in DOMAIN obs' /\ obs'[k] = obs[k]
  PROVE  VerifyInv'
<1>1. /\ check' \in Checking(check.held, check.items)
      /\ check'.pc = check.pc /\ check'.release = check.release /\ check'.todo = check.todo
      /\ check'.held = check.held /\ check'.at = check.at /\ check'.kept = check.kept
      /\ check'.models = check.models /\ check'.loading = check.loading
      /\ check'.items = check.items /\ check'.verified = check.verified
      /\ check'.unverifiable = check.unverifiable /\ check'.mismatched = check.mismatched
      /\ check'.still = S
  BY VerifyTyped DEF Checking
<1>2. CheckTyped'
  BY <1>1 DEF VerifyInv, CheckTyped
<1>3. \A k \in S : /\ RegistryOf(k)' = RegistryOf(k) /\ (Ours(k)' <=> Ours(k))
                   /\ k \in Standing' <=> k \in Standing
  <2> SUFFICES ASSUME NEW k \in S
               PROVE  /\ RegistryOf(k)' = RegistryOf(k) /\ (Ours(k)' <=> Ours(k))
                      /\ k \in Standing' <=> k \in Standing
    OBVIOUS
  <2>1. k \in Standing /\ k \in DOMAIN obs' /\ obs'[k] = obs[k]
    BY DEF VerifyInv, Accounted
  <2> QED
    BY <1>1, <2>1 DEF RegistryOf, Ours, Standing
<1>4. Accounted'
  <2>1. Accounted
    BY DEF VerifyInv
  <2>2. ASSUME NEW k \in S
        PROVE  /\ k \in Standing' /\ k \in DOMAIN check'.held
               /\ check'.held[k] = RegistryOf(k)'
               /\ k \notin check'.mismatched
               /\ k \in check'.unverifiable =>
                    \/ ~Ours(k)'
                    \/ /\ k[3] # Plain
                       /\ Specification[obs'[k].release] # Specification[check'.release]
               /\ check'.pc \in {"cite", "load", "compare", "done"} =>
                    \/ k[1] \in check'.todo
                    \/ k[1] \in check'.at /\ k[2] \in check'.loading
                    \/ k \in DOMAIN check'.items
                    \/ k \in check'.verified \cup check'.unverifiable
    <3>1. k \in check.still /\ obs'[k] = obs[k]
      OBVIOUS
    <3> QED
      BY <1>1, <1>3, <2>1, <3>1 DEF Accounted
  <2>3. /\ check'.pc \in {"cite", "done"} => check'.loading = {} /\ DOMAIN check'.items = {}
        /\ check'.pc = "done" => check'.todo = {}
        /\ check'.pc = "idle" => check'.still = {}
    BY <1>1, <2>1 DEF Accounted
  <2> QED
    BY <1>1, <2>2, <2>3 DEF Accounted
<1>5. ASSUME check.pc \in {"load", "compare"}
      PROVE  ModelsKept' /\ AtHand' /\ InTurn'
  <2>1. ModelsKept /\ AtHand /\ InTurn
    BY <1>5 DEF VerifyInv
  <2>2. ModelsKept' /\ InTurn'
    BY <1>1, <2>1 DEF ModelsKept, InTurn
  <2>3. AtHand'
    <3>1. \E n \in Data : check'.at = {n}
      BY <1>1, <2>1 DEF AtHand
    <3>2. /\ \A k \in check'.kept : k[3] # Plain
          /\ \A k \in check'.kept \cap S : obs'[k].model \in check'.models /\ Ours(k)'
          /\ \A l \in check'.kept, k \in S :
               k[1] \in check'.at /\ k[2] = l[2] /\ k[3] # Plain => k \in check'.kept
          /\ \A k \in S :
               k[1] \in check'.at /\ k[3] # Plain /\ Ours(k)'
                 => k \in check'.kept \cup check'.unverifiable
      BY <1>1, <1>3, <2>1 DEF AtHand
    <3>3. ASSUME NEW l \in DOMAIN check'.items
          PROVE  /\ l[1] \in check'.at /\ l[2] \notin check'.loading
                 /\ l[3] # Plain => l \in check'.kept
                 /\ l \in S => check'.items[l] = obs'[l].model /\ Ours(l)'
                 /\ \A k \in S :
                      k[1] \in check'.at /\ k[2] = l[2] /\ (k[3] = Plain <=> l[3] = Plain)
                         => k \in DOMAIN check'.items
      BY <1>1, <1>3, <2>1, <3>3 DEF AtHand
    <3> QED
      BY <1>1, <3>1, <3>2, <3>3 DEF AtHand
  <2> QED
    BY <2>2, <2>3
<1> QED
  BY <1>1, <1>2, <1>4, <1>5 DEF VerifyInv

\* A verify begins: every current observation is still to come.
LEMMA StartStep ==
  ASSUME CatalogueInv, StartVerify
  PROVE  VerifyInv'
<1>1. PICK r \in Releases : Install(r) /\ check' = [Unbegun EXCEPT
        !.pc = "cite", !.release = r, !.todo = {k[1] : k \in Standing},
        !.held = [k \in Standing |-> RegistryOf(k)], !.still = Standing]
  BY DEF StartVerify
<1>2. obs' = obs
  BY DEF StartVerify
<1>3. Standing \subseteq Figures /\ \A k \in Standing : k[1] \in Data
  BY DEF CatalogueInv, TypeOK, Standing, Figures
<1> DEFINE todo == {k[1] : k \in Standing}
           held == [k \in Standing |-> RegistryOf(k)]
<1>4. todo \subseteq Data /\ \A k \in Standing : k[1] \in todo
  BY <1>3
<1>5. DOMAIN held = Standing /\ \A k \in Standing : held[k] = RegistryOf(k)
  OBVIOUS
<1> HIDE DEF todo, held
<1>6. /\ check' \in Checking(held, Nothing)
      /\ check'.pc = "cite" /\ check'.release = r /\ check'.todo = todo /\ check'.held = held
      /\ check'.at = {} /\ check'.kept = {} /\ check'.models = {} /\ check'.loading = {}
      /\ check'.items = Nothing /\ check'.verified = {} /\ check'.unverifiable = {}
      /\ check'.mismatched = {} /\ check'.still = Standing
  BY <1>1, <1>3, <1>4 DEF Unbegun, Checking, todo, held
<1>7. CheckTyped'
  BY <1>3, <1>5, <1>6, NothingThere DEF CheckTyped
<1>8. Standing' = Standing /\ \A k : RegistryOf(k)' = RegistryOf(k)
  BY <1>2 DEF Standing, RegistryOf
<1>9. Accounted'
  BY <1>4, <1>5, <1>6, <1>8, NothingThere DEF Accounted
<1> QED
  BY <1>6, <1>7, <1>9 DEF VerifyInv

\* A verify ends, or has not begun.
LEMMA UnbegunTyped ==
  /\ Unbegun \in Checking(Nothing, Nothing)
  /\ [Unbegun EXCEPT !.pc = "over"] \in Checking(Nothing, Nothing)
  /\ Unbegun.held = Nothing /\ Unbegun.items = Nothing /\ Unbegun.still = {}
  BY CatalogBounds DEF Unbegun, Checking, Releases

\* The report is printed, and nothing is looked at any longer.
LEMMA EndStep ==
  ASSUME EndVerify
  PROVE  VerifyInv'
<1>1. /\ check' \in Checking(Nothing, Nothing) /\ check'.pc = "over" /\ check'.still = {}
      /\ check'.held = Nothing /\ check'.items = Nothing
  BY UnbegunTyped DEF EndVerify, Unbegun
<1>2. CheckTyped'
  BY <1>1, NothingThere DEF CheckTyped
<1>3. Accounted'
  BY <1>1 DEF Accounted
<1> QED
  BY <1>1, <1>2, <1>3 DEF VerifyInv

\* A current ratio cites a whole model, and stands with its subject's other ratios.
LEMMA RatioStanding ==
  ASSUME CatalogueInv, NEW k \in Standing, k[3] # Plain
  PROVE  /\ k \in Figures /\ k = <<k[1], k[2], k[3]>> /\ k[2] \in Subjects
         /\ k[3] \in Drafted[k[2]] /\ k[3] \in Targets
         /\ obs[k].model \in rows /\ obs[k].model[1] = k[1]
         /\ obs[k].model[2] = <<SourceOf[k[2]], k[3]>>
         /\ obs[k].model[3] = Specification[obs[k].release]
         /\ files[obs[k].model] = "whole"
         /\ \A t \in Drafted[k[2]] :
              /\ <<k[1], k[2], t>> \in Standing /\ t # Plain
              /\ obs[<<k[1], k[2], t>>].release = obs[k].release
<1>1. k \in DOMAIN obs /\ obs[k].current /\ k \in Figures
  BY DEF Standing, CatalogueInv, TypeOK
<1>2. k = <<k[1], k[2], k[3]>> /\ k[2] \in Subjects
  BY <1>1 DEF Figures
<1>3. /\ obs[k].model \in rows /\ obs[k].model[1] = k[1]
      /\ obs[k].model[2] = <<SourceOf[k[2]], k[3]>>
      /\ obs[k].model[3] = Specification[obs[k].release]
  BY <1>1 DEF CatalogueInv, Backed, Cites
<1>4. files[obs[k].model] = "whole"
  BY <1>3 DEF CatalogueInv, CatalogueWhole
<1>5. Together(obs, k[2])
  BY <1>2 DEF CatalogueInv
<1>6. /\ k[3] \in Drafted[k[2]]
      /\ \A t \in Drafted[k[2]] :
           /\ <<k[1], k[2], t>> \in DOMAIN obs
           /\ obs[<<k[1], k[2], t>>].current
           /\ obs[<<k[1], k[2], t>>].release = obs[k].release
  BY <1>1, <1>5 DEF Together
<1>7. Drafted[k[2]] \subseteq Targets
  BY <1>2, CatalogData
<1> QED
  BY <1>1, <1>2, <1>3, <1>4, <1>6, <1>7, CatalogData DEF Standing

\* The current ratios of a subject and snapshot are of one release.
LEMMA OneRelease ==
  ASSUME CatalogueInv, NEW k \in Standing, NEW l \in Standing, k[3] # Plain, l[3] # Plain,
         k[1] = l[1], k[2] = l[2]
  PROVE  obs[k].release = obs[l].release
<1>1. k = <<l[1], l[2], k[3]>> /\ k[3] \in Drafted[l[2]]
  BY RatioStanding
<1> QED
  BY <1>1, RatioStanding

\* The models of the next snapshot are cited: none is broken, none is cited twice.
LEMMA CiteStep ==
  ASSUME CatalogueInv, VerifyInv, CiteModels
  PROVE  VerifyInv'
<1> DEFINE n == CHOOSE n \in check.todo : \A o \in check.todo : n <= o
           ours == Registry[check.release]
           some == \E k \in DOMAIN check.held :
                     k[1] = n /\ k[3] # Plain /\ check.held[k] = ours
           adjusted == IF some THEN {k \in Standing : k[1] = n /\ k[3] # Plain
                                                        /\ RegistryOf(k) = ours}
                       ELSE {}
           broken == {k \in adjusted : files[obs[k].model] # "whole"}
           stale == Stale(check.release, adjusted \ broken)
           cited == adjusted \ (broken \cup stale)
           two == Doubled(cited)
           loading == {k[2] : k \in {k \in DOMAIN check.held : k[1] = n}}
           kept == cited \ two
           models == {obs[k].model : k \in kept}
<1>1. /\ check.pc = "cite" /\ check.todo # {} /\ UNCHANGED <<obs, files, rows>>
      /\ check' = [check EXCEPT
           !.pc = "load", !.todo = @ \ {n}, !.at = {n}, !.loading = loading,
           !.kept = kept, !.models = models,
           !.mismatched = @ \cup broken,
           !.unverifiable = @ \cup stale \cup two]
  BY DEF CiteModels, Rest
<1>2. n \in check.todo /\ n \in Data
  BY <1>1, Smallest, VerifyTyped, CatalogData
<1>3. Accounted /\ check.loading = {} /\ DOMAIN check.items = {}
  BY <1>1 DEF VerifyInv, Accounted
<1> HIDE DEF n, some
<1>4. /\ adjusted \subseteq Standing
      /\ \A k \in adjusted : k[1] = n /\ k[3] # Plain /\ RegistryOf(k) = ours
      /\ \A k \in Standing : k[1] = n /\ k[3] # Plain /\ RegistryOf(k) = ours /\ some
                               => k \in adjusted
      /\ \A k \in adjusted : some
  OBVIOUS
<1> HIDE DEF adjusted
<1>5. broken = {}
  BY <1>4, RatioStanding
<1>6. /\ \A k \in stale : k \in adjusted /\ obs[k].model[3] # Specification[check.release]
      /\ \A k \in adjusted : k \in stale \/ obs[k].model[3] = Specification[check.release]
  BY <1>5 DEF Stale
<1>7. /\ \A k \in cited : k \in adjusted /\ obs[k].model[3] = Specification[check.release]
      /\ \A k \in adjusted : k \in stale \/ k \in cited
  BY <1>5, <1>6
<1> HIDE DEF broken, stale, cited
<1>8. ASSUME NEW k \in cited, NEW l \in cited, obs[l].model[2] = obs[k].model[2]
      PROVE  obs[l].model = obs[k].model
  <2>1. /\ obs[k].model \in rows /\ obs[k].model[1] = k[1] /\ k[1] = n
        /\ obs[l].model \in rows /\ obs[l].model[1] = l[1] /\ l[1] = n
    BY <1>4, <1>7, RatioStanding
  <2>2. Unique(obs[k].model) = Unique(obs[l].model)
    BY <1>7, <1>8, <2>1 DEF Unique
  <2> QED
    BY <2>1, <2>2 DEF CatalogueInv, CatalogueWhole
<1>9. two = {}
  BY <1>8 DEF Doubled
<1>10. kept = cited
  BY <1>9
<1> HIDE DEF two, kept
<1>11. /\ models \subseteq Models /\ kept \subseteq Figures /\ loading \subseteq Subjects
       /\ stale \subseteq Figures
       /\ \A m \in models : \E k \in kept : m = obs[k].model
       /\ \A k \in kept : obs[k].model \in models
  <2>1. \A k \in adjusted : k \in Figures /\ obs[k].model \in Models
    BY <1>4, RatioStanding DEF CatalogueInv, TypeOK
  <2>2. loading \subseteq Subjects
    BY VerifyTyped DEF Figures
  <2> QED
    BY <1>6, <1>7, <1>10, <2>1, <2>2
<1>12. \A k \in DOMAIN check.held : k[1] = n => k[2] \in loading
  OBVIOUS
<1> HIDE DEF models, loading
<1>13. /\ check' \in Checking(check.held, check.items)
       /\ check'.pc = "load" /\ check'.release = check.release /\ check'.todo = check.todo \ {n}
       /\ check'.held = check.held /\ check'.at = {n} /\ check'.kept = kept
       /\ check'.models = models /\ check'.loading = loading
       /\ check'.items = check.items /\ check'.verified = check.verified
       /\ check'.unverifiable = check.unverifiable \cup stale
       /\ check'.mismatched = check.mismatched
       /\ check'.still = check.still
  <2>1. /\ check \in Checking(check.held, check.items)
        /\ check.unverifiable \cup stale \subseteq Figures
    BY <1>11, VerifyTyped
  <2> QED
    BY <1>1, <1>2, <1>5, <1>9, <1>11, <2>1 DEF Checking
<1>14. CheckTyped'
  BY <1>13, VerifyTyped DEF CheckTyped
<1>15. /\ Standing' = Standing /\ \A k : RegistryOf(k)' = RegistryOf(k)
       /\ \A k : Ours(k)' <=> RegistryOf(k) = ours
  BY <1>1, <1>13 DEF Standing, RegistryOf, Ours
<1>16. Accounted'
  <2>1. ASSUME NEW k \in check.still
        PROVE  /\ k \in Standing' /\ k \in DOMAIN check'.held
               /\ check'.held[k] = RegistryOf(k)'
               /\ k \notin check'.mismatched
               /\ k \in check'.unverifiable =>
                    \/ ~Ours(k)'
                    \/ /\ k[3] # Plain
                       /\ Specification[obs'[k].release] # Specification[check'.release]
               /\ \/ k[1] \in check'.todo
                  \/ k[1] \in check'.at /\ k[2] \in check'.loading
                  \/ k \in DOMAIN check'.items
                  \/ k \in check'.verified \cup check'.unverifiable
    <3>1. /\ k \in Standing /\ k \in DOMAIN check.held /\ check.held[k] = RegistryOf(k)
          /\ k \notin check.mismatched
      BY <1>3 DEF Accounted
    <3>2. k \in check.unverifiable =>
            \/ RegistryOf(k) # ours
            \/ k[3] # Plain /\ Specification[obs[k].release] # Specification[check.release]
      BY <1>3 DEF Accounted, Ours
    <3>3. k[1] \in check.todo \/ k \in check.verified \cup check.unverifiable
      BY <1>1, <1>3 DEF Accounted
    <3>4. k \in stale =>
            k[3] # Plain /\ Specification[obs[k].release] # Specification[check.release]
      BY <1>4, <1>6, RatioStanding
    <3>5. \/ k[1] \in check'.todo
          \/ k[1] \in check'.at /\ k[2] \in check'.loading
          \/ k \in check'.verified \cup check'.unverifiable
      <4>1. CASE k[1] = n
        BY <1>12, <1>13, <3>1, <4>1
      <4>2. CASE k[1] # n
        <5>1. check'.todo = check.todo \ {n}
          BY <1>13
        <5>2. check'.verified \cup check'.unverifiable
                = check.verified \cup check.unverifiable \cup stale
          BY <1>13
        <5> QED
          BY <3>3, <4>2, <5>1, <5>2
      <4> QED
        BY <4>1, <4>2
    <3> QED
      BY <1>1, <1>13, <1>15, <3>1, <3>2, <3>4, <3>5
  <2> QED
    BY <1>13, <2>1 DEF Accounted
<1>17. ModelsKept'
  <2>1. ASSUME NEW m \in models, NEW s \in Subjects, m[2][1] = SourceOf[s],
               NEW t \in Drafted[s]
        PROVE  \E l \in models : l[2] = <<SourceOf[s], t>>
    <3>1. PICK k \in kept : m = obs[k].model
      BY <1>11
    <3>2. /\ k \in adjusted /\ k \in Standing /\ k[1] = n /\ k[3] # Plain
          /\ RegistryOf(k) = ours /\ some /\ m[3] = Specification[check.release]
      BY <1>4, <1>7, <1>10, <3>1
    <3>3. /\ k[2] \in Subjects /\ k[3] \in Drafted[k[2]]
          /\ m[2] = <<SourceOf[k[2]], k[3]>> /\ m[3] = Specification[obs[k].release]
      BY <3>1, <3>2, RatioStanding
    <3>4. SourceOf[k[2]] = SourceOf[s]
      BY <2>1, <3>3
    <3>5. t \in Drafted[k[2]]
      BY <3>3, <3>4, JudgesAlike
    <3> DEFINE j == <<k[1], k[2], t>>
    <3>6. j \in Standing /\ t # Plain /\ obs[j].release = obs[k].release
      BY <3>2, <3>5, RatioStanding
    <3>7. j[1] = n /\ j[2] = k[2] /\ j[3] = t
      BY <3>2
    <3> HIDE DEF j
    <3>8. j \in adjusted
      BY <1>4, <3>2, <3>6, <3>7 DEF RegistryOf
    <3>9. /\ obs[j].model[3] = Specification[obs[j].release]
          /\ obs[j].model[2] = <<SourceOf[j[2]], j[3]>>
      BY <3>6, <3>7, RatioStanding
    <3>10. j \in kept
      BY <1>6, <1>7, <1>10, <3>2, <3>3, <3>6, <3>8, <3>9
    <3> QED
      BY <1>11, <3>4, <3>7, <3>9, <3>10
  <2>2. ASSUME NEW m \in models, NEW l \in models, m[2] = l[2]
        PROVE  m = l
    <3>1. PICK k \in kept, j \in kept : m = obs[k].model /\ l = obs[j].model
      BY <1>11
    <3> QED
      BY <1>8, <1>10, <2>2, <3>1
  <2> QED
    BY <1>13, <2>1, <2>2 DEF ModelsKept
<1>18. AtHand'
  <2>1. \A k \in kept : k[3] # Plain /\ obs[k].model \in models /\ RegistryOf(k) = ours
    BY <1>4, <1>7, <1>10, <1>11
  <2>2. ASSUME NEW l \in kept, NEW k \in check.still, k[1] = n, k[2] = l[2], k[3] # Plain
        PROVE  k \in kept
    <3>1. /\ l \in Standing /\ l[1] = n /\ l[3] # Plain /\ some /\ RegistryOf(l) = ours
          /\ obs[l].model[3] = Specification[check.release]
      BY <1>4, <1>7, <1>10
    <3>2. k \in Standing
      BY <1>3 DEF Accounted
    <3>3. obs[k].release = obs[l].release
      BY <2>2, <3>1, <3>2, OneRelease
    <3>4. k \in adjusted
      BY <1>4, <2>2, <3>1, <3>2, <3>3 DEF RegistryOf
    <3>5. obs[k].model[3] = Specification[check.release]
      BY <2>2, <3>1, <3>2, <3>3, RatioStanding
    <3> QED
      BY <1>6, <1>7, <1>10, <3>4, <3>5
  <2>3. ASSUME NEW k \in check.still, k[1] = n, k[3] # Plain, RegistryOf(k) = ours
        PROVE  k \in kept \cup stale
    <3>1. k \in Standing /\ k \in DOMAIN check.held /\ check.held[k] = ours
      BY <1>3, <2>3 DEF Accounted
    <3>2. some
      BY <2>3, <3>1 DEF some
    <3> QED
      BY <1>4, <1>7, <1>10, <2>3, <3>1, <3>2
  <2> QED
    BY <1>1, <1>2, <1>3, <1>13, <1>15, <2>1, <2>2, <2>3 DEF AtHand
<1>19. InTurn'
  BY <1>3, <1>13 DEF InTurn
<1> QED
  BY <1>14, <1>16, <1>17, <1>18, <1>19 DEF VerifyInv

\* The next subject is the first.
LEMMA NextIsFirst ==
  ASSUME NEW S \in SUBSET Subjects, S # {}
  PROVE  NextSubject(S) \in S /\ \A t \in S : NextSubject(S) <= t
  BY Smallest, CatalogData DEF NextSubject

\* A subject's observations are loaded: each is at hand, or reported for its registry.
LEMMA LoadStep ==
  ASSUME CatalogueInv, VerifyInv, LoadSubject
  PROVE  VerifyInv'
<1> DEFINE s == NextSubject(check.loading)
           ours == Registry[check.release]
           found == {k \in Standing : k[1] \in check.at /\ k[2] = s}
           pending == {k \in found : RegistryOf(k) = ours /\ (k[3] = Plain \/ k \in check.kept)}
           others == {k \in found : RegistryOf(k) # ours}
           fresh == [k \in pending |-> obs[k].model]
           items == Over(fresh, check.items)
           more == \E t \in check.loading \ {s} : SourceOf[t] = SourceOf[s]
           where == IF more THEN "load" ELSE "compare"
<1>1. /\ check.pc = "load" /\ check.loading # {} /\ UNCHANGED <<obs, files, rows>>
      /\ check' = [check EXCEPT
           !.loading = @ \ {s}, !.items = items, !.unverifiable = @ \cup others, !.pc = where]
  BY DEF LoadSubject, Rest
<1>2. /\ s \in check.loading /\ s \in Subjects /\ \A t \in check.loading : s <= t
      /\ check.loading \subseteq Subjects
  BY <1>1, NextIsFirst, VerifyTyped
<1>3. Accounted /\ ModelsKept /\ AtHand /\ InTurn
  BY <1>1 DEF VerifyInv
<1> HIDE DEF s
<1>4. /\ \A k \in pending : /\ k \in Standing /\ k[1] \in check.at /\ k[2] = s
                            /\ RegistryOf(k) = ours /\ (k[3] = Plain \/ k \in check.kept)
      /\ \A k \in Standing :
           k[1] \in check.at /\ k[2] = s /\ RegistryOf(k) = ours
             /\ (k[3] = Plain \/ k \in check.kept)
             => k \in pending
      /\ \A k \in others : k \in Standing /\ RegistryOf(k) # ours
      /\ \A k \in Standing : k[1] \in check.at /\ k[2] = s /\ RegistryOf(k) # ours
                               => k \in others
  OBVIOUS
<1>5. Standing \subseteq Figures
  BY DEF Standing, CatalogueInv, TypeOK
<1>6. /\ DOMAIN items = pending \cup DOMAIN check.items
      /\ \A k \in pending : items[k] = obs[k].model
      /\ \A k \in DOMAIN check.items \ pending : items[k] = check.items[k]
  <2>1. DOMAIN fresh = pending /\ \A k \in pending : fresh[k] = obs[k].model
    OBVIOUS
  <2> HIDE DEF fresh
  <2> QED
    BY <2>1 DEF Over
<1>7. where \in {"load", "compare"} /\ (where = "load" => more)
  OBVIOUS
<1> HIDE DEF found, pending, others, fresh, items, where
<1>8. /\ check' \in Checking(check.held, items)
      /\ check'.pc = where /\ check'.release = check.release /\ check'.todo = check.todo
      /\ check'.held = check.held /\ check'.at = check.at /\ check'.kept = check.kept
      /\ check'.models = check.models /\ check'.loading = check.loading \ {s}
      /\ check'.items = items /\ check'.verified = check.verified
      /\ check'.unverifiable = check.unverifiable \cup others
      /\ check'.mismatched = check.mismatched
      /\ check'.still = check.still
  <2>1. /\ check \in Checking(check.held, check.items)
        /\ check.unverifiable \cup others \subseteq Figures
    BY <1>4, <1>5, VerifyTyped
  <2> QED
    BY <1>1, <1>7, <2>1 DEF Checking
<1>9. CheckTyped'
  BY <1>4, <1>5, <1>6, <1>8, VerifyTyped DEF CheckTyped
<1>10. /\ Standing' = Standing /\ \A k : RegistryOf(k)' = RegistryOf(k)
       /\ \A k : Ours(k)' <=> RegistryOf(k) = ours
       /\ \A k : Ours(k) <=> RegistryOf(k) = ours
  BY <1>1, <1>8 DEF Standing, RegistryOf, Ours
<1>11. Accounted'
  <2>1. ASSUME NEW k \in check.still
        PROVE  /\ k \in Standing' /\ k \in DOMAIN check'.held
               /\ check'.held[k] = RegistryOf(k)'
               /\ k \notin check'.mismatched
               /\ k \in check'.unverifiable =>
                    \/ ~Ours(k)'
                    \/ /\ k[3] # Plain
                       /\ Specification[obs'[k].release] # Specification[check'.release]
               /\ \/ k[1] \in check'.todo
                  \/ k[1] \in check'.at /\ k[2] \in check'.loading
                  \/ k \in DOMAIN check'.items
                  \/ k \in check'.verified \cup check'.unverifiable
    <3>1. /\ k \in Standing /\ k \in DOMAIN check.held /\ check.held[k] = RegistryOf(k)
          /\ k \notin check.mismatched
          /\ k \in check.unverifiable =>
               \/ RegistryOf(k) # ours
               \/ k[3] # Plain /\ Specification[obs[k].release] # Specification[check.release]
      BY <1>3, <1>10 DEF Accounted
    <3>2. \/ k[1] \in check.todo
          \/ k[1] \in check.at /\ k[2] \in check.loading
          \/ k \in DOMAIN check.items
          \/ k \in check.verified \cup check.unverifiable
      BY <1>1, <1>3 DEF Accounted
    <3>3. ASSUME k[1] \in check.at, k[2] = s
          PROVE  k \in DOMAIN items \/ k \in check'.unverifiable
      <4>1. CASE RegistryOf(k) # ours
        BY <1>4, <1>8, <3>1, <3>3, <4>1
      <4>2. CASE RegistryOf(k) = ours /\ (k[3] = Plain \/ k \in check.kept)
        BY <1>4, <1>6, <3>1, <3>3, <4>2
      <4>3. CASE RegistryOf(k) = ours /\ k[3] # Plain /\ k \notin check.kept
        <5>1. k \in check.unverifiable
          BY <1>3, <1>10, <3>3, <4>3 DEF AtHand
        <5> QED
          BY <1>8, <5>1
      <4> QED
        BY <4>1, <4>2, <4>3
    <3>4. \/ k[1] \in check'.todo
          \/ k[1] \in check'.at /\ k[2] \in check'.loading
          \/ k \in DOMAIN check'.items
          \/ k \in check'.verified \cup check'.unverifiable
      BY <1>6, <1>8, <3>2, <3>3
    <3>5. k \in check'.unverifiable =>
            \/ ~Ours(k)'
            \/ /\ k[3] # Plain
               /\ Specification[obs'[k].release] # Specification[check'.release]
      BY <1>1, <1>4, <1>8, <1>10, <3>1
    <3> QED
      BY <1>8, <1>10, <3>1, <3>4, <3>5
  <2> QED
    BY <1>7, <1>8, <2>1 DEF Accounted
<1>12. ModelsKept'
  BY <1>3, <1>8 DEF ModelsKept
<1>13. AtHand'
  <2>1. /\ \E n \in Data : check'.at = {n}
        /\ \A k \in check'.kept : k[3] # Plain
        /\ \A k \in check'.kept \cap check'.still : obs'[k].model \in check'.models /\ Ours(k)'
        /\ \A l \in check'.kept, k \in check'.still :
             k[1] \in check'.at /\ k[2] = l[2] /\ k[3] # Plain => k \in check'.kept
        /\ \A k \in check'.still :
             k[1] \in check'.at /\ k[3] # Plain /\ Ours(k)'
               => k \in check'.kept \cup check'.unverifiable
    BY <1>1, <1>3, <1>8, <1>10 DEF AtHand
  <2>2. PICK n \in Data : check.at = {n}
    BY <1>3 DEF AtHand
  <2>3. ASSUME NEW l \in DOMAIN items
        PROVE  /\ l[1] \in check.at /\ l[2] \notin check.loading \ {s}
               /\ l[3] # Plain => l \in check.kept
               /\ l \in check.still => items[l] = obs[l].model /\ Ours(l)
               /\ \A k \in check.still :
                    k[1] \in check.at /\ k[2] = l[2] /\ (k[3] = Plain <=> l[3] = Plain)
                       => k \in DOMAIN items
    <3>1. CASE l \in pending
      <4>1. /\ l \in Standing /\ l[1] \in check.at /\ l[2] = s
            /\ RegistryOf(l) = ours /\ (l[3] = Plain \/ l \in check.kept)
        BY <1>4, <3>1
      <4>2. items[l] = obs[l].model /\ Ours(l)
        BY <1>6, <1>10, <3>1, <4>1
      <4>3. ASSUME NEW k \in check.still, k[1] \in check.at, k[2] = l[2],
                   k[3] = Plain <=> l[3] = Plain
            PROVE  k \in DOMAIN items
        <5>1. k \in Standing
          BY <1>3 DEF Accounted
        <5>2. CASE l[3] = Plain
          <6>1. k = <<n, s, Plain>> /\ l = <<n, s, Plain>>
            <7>1. k = <<k[1], k[2], k[3]>> /\ l = <<l[1], l[2], l[3]>>
              BY <1>5, <4>1, <5>1 DEF Figures
            <7> QED
              BY <2>2, <4>1, <4>3, <5>2, <7>1
          <6> QED
            BY <1>6, <3>1, <6>1
        <5>3. CASE l[3] # Plain
          <6>1. k \in check.kept
            BY <1>3, <4>1, <4>3, <5>3 DEF AtHand
          <6>2. RegistryOf(k) = ours
            BY <1>3, <1>10, <6>1 DEF AtHand
          <6> QED
            BY <1>4, <1>6, <4>1, <4>3, <5>1, <6>1, <6>2
        <5> QED
          BY <5>2, <5>3
      <4> QED
        BY <4>1, <4>2, <4>3
    <3>2. CASE l \in DOMAIN check.items \ pending
      <4>1. /\ l[1] \in check.at /\ l[2] \notin check.loading
            /\ l[3] # Plain => l \in check.kept
            /\ l \in check.still => check.items[l] = obs[l].model /\ Ours(l)
            /\ \A k \in check.still :
                 k[1] \in check.at /\ k[2] = l[2] /\ (k[3] = Plain <=> l[3] = Plain)
                    => k \in DOMAIN check.items
        BY <1>3, <3>2 DEF AtHand
      <4>2. items[l] = check.items[l]
        BY <1>6, <3>2
      <4> QED
        BY <1>6, <4>1, <4>2
    <3> QED
      BY <1>6, <2>3, <3>1, <3>2
  <2>4. ASSUME NEW l \in DOMAIN check'.items
        PROVE  /\ l[1] \in check'.at /\ l[2] \notin check'.loading
               /\ l[3] # Plain => l \in check'.kept
               /\ l \in check'.still => check'.items[l] = obs'[l].model /\ Ours(l)'
               /\ \A k \in check'.still :
                    k[1] \in check'.at /\ k[2] = l[2] /\ (k[3] = Plain <=> l[3] = Plain)
                       => k \in DOMAIN check'.items
    BY <1>1, <1>8, <1>10, <2>3, <2>4
  <2> QED
    BY <2>1, <2>4 DEF AtHand
<1>14. InTurn'
  <2>1. \A k \in pending : k[2] = s
    BY <1>4
  <2>2. ASSUME NEW k \in DOMAIN check.items
        PROVE  SourceOf[k[2]] = SourceOf[s] /\ k[2] < s
    <3>1. PICK t \in check.loading : SourceOf[t] = SourceOf[k[2]]
      BY <1>1, <1>3 DEF InTurn
    <3>2. k[2] < s /\ s <= t
      BY <1>2, <1>3 DEF InTurn
    <3>3. k[2] \in Subjects /\ t \in Subjects
      BY <1>2, VerifyTyped DEF Figures
    <3>4. k[2] \in Nat /\ t \in Nat /\ s \in Nat
      BY <1>2, <3>3, CatalogData
    <3>5. CASE s = t
      BY <3>1, <3>2, <3>5
    <3>6. CASE s # t
      <4>1. s < t
        BY <3>2, <3>4, <3>6
      <4> QED
        BY <1>2, <3>1, <3>2, <3>3, <4>1, OneSourceAfterAnother
    <3> QED
      BY <3>5, <3>6
  <2>3. \A k \in DOMAIN items : SourceOf[k[2]] = SourceOf[s] /\ (k[2] = s \/ k[2] < s)
    BY <1>6, <2>1, <2>2
  <2>4. ASSUME NEW k \in DOMAIN items, NEW t \in check.loading \ {s}
        PROVE  k[2] < t
    <3>1. s <= t /\ s # t /\ s \in Nat /\ t \in Nat
      BY <1>2, CatalogData
    <3>2. s < t
      BY <3>1
    <3>3. k[2] \in Subjects
      BY <1>4, <1>5, <1>6, VerifyTyped DEF Figures
    <3>4. k[2] \in Nat
      BY <3>3, CatalogData
    <3> QED
      BY <2>3, <3>1, <3>2, <3>4
  <2>5. where = "load" => \A k \in DOMAIN items :
          \E t \in check.loading \ {s} : SourceOf[t] = SourceOf[k[2]]
    BY <1>7, <2>3
  <2> QED
    BY <1>8, <2>3, <2>4, <2>5 DEF InTurn
<1> QED
  BY <1>9, <1>11, <1>12, <1>13, <1>14 DEF VerifyInv

\* A source's items are compared: those that stood still are equal, and none of them was absent.
LEMMA CompareStep ==
  ASSUME CatalogueInv, VerifyInv, CompareSource
  PROVE  VerifyInv'
<1> DEFINE ours == Registry[check.release]
           items == DOMAIN check.items
           subjects == {k[2] : k \in items}
           sources == {SourceOf[s] : s \in subjects}
           heldHere == {k \in DOMAIN check.held :
                          /\ k[1] \in check.at /\ SourceOf[k[2]] \in sources
                          /\ check.held[k] = ours}
           models == {m \in check.models : m[2][1] \in sources}
           adjusted == models # {} /\ \E k \in heldHere : k[3] # Plain
           plain == \E k \in heldHere : k[3] = Plain
           lacking == adjusted /\ \E s \in subjects : \E t \in Drafted[s] :
                        \A m \in models : m[2] # <<SourceOf[s], t>>
           kinds == (IF adjusted THEN Targets ELSE {}) \cup (IF plain THEN {Plain} ELSE {})
           drafts(s) == Drafts(s, kinds, models)
           equal == {k \in items : /\ k[3] \in DOMAIN drafts(k[2])
                                   /\ drafts(k[2])[k[3]] = check.items[k]}
           absent == {k \in Figures :
                        /\ k[1] \in check.at /\ k[2] \in subjects /\ k \notin items
                        /\ k[3] \in DOMAIN drafts(k[2])
                        /\ \E l \in items : l[2] = k[2] /\ (l[3] = Plain <=> k[3] = Plain)}
           where == IF check.loading # {} THEN "load"
                    ELSE IF check.todo # {} THEN "cite" ELSE "done"
<1>1. /\ check.pc = "compare" /\ UNCHANGED <<obs, files, rows>>
      /\ check' = [check EXCEPT
          !.items = Nothing,
          !.unverifiable = IF lacking THEN @ \cup items ELSE @,
          !.verified = IF lacking THEN @ ELSE @ \cup equal,
          !.mismatched = IF lacking THEN @ ELSE @ \cup (items \ equal) \cup absent,
          !.pc = where]
  BY DEF CompareSource, Rest
<1>2. Accounted /\ ModelsKept /\ AtHand /\ InTurn
  BY <1>1 DEF VerifyInv
<1>3. PICK n \in Data : check.at = {n}
  BY <1>2 DEF AtHand
<1>4. items \subseteq Figures /\ \A k \in items : k[2] \in Subjects
  BY VerifyTyped DEF Figures
<1>5. ~lacking
  <2> SUFFICES ASSUME models # {}, NEW s \in subjects, NEW t \in Drafted[s],
                      \A m \in models : m[2] # <<SourceOf[s], t>>
               PROVE  FALSE
    OBVIOUS
  <2>1. PICK m \in check.models : m[2][1] \in sources
    OBVIOUS
  <2>2. PICK k \in items : s = k[2]
    OBVIOUS
  <2>3. PICK l \in items : m[2][1] = SourceOf[l[2]]
    BY <2>1
  <2>4. m[2][1] = SourceOf[s] /\ s \in Subjects /\ SourceOf[s] \in sources
    BY <1>2, <1>4, <2>2, <2>3 DEF InTurn
  <2>5. PICK x \in check.models : x[2] = <<SourceOf[s], t>>
    BY <1>2, <2>1, <2>4 DEF ModelsKept
  <2>6. x \in models
    BY <2>4, <2>5
  <2> QED
    BY <2>5, <2>6
<1>6. ASSUME NEW k \in items, k \in check.still
      PROVE  k \in equal
  <2>1. /\ k \in Standing /\ k \in DOMAIN check.held /\ check.held[k] = RegistryOf(k)
        /\ k[1] \in check.at /\ check.items[k] = obs[k].model /\ RegistryOf(k) = ours
        /\ (k[3] # Plain => k \in check.kept)
    BY <1>2, <1>6 DEF Accounted, AtHand, Ours
  <2>2. k \in heldHere /\ SourceOf[k[2]] \in sources /\ k[2] \in Subjects
    BY <1>4, <2>1
  <2>3. CASE k[3] = Plain
    <3>1. plain
      BY <2>2, <2>3
    <3>2. Plain \in kinds
      BY <3>1
    <3> HIDE DEF kinds, models
    <3>3. Plain \in DOMAIN drafts(k[2]) /\ drafts(k[2])[Plain] = None
      BY <3>2 DEF Drafts
    <3>4. obs[k].model = None
      BY <2>1, <2>3 DEF CatalogueInv, Backed, Standing
    <3> QED
      BY <2>1, <2>3, <3>3, <3>4
  <2>4. CASE k[3] # Plain
    <3>1. /\ obs[k].model[2] = <<SourceOf[k[2]], k[3]>> /\ k[3] \in Drafted[k[2]]
          /\ k[3] \in Targets
      BY <2>1, <2>4, RatioStanding
    <3>2. obs[k].model \in check.models
      BY <1>2, <1>6, <2>1, <2>4 DEF AtHand
    <3>3. obs[k].model \in models /\ models \subseteq check.models
      BY <2>2, <3>1, <3>2
    <3>4. adjusted
      BY <2>2, <2>4, <3>3
    <3>5. k[3] \in kinds
      BY <3>1, <3>4
    <3> HIDE DEF kinds, models
    <3>6. k[3] \in DOMAIN drafts(k[2])
      BY <3>1, <3>5 DEF Drafts
    <3>7. drafts(k[2])[k[3]] = CHOOSE m \in models : m[2] = <<SourceOf[k[2]], k[3]>>
      BY <2>4, <3>6 DEF Drafts
    <3>8. \A m \in models : m[2] = <<SourceOf[k[2]], k[3]>> => m = obs[k].model
      BY <1>2, <3>1, <3>2, <3>3 DEF ModelsKept
    <3>9. drafts(k[2])[k[3]] = obs[k].model
      BY <3>1, <3>3, <3>7, <3>8
    <3> QED
      BY <2>1, <3>6, <3>9
  <2> QED
    BY <2>3, <2>4
<1>7. \A k \in check.still : k \notin absent
  <2> SUFFICES ASSUME NEW k \in check.still, k \in absent
               PROVE  FALSE
    OBVIOUS
  <2>1. k[1] \in check.at /\ k \notin items
    OBVIOUS
  <2>2. PICK l \in items : l[2] = k[2] /\ (l[3] = Plain <=> k[3] = Plain)
    OBVIOUS
  <2> HIDE DEF absent
  <2>3. k \in items
    BY <1>2, <2>1, <2>2 DEF AtHand
  <2> QED
    BY <2>1, <2>3
<1>8. equal \subseteq items /\ equal \subseteq Figures /\ absent \subseteq Figures
  BY <1>4
<1>9. /\ where \in {"load", "cite", "done"} /\ (where # "load" => check.loading = {})
      /\ (where = "done" => check.todo = {})
  OBVIOUS
<1> HIDE DEF equal, absent, where, lacking
<1>10. /\ check' \in Checking(check.held, Nothing)
       /\ check'.pc = where /\ check'.release = check.release /\ check'.todo = check.todo
       /\ check'.held = check.held /\ check'.at = check.at /\ check'.kept = check.kept
       /\ check'.models = check.models /\ check'.loading = check.loading
       /\ check'.items = Nothing /\ check'.verified = check.verified \cup equal
       /\ check'.unverifiable = check.unverifiable
       /\ check'.mismatched = check.mismatched \cup (items \ equal) \cup absent
       /\ check'.still = check.still
  <2>1. /\ check \in Checking(check.held, check.items)
        /\ check.verified \cup equal \subseteq Figures
        /\ check.mismatched \cup (items \ equal) \cup absent \subseteq Figures
    BY <1>4, <1>8, VerifyTyped
  <2> QED
    BY <1>1, <1>5, <1>9, <2>1 DEF Checking
<1>11. CheckTyped' /\ DOMAIN check'.items = {}
  BY <1>10, NothingThere, VerifyTyped DEF CheckTyped
<1>12. /\ Standing' = Standing /\ \A k : RegistryOf(k)' = RegistryOf(k)
       /\ \A k : Ours(k)' <=> Ours(k)
  BY <1>1, <1>10 DEF Standing, RegistryOf, Ours
<1>13. Accounted'
  <2>1. ASSUME NEW k \in check.still
        PROVE  /\ k \in Standing' /\ k \in DOMAIN check'.held
               /\ check'.held[k] = RegistryOf(k)'
               /\ k \notin check'.mismatched
               /\ k \in check'.unverifiable =>
                    \/ ~Ours(k)'
                    \/ /\ k[3] # Plain
                       /\ Specification[obs'[k].release] # Specification[check'.release]
               /\ \/ k[1] \in check'.todo
                  \/ k[1] \in check'.at /\ k[2] \in check'.loading
                  \/ k \in DOMAIN check'.items
                  \/ k \in check'.verified \cup check'.unverifiable
    <3>1. /\ k \in Standing /\ k \in DOMAIN check.held /\ check.held[k] = RegistryOf(k)
          /\ k \notin check.mismatched
          /\ k \in check.unverifiable =>
               \/ ~Ours(k)
               \/ k[3] # Plain /\ Specification[obs[k].release] # Specification[check.release]
      BY <1>2 DEF Accounted
    <3>2. \/ k[1] \in check.todo
          \/ k[1] \in check.at /\ k[2] \in check.loading
          \/ k \in items
          \/ k \in check.verified \cup check.unverifiable
      BY <1>1, <1>2 DEF Accounted
    <3>3. k \notin items \ equal /\ k \notin absent /\ (k \in items => k \in equal)
      BY <1>6, <1>7
    <3>4. k \notin check'.mismatched
      BY <1>10, <3>1, <3>3
    <3>5. \/ k[1] \in check'.todo
          \/ k[1] \in check'.at /\ k[2] \in check'.loading
          \/ k \in check'.verified \cup check'.unverifiable
      BY <1>10, <3>2, <3>3
    <3> QED
      BY <1>1, <1>10, <1>12, <3>1, <3>4, <3>5
  <2> QED
    BY <1>9, <1>10, <1>11, <2>1 DEF Accounted
<1>14. ModelsKept'
  BY <1>2, <1>10 DEF ModelsKept
<1>15. AtHand'
  BY <1>1, <1>2, <1>10, <1>11, <1>12 DEF AtHand
<1>16. InTurn'
  BY <1>11 DEF InTurn
<1> QED
  BY <1>11, <1>13, <1>14, <1>15, <1>16 DEF VerifyInv

\* Every step keeps what a verify has found right.
LEMMA VerifyNext ==
  ASSUME CatalogueInv, VerifyInv, [Next]_vars
  PROVE  VerifyInv'
<1>1. check \in Checking(check.held, check.items)
  BY VerifyTyped
<1>2. check = [check EXCEPT !.still = check.still]
  BY <1>1 DEF Checking
<1>3. \A k \in check.still : k \in DOMAIN obs
  BY DEF VerifyInv, Accounted, Standing
<1>4. ASSUME UNCHANGED <<check, obs>>
      PROVE  VerifyInv'
  BY <1>2, <1>3, <1>4, VerifyWaits
<1>5. ASSUME NEW new, obs' = new, Watch(new), DOMAIN obs \subseteq DOMAIN new
      PROVE  VerifyInv'
  <2> DEFINE S == {k \in check.still : new[k] = obs[k]}
  <2>1. check' = [check EXCEPT !.still = S]
    BY <1>1, <1>5 DEF Watch, Checking
  <2>2. S \subseteq check.still /\ \A k \in S : k \in DOMAIN obs' /\ obs'[k] = obs[k]
    BY <1>3, <1>5
  <2> HIDE DEF S
  <2> QED
    BY <2>1, <2>2, VerifyWaits
<1>6. ASSUME NEW p \in Commands, BeginFit(p) \/ BeginCompute(p) \/ Crash(p)
      PROVE  VerifyInv'
  BY <1>4, <1>6 DEF BeginFit, BeginCompute, Crash
<1>7. ASSUME NEW p \in Commands, FitStep(p)
      PROVE  VerifyInv'
  <2>1. CASE Commit(p)
    <3>1. obs' = Seen(p) /\ Watch(Seen(p))
      BY <2>1 DEF Commit
    <3>2. DOMAIN obs \subseteq DOMAIN Seen(p)
      BY DEF Seen, Over
    <3> QED
      BY <1>5, <3>1, <3>2
  <2>2. CASE ~Commit(p)
    BY <1>4, <1>7, <2>2
       DEF FitStep, FindSnapshot, InsertSnapshot, SnapshotConflict, ListMissing, OpenArtifact,
           WriteArtifact, KeepArtifact, RefuseArtifact, RecordModel, ReadModels, Publish,
           Unshared
  <2> QED
    BY <2>1, <2>2
<1>8. ASSUME NEW d \in Data, NEW r \in Releases, Ingest(d, r)
      PROVE  VerifyInv'
  <2> DEFINE new(s) == Publication(obs, d, s, {Plain}, Drafts(s, {Plain}, {}), r)
             written == [k \in UNION {DOMAIN new(s) : s \in Subjects} |-> new(k[2])[k]]
             o == Over(written, obs)
  <2>1. obs' = o /\ Watch(o)
    BY <1>8 DEF Ingest
  <2> HIDE DEF written
  <2>2. DOMAIN obs \subseteq DOMAIN o
    BY DEF Over
  <2> HIDE DEF o
  <2> QED
    BY <1>5, <2>1, <2>2
<1>9. CASE StartVerify
  BY <1>9, StartStep
<1>10. CASE VerifyStep
  BY <1>10, CiteStep, LoadStep, CompareStep, EndStep DEF VerifyStep
<1>11. CASE UNCHANGED vars
  BY <1>4, <1>11 DEF vars
<1> QED
  BY <1>6, <1>7, <1>8, <1>9, <1>10, <1>11 DEF Next

\* While a verify runs beside commands and ingests, what it has found is right, and what it has
\* not found is still to come.
THEOREM VerifyInvariant == Spec => []VerifyInv
<1>1. Init => VerifyInv
  <2> SUFFICES ASSUME Init
               PROVE  VerifyInv
    OBVIOUS
  <2>1. check = Unbegun /\ check.pc = "idle" /\ check.still = {}
    BY DEF Init, Unbegun
  <2>2. CheckTyped
    BY <2>1, UnbegunTyped, NothingThere DEF CheckTyped
  <2>3. Accounted
    BY <2>1 DEF Accounted
  <2> QED
    BY <2>1, <2>2, <2>3 DEF VerifyInv
<1>2. CatalogueInv /\ VerifyInv /\ [Next]_vars => VerifyInv'
  BY VerifyNext
<1> QED
  BY <1>1, <1>2, CatalogueInvariant, PTL DEF Spec

\* A verify that ends has verified or reported each observation that stayed as it was while it
\* ran, none as a mismatch, and none as unverifiable but for another registry or specification.
THEOREM VerifyTellsTheTruth == Spec => []VerifyHonest
<1>1. VerifyInv => VerifyHonest
  BY DEF VerifyInv, Accounted, VerifyHonest, Ours
<1> QED
  BY <1>1, VerifyInvariant, PTL
=============================================================================
