-------------------------- MODULE PersonPartition --------------------------
(***************************************************************************)
(* What entity resolution promises the rest of the system, with no row, no *)
(* transaction and no stage in sight: a partition of the known persons,    *)
(* each class under its earliest-created member, that only ever coarsens.  *)
(* This is what canonical_person_ids shows to ingest and to the metrics.   *)
(***************************************************************************)
EXTENDS Naturals

CONSTANTS Person, None

VARIABLE survivor       \* person -> the person it counts as, or None while unknown

Known(f) == {p \in Person : f[p] # None}

\* Each class is named by its earliest member.
Canonical(f) == \A p \in Known(f) : f[p] <= p /\ f[f[p]] = f[p]

\* Nobody is forgotten and no class is split.
Coarsens(f, g) ==
    /\ Known(f) \subseteq Known(g)
    /\ \A p, q \in Known(f) : f[p] = f[q] => g[p] = g[q]

Init == survivor = [p \in Person |-> None]

\* New persons become known and classes are joined, together or apart.
Resolve ==
    /\ survivor' \in [Person -> Person \cup {None}]
    /\ Canonical(survivor')
    /\ Coarsens(survivor, survivor')

Spec == Init /\ [][Resolve]_survivor
=============================================================================
