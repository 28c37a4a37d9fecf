--------------------------- MODULE MCModelCatalog ---------------------------
(***************************************************************************)
(* A small instance of ModelCatalog: one target, which source 1 supports   *)
(* and source 2 does not (its ratio is suppressed and cites the model that *)
(* says why).  Source 1 has two judges, source 2 one.  Release 2 is new    *)
(* code and another registry under the old specification; release 3 has    *)
(* another specification and release 2's registry.                         *)
(***************************************************************************)
EXTENDS ModelCatalog, TLC

MCSourceOf == [s \in Subjects |-> IF s = 3 THEN 2 ELSE 1]
MCDrafted == [s \in Subjects |-> Targets]
MCUnavailable == [s \in Sources |-> IF s = 1 THEN {} ELSE Targets]
MCSpecification == <<1, 1, 2>>
MCRegistry == <<1, 2, 2>>
MCRate == [s \in Subjects |-> [n \in Data |-> IF s = 2 THEN 0 ELSE n]]
MCPlace == [k \in ModelKeys |-> k[1]]
MCScopes ==
  {[sources |-> Sources, subjects |-> Subjects],
   [sources |-> {1}, subjects |-> {2}]}

=============================================================================
