------------------------ MODULE MCPersonResolution ------------------------
(***************************************************************************)
(* Small instances of PersonResolution.  Records 1, 2 and 3 have cases in  *)
(* one court and no link between them, so a pair of them of one name and   *)
(* date of birth is queued for review and a pair with a date missing is    *)
(* rejected.  Record 4 is a party to a case that cites the case of 1 and   *)
(* to one that cites the case of 2: the pairs (1, 4) and (2, 4) match by   *)
(* rule.  All records carry one name, or record 2 is published under one   *)
(* name or the other and record 3 under the other alone.                   *)
(***************************************************************************)
EXTENDS PersonResolution, TLC

CONSTANTS t1, t2, court, cook, fjc

MCCase(id, cites) == [id |-> id, court |-> court, number |-> id, cites |-> cites]

MCAlike == {1, 2, 3}
MCLinked == {1, 2, 4}
MCAll == 1..4
MCOneTx == {t1}
MCTwoTx == {t1, t2}
MCSource == {cook, fjc}
MCOneSource == {cook}
MCSourceOfOne == [r \in Person |-> cook]
MCSourceOf == [r \in Person |-> IF r = 2 THEN fjc ELSE cook]
Draft(name, dob) == [name |-> name, dob |-> dob]
MCDrafts == [r \in Person |-> {Draft("a", "d")}]
MCRenamed == [r \in Person |->
    CASE r = 2 -> {Draft("a", "d"), Draft("b", "d")}
      [] r = 3 -> {Draft("b", None)}
      [] OTHER -> {Draft("a", "d")}]
MCCases == [r \in Person |->
    CASE r = 1 -> {MCCase(101, None)}
      [] r = 2 -> {MCCase(102, None)}
      [] r = 3 -> {MCCase(103, None)}
      [] OTHER -> {MCCase(104, 101), MCCase(105, 102)}]

Symmetry == Permutations(Tx)
=============================================================================
