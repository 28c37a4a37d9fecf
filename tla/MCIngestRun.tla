---------------------------- MODULE MCIngestRun ----------------------------
(***************************************************************************)
(* Small instances of IngestRun.  Content "a" of artifact 1 gives a charge *)
(* that parser 2 no longer draws from it; "a" and "b" agree on the case    *)
(* under parser 1 and differ on the charge.                                *)
(***************************************************************************)
EXTENDS IngestRun, TLC

Rows(k, v) ==
  CASE k[1] = 2                -> [person |-> IF k[2] = "a" THEN "x" ELSE "y"]
    [] k = <<1, "a">> /\ v = 1 -> [case |-> "x", charge |-> "x"]
    [] k = <<1, "a">> /\ v = 2 -> [case |-> "y"]
    [] k = <<1, "b">> /\ v = 1 -> [case |-> "x", charge |-> "y"]
    [] k = <<1, "b">> /\ v = 2 -> [case |-> "x", charge |-> "x"]

MCDerived == [k \in Keys |-> [v \in Versions |-> Rows(k, v)]]
MCFirstExport == [x \in Artifacts |-> "a"]

=============================================================================
