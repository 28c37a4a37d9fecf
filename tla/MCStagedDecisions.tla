------------------------- MODULE MCStagedDecisions -------------------------
(***************************************************************************)
(* Small instance of StagedDecisions: two names, two dates of birth or     *)
(* none, and three cases of two courts, one of which cites another.        *)
(***************************************************************************)
EXTENDS StagedDecisions

CONSTANTS court, other

MCCase(id, number, cites, where) ==
    [id |-> id, court |-> where, number |-> number, cites |-> cites]
MCFirst == MCCase(1, "n1", None, court)
MCSecond == MCCase(2, "n2", None, court)
MCCiting == MCCase(3, "n3", "n1", other)

MCRecord(id, name, dob, case) ==
    [source_id |-> id, name |-> name, dob |-> dob, cases |-> {case}]
MCRecords == {
    MCRecord("a", "x", "d1", MCFirst),   MCRecord("b", "x", "d1", MCSecond),
    MCRecord("c", "x", None, MCSecond),  MCRecord("d", "x", "d2", MCCiting),
    MCRecord("e", "y", "d1", MCCiting),  MCRecord("f", "y", "d2", MCSecond),
    MCRecord("g", "y", None, MCFirst),   MCRecord("a", "y", "d1", MCSecond) }
MCProbability == {None, 10, 19, 20, 94, 95}
=============================================================================
