\* Two commands at once: a merge and another command that works on the same person.
SPECIFICATION Spec
CONSTANTS
    AutoMatch = 95
    AutoReject = 20
    None = None
    NoWrite = NoWrite
    System = System
    t1 = t1
    t2 = t2
    court = court
    cook = cook
    fjc = fjc
    Person <- MCAlike
    Tx <- MCTwoTx
    Source <- MCOneSource
    SourceOf <- MCSourceOfOne
    Drafts <- MCDrafts
    Cases <- MCCases
    MaxTx = 3
SYMMETRY Symmetry
INVARIANT
    MergedPersonsEmpty
CHECK_DEADLOCK FALSE
