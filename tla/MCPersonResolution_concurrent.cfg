\* Two commands at once, and a third: a pair to review and a record that links its two persons.
SPECIFICATION FairSpec
CONSTANTS
    AutoMatch = 95
    AutoReject = 20
    None = None
    NoWrite = NoWrite
    System = System
    t1 = t1
    t2 = t2
    court = court
    cook = cook
    fjc = fjc
    Person <- MCLinked
    Tx <- MCTwoTx
    Source <- MCOneSource
    SourceOf <- MCSourceOfOne
    Drafts <- MCDrafts
    Cases <- MCCases
    MaxTx = 3
INVARIANTS
    PointersDescend
    Audited
PROPERTIES
    SystemKeepsHumanDecisions
    CommandsEnd
CHECK_DEADLOCK FALSE
