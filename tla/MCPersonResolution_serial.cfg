\* One command at a time: four records; the second is published under either of two names,
\* the third under the second of them and without a date of birth.
SPECIFICATION Spec
CONSTANTS
    AutoMatch = 95
    AutoReject = 20
    None = None
    NoWrite = NoWrite
    System = System
    t1 = t1
    t2 = t2
    court = court
    cook = cook
    fjc = fjc
    Person <- MCAll
    Tx <- MCOneTx
    Source <- MCSource
    SourceOf <- MCSourceOf
    Drafts <- MCRenamed
    Cases <- MCCases
    MaxTx = 6
INVARIANTS
    MergedPersonsEmpty
    MatchedIsOnePerson
    SharedNamesJudged
PROPERTIES
    HumanDecisionsFinal
    RefinesPartition
CHECK_DEADLOCK FALSE
