\* One pair of persons while records are attached to them.
SPECIFICATION Spec
CONSTANTS
    AutoMatch = 95
    AutoReject = 20
    None = None
    court = court
    other = other
    Record <- MCRecords
    Probability <- MCProbability
INVARIANTS
    OrderIrrelevant
PROPERTY
    NeverUnmatched
CHECK_DEADLOCK FALSE
