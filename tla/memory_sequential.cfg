CONSTANTS
    a = a
    b = b
    c = c
    s1 = s1
    s2 = s2
    Claims = {a, b, c}
    Status <- MCStatus
    Rivals <- MCRivals
    Scans = {s1, s2}
    Content <- MCContent
    IdOrder <- MCIdOrder
    FoundOrder <- MCFoundOrder
    Decisions = {"approved", "rejected", "quarantined"}
    Workers = {w1}
    MaxRequests = 5
    MaxAborts = 1
SPECIFICATION Spec
INVARIANTS TypeOK ConflictsAreListedOnce LedgerChains ResolutionIsBacked
PROPERTIES LedgerIsAppendOnly
CHECK_DEADLOCK FALSE
