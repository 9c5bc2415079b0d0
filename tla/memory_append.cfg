CONSTANTS
    a = a
    b = b
    c = c
    s1 = s1
    s2 = s2
    Claims = {a, b}
    Status <- MCStatus
    Rivals <- MCRivals
    Scans = {s1}
    Content <- MCContent
    IdOrder <- MCIdOrder
    FoundOrder <- MCFoundOrder
    Decisions = {"approved"}
    Workers = {w1, w2}
    MaxRequests = 3
    MaxAborts = 0
SPECIFICATION Spec
PROPERTY LedgerIsAppendOnly
CHECK_DEADLOCK FALSE
