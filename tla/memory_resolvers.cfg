CONSTANTS
    a = a
    b = b
    c = c
    s1 = s1
    s2 = s2
    Claims = {a, b}
    Status <- MCStatus
    Rivals <- MCRivals
    Scans = {s1}
    Content <- MCContent
    IdOrder <- MCIdOrder
    FoundOrder <- MCFoundOrder
    Decisions = {}
    Workers = {w1, w2}
    MaxRequests = 5
    MaxAborts = 2
SPECIFICATION Spec
INVARIANTS RivalsApartUnlessHalfWay
SYMMETRY Symmetry
CHECK_DEADLOCK FALSE
