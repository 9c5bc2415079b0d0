CONSTANTS
    PathOrder <- MCPathOrder
    Text <- MCText
    Versions <- MCVersions
    Doc <- MCDoc
    DocOrder <- MCDocOrder
    Shelf = {"restart", "stuck"}
    Intakes <- MCIntakes
    Reviewed = {"runbook"}
    Decisions = {"approved"}
    Searches <- MCSearches
    Workers = {w1, w2}
    MaxRequests = 3
    MaxEdits = 1
    MaxAborts = 1
SPECIFICATION Spec
INVARIANTS TypeOK GuardrailsHold ServedIsReviewed DiffShowsEveryEdit GraphIsClosed RelatedCodeIsLinked SelectionIsBalanced
PROPERTIES HandlersEnd
CHECK_DEADLOCK FALSE
