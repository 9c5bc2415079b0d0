CONSTANTS
    Documents = {d1, d2}
    Titles = {t1, t2}
    Types <- MCTypes
    Normalized <- MCNormalized
    PackTypes <- MCPackTypes
    Hashes = {h1}
    Decisions = {"approved", "rejected", "pending_review", "promoted"}
    Workers = {w1}
    MaxRequests = 6
    MaxAborts = 1
SPECIFICATION Spec
INVARIANTS DocumentAgreesWithDraft DuplicatesAreFlagged
PROPERTIES ImplementsGate
CHECK_DEADLOCK FALSE
