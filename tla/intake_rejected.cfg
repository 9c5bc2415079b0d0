CONSTANTS
    Documents = {d1}
    Titles = {t1}
    Types <- MCOneType
    Normalized <- MCOneNormalized
    PackTypes <- MCPackTypes
    Hashes = {h1}
    Decisions = {"approved", "rejected"}
    Workers = {w1}
    MaxRequests = 5
    MaxAborts = 0
SPECIFICATION Spec
INVARIANT RejectedDraftsAreNotInPack
CHECK_DEADLOCK FALSE
