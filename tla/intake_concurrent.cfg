CONSTANTS
    Documents = {d1}
    Titles = {t1, t2}
    Types <- MCOneType
    Normalized <- MCOneNormalized
    PackTypes <- MCPackTypes
    Hashes = {h1}
    Decisions = {"approved", "rejected", "promoted"}
    Workers = {w1, w2}
    MaxRequests = 6
    MaxAborts = 1
SPECIFICATION Spec
INVARIANTS TypeOK RecordedFilesExist StatusIsRecorded PublicationWasApproved
SYMMETRY Symmetry
CHECK_DEADLOCK FALSE
