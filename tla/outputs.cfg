CONSTANTS
    PathOrder <- MCPathOrder
    Repo <- MCRepo
    Pages <- MCPages
    Drafts <- MCDrafts
    Reviews <- MCReviews
    Text <- MCText
    Answers = {"plain"}
    Report = "report"
    Case <- MCCase
    CaseSources <- MCCaseSources
    Retrievals <- MCRetrievals
    Profiles <- MCProfiles
    Asks <- MCAsks
    Workers = {w1, w2}
    MaxRequests <- MCMaxRequests
    MaxEdits = 1
    MaxAborts = 1
SYMMETRY MCSymmetry
SPECIFICATION Spec
INVARIANTS TypeOK RecordsHaveFiles JudgeSeesWhatWasScored PassMeetsProfile ReviewKeepsChanges
PROPERTIES VerdictIsFinal
CHECK_DEADLOCK FALSE
