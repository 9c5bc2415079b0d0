CONSTANTS
    Cases = {c1}
    Questions = {q1, q2}
    Roles = {r1}
    Sources = {s1}
    MarkedSources = {s1}
    KeywordCases = {}
    Texts = {t1}
    Workers = {w1, w2}
    Operations = {"analyze", "answer", "brief", "jira_draft", "jira_readiness"}
    MaxRequests = 5
    MaxAborts = 1
SPECIFICATION Spec
INVARIANTS TypeOK ReadyIsEarned ReadinessIsCurrent SavedDocumentsHaveFiles DecisionsAreAudited CleanDraftShowsNoPendingQuestion
PROPERTIES NeverUnanalysed CurrentSavesKeepDecisions
SYMMETRY Symmetry
VIEW View
CHECK_DEADLOCK FALSE
