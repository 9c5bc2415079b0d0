CONSTANTS
    Cases = {c1}
    Questions = {q1, q2}
    Roles = {r1}
    Sources = {s1, s2}
    MarkedSources = {s1}
    KeywordCases = {}
    Texts = {t1}
    Workers = {w1}
    Operations = {"analyze", "read", "answer", "waive", "role_view", "brief", "jira_context", "jira_draft", "jira_readiness"}
    MaxRequests = 5
    MaxAborts = 1
SPECIFICATION Spec
 
PROPERTIES ImplementsGate
CHECK_DEADLOCK FALSE
