----------------------- MODULE RequirementCaseProofs -----------------------
(***************************************************************************)
(* Proofs about RequirementCase, for any number of cases, questions,       *)
(* workers and requests.  The first half is about snapshots and stores;    *)
(* the second follows a handler through its steps: files, audit rows and   *)
(* decisions for any number of workers; artifacts and the gate that        *)
(* CaseGate specifies for a case used by one worker at a time.             *)
(***************************************************************************)
EXTENDS RequirementCase, TLAPS

\* The snapshot records that every operation of the service yields.
LEMMA MaybeEmpty == \A S : {} \in Maybe(S)
  BY DEF Maybe

LEMMA MaybeOne == \A S : \A x \in S : {x} \in Maybe(S)
  BY DEF Maybe

LEMMA ContentType == ASSUME NEW s \in Snapshot PROVE ContentOf(s) \in Content
  BY DEF Snapshot, Content, ContentOf

LEMMA ReadinessType ==
  ASSUME NEW s \in Snapshot, NEW d \in BOOLEAN
  PROVE  JiraReadiness(s, d) \in Readiness
  BY DEF Snapshot, Readiness, JiraReadiness, BlockingReasons, WithStatus

LEMMA ReadinessStatusType ==
  ASSUME NEW r PROVE ReadinessStatus(r) \in {"jira_ready_draft", "jira_draft_needs_answers"}
  BY DEF ReadinessStatus

LEMMA NoSnapshotType == NoSnapshot \in Snapshot /\ Created \in Snapshot
  BY MaybeEmpty DEF NoSnapshot, Created, Snapshot, Absent, QuestionState, CaseStatus

LEMMA AnalysedType ==
  ASSUME NEW s \in Snapshot, NEW c \in Cases, NEW evidence \in SUBSET Sources
  PROVE  Analysed(s, c, evidence) \in Snapshot
  BY DEF Analysed, Snapshot, HasImpact, Open, QuestionState, CaseStatus

LEMMA DecidedType ==
  ASSUME NEW s \in Snapshot, NEW q \in Questions, NEW t \in SUBSET Texts,
         NEW status \in {"answered", "waived"}
  PROVE  Decided(s, q, status, t) \in Snapshot
<1> DEFINE d == [s EXCEPT !.questions[q] = [status |-> status, text |-> t],
                          !.status = "questions_answered"]
<1>1. d \in Snapshot
  BY DEF Snapshot, QuestionState, CaseStatus
<1>2. {JiraReadiness(d, d.draft # {})} \in Maybe(Readiness)
  BY <1>1, ReadinessType, MaybeOne
<1>3. [d EXCEPT !.readiness = {JiraReadiness(d, d.draft # {})}] \in Snapshot
  <2> HIDE DEF d
  <2> QED BY <1>1, <1>2 DEF Snapshot
<1> QED BY <1>3 DEF Decided

LEMMA RoleViewType ==
  ASSUME NEW s \in Snapshot, NEW r \in Roles
  PROVE  WithRoleView(s, r) \in Snapshot
<1>1. {s.evidence} \in Maybe(SUBSET Sources)
  BY MaybeOne DEF Snapshot
<1> QED BY <1>1 DEF WithRoleView, Snapshot

LEMMA BriefType == ASSUME NEW s \in Snapshot PROVE WithBrief(s) \in Snapshot
<1>1. {ContentOf(s)} \in Maybe(Content)
  BY ContentType, MaybeOne
<1> QED BY <1>1 DEF WithBrief, Snapshot, CaseStatus

LEMMA DraftType == ASSUME NEW s \in Snapshot PROVE WithDraft(s) \in Snapshot
<1>1. DraftOf(s) \in Draft
  BY ContentType, ReadinessType DEF DraftOf, Draft, Readiness
<1>2. {DraftOf(s)} \in Maybe(Draft)
  BY <1>1, MaybeOne
<1>3. {JiraReadiness(s, TRUE)} \in Maybe(Readiness)
  BY ReadinessType, MaybeOne
<1>4. ReadinessStatus(JiraReadiness(s, TRUE)) \in CaseStatus
  BY ReadinessStatusType DEF CaseStatus
<1> QED BY <1>2, <1>3, <1>4 DEF WithDraft, Snapshot

LEMMA WithReadinessType == ASSUME NEW s \in Snapshot PROVE WithReadiness(s) \in Snapshot
<1> DEFINE r == JiraReadiness(s, s.draft # {})
<1>1. {r} \in Maybe(Readiness)
  BY ReadinessType, MaybeOne
<1>2. ReadinessStatus(r) \in CaseStatus
  BY ReadinessStatusType DEF CaseStatus
<1>3. [s EXCEPT !.readiness = {r}, !.status = ReadinessStatus(r)] \in Snapshot
  <2> HIDE DEF r
  <2> QED BY <1>1, <1>2 DEF Snapshot
<1> QED BY <1>3 DEF WithReadiness

-----------------------------------------------------------------------------
(* Type correctness *)

LEMMA RequestType ==
  ASSUME NEW c \in Cases, cases[c] \in Snapshot, NEW op \in ServiceOperations \cup {"create"},
         NEW q \in SUBSET Questions, NEW t \in SUBSET Texts, NEW r \in SUBSET Roles
  PROVE  Request(op, c, q, t, r) \in Busy
  BY MaybeEmpty DEF Request, Busy, Pcs

LEMMA InitType == Init => TypeOK
<1> SUFFICES ASSUME Init PROVE TypeOK
  OBVIOUS
<1>1. cases \in [Cases -> Snapshot]
  BY NoSnapshotType DEF Init
<1>2. /\ files \in [Cases -> [FileNames -> Maybe(Content)]]
      /\ trails \in [Cases -> Maybe(SUBSET Sources)]
      /\ packs \in [Cases -> Maybe(SUBSET Sources)]
      /\ previews \in [Cases -> [{"brief", "jira_draft"} ->
                        Maybe([prompt : Maybe(Content), evidence : SUBSET Sources])]]
  BY MaybeEmpty DEF Init
<1> QED BY <1>1, <1>2 DEF Init, TypeOK

\* A worker that is somewhere in a handler holds a request.
LEMMA BusyWorker ==
  ASSUME TypeOK, NEW w \in Workers, worker[w] # Idle
  PROVE  worker[w] \in Busy
  BY DEF TypeOK

LEMMA WorkerAtPc ==
  ASSUME TypeOK, NEW w \in Workers, worker[w].pc \in Pcs
  PROVE  worker[w] \in Busy
  BY DEF TypeOK, Idle, Pcs

LEMMA SaveType ==
  ASSUME TypeOK, NEW w \in Workers, worker[w] \in Busy, NEW s \in Snapshot, NEW pc \in Pcs,
         Save(w, s, pc)
  PROVE  /\ cases' \in [Cases -> Snapshot]
         /\ worker' \in [Workers -> {Idle} \cup Busy]
<1>1. [worker[w] EXCEPT !.snap = s, !.pc = pc] \in Busy
  BY DEF Busy
<1> QED BY <1>1 DEF Save, TypeOK, Busy

LEMMA MoveType ==
  ASSUME TypeOK, NEW w \in Workers, worker[w] \in Busy, NEW pc \in Pcs, MoveTo(w, pc)
  PROVE  worker' \in [Workers -> {Idle} \cup Busy]
<1>1. [worker[w] EXCEPT !.pc = pc] \in Busy
  BY DEF Busy
<1> QED BY <1>1 DEF MoveTo, TypeOK

LEMMA ReturnType ==
  ASSUME TypeOK, NEW w \in Workers, Return(w)
  PROVE  worker' \in [Workers -> {Idle} \cup Busy]
  BY DEF Return, TypeOK

LEMMA WriteFileType ==
  ASSUME TypeOK, NEW w \in Workers, worker[w] \in Busy, NEW f \in FileNames, NEW pc \in Pcs,
         WriteFile(w, f, pc)
  PROVE  TypeOK'
<1>1. {ContentOf(worker[w].snap)} \in Maybe(Content)
  BY ContentType, MaybeOne DEF Busy
<1>2. files' \in [Cases -> [FileNames -> Maybe(Content)]]
  BY <1>1 DEF WriteFile, TypeOK
<1>3. worker' \in [Workers -> {Idle} \cup Busy]
  BY MoveType DEF WriteFile
<1> QED BY <1>2, <1>3 DEF WriteFile, TypeOK, artifacts, bounds

LEMMA CreateType ==
  ASSUME TypeOK, NEW w \in Workers, NEW c \in Cases, CreateCase(w, c)
  PROVE  TypeOK'
<1> DEFINE r == Request("create", c, {}, {}, {})
<1>1. r \in Busy
  BY RequestType DEF TypeOK
<1>2. [r EXCEPT !.snap = Created, !.pc = "log"] \in Busy
  <2> HIDE DEF r
  <2> QED BY <1>1, NoSnapshotType DEF Busy, Pcs
<1>3. worker' = [worker EXCEPT ![w] = [r EXCEPT !.snap = Created, !.pc = "log"]]
  BY DEF CreateCase
<1>4. worker' \in [Workers -> {Idle} \cup Busy]
  <2> HIDE DEF r
  <2> QED BY <1>2, <1>3 DEF TypeOK
<1>5. cases' \in [Cases -> Snapshot]
  BY NoSnapshotType DEF CreateCase, TypeOK
<1>6. requests' \in Nat /\ UNCHANGED <<files, trails, packs, previews, audit, aborts>>
  BY DEF CreateCase, NewRequest, TypeOK, artifacts
<1> QED BY <1>4, <1>5, <1>6 DEF TypeOK

\* Whatever a client asks for is a request of the service.
LEMMA BeginArguments ==
  ASSUME NEW w, NEW c, Begin(w, c)
  PROVE  \E op \in ServiceOperations, q \in SUBSET Questions, t \in SUBSET Texts,
            r \in SUBSET Roles : BeginWith(w, op, c, q, t, r)
<1>1. Operations \subseteq ServiceOperations
  BY ConstantsAssumption
<1>2. CASE \E op \in Operations \ {"answer", "waive", "role_view"} : BeginWith(w, op, c, {}, {}, {})
  BY <1>1, <1>2
<1>3. CASE \E op \in Operations \cap {"answer", "waive"}, q \in Questions, t \in Texts :
              BeginWith(w, op, c, {q}, {t}, {})
  <2>1. PICK op \in Operations, q \in Questions, t \in Texts : BeginWith(w, op, c, {q}, {t}, {})
    BY <1>3
  <2>2. {q} \in SUBSET Questions /\ {t} \in SUBSET Texts
    OBVIOUS
  <2> QED BY <1>1, <2>1, <2>2
<1>4. CASE \E op \in Operations \cap {"answer", "waive"} : BeginWith(w, op, c, {}, {}, {})
  BY <1>1, <1>4
<1>5. CASE \E op \in Operations \cap {"role_view"}, r \in Roles : BeginWith(w, op, c, {}, {}, {r})
  <2>1. PICK op \in Operations, r \in Roles : BeginWith(w, op, c, {}, {}, {r})
    BY <1>5
  <2>2. {r} \in SUBSET Roles
    OBVIOUS
  <2> QED BY <1>1, <2>1, <2>2
<1> QED BY <1>2, <1>3, <1>4, <1>5 DEF Begin

LEMMA BeginType ==
  ASSUME TypeOK, NEW w \in Workers, NEW c \in Cases, Begin(w, c)
  PROVE  TypeOK'
<1>1. ASSUME NEW op \in ServiceOperations, NEW q \in SUBSET Questions, NEW t \in SUBSET Texts,
             NEW r \in SUBSET Roles, BeginWith(w, op, c, q, t, r)
      PROVE  TypeOK'
  <2> DEFINE request == Request(op, c, q, t, r)
             pc == IF op = "analyze" THEN "analysing"
                   ELSE IF NeedsAnalysis(cases[c]) THEN "check"
                   ELSE "loaded"
  <2>1. request \in Busy
    BY RequestType DEF TypeOK
  <2>2. pc \in Pcs
    BY DEF Pcs
  <2>3. [request EXCEPT !.pc = pc] \in Busy
    <3> HIDE DEF request, pc
    <3> QED BY <2>1, <2>2 DEF Busy
  <2>4. worker' = [worker EXCEPT ![w] = [request EXCEPT !.pc = pc]]
    BY <1>1 DEF BeginWith
  <2>5. worker' \in [Workers -> {Idle} \cup Busy]
    <3> HIDE DEF request, pc
    <3> QED BY <2>3, <2>4 DEF TypeOK
  <2>6. requests' \in Nat /\ UNCHANGED <<cases, files, trails, packs, previews, audit, aborts>>
    BY <1>1 DEF BeginWith, NewRequest, TypeOK, artifacts
  <2> QED BY <2>5, <2>6 DEF TypeOK
<1>2. \E op \in ServiceOperations, q \in SUBSET Questions, t \in SUBSET Texts,
         r \in SUBSET Roles : BeginWith(w, op, c, q, t, r)
  BY BeginArguments
<1> QED BY <1>1, <1>2

LEMMA StepType ==
  ASSUME TypeOK, NEW w \in Workers, Step(w)
  PROVE  TypeOK'
<1>1. worker[w] \in Busy
  <2>1. worker[w].pc \in Pcs
    BY DEF Step, LoadForAnalysis, SaveAnalysis, LogAnalysis, ReadForTrace, SaveTrail, Finish,
           AnswerQuestion, WaiveQuestion, GenerateRoleView, WriteBrief, WriteJiraDraft,
           PrepareJiraDraftContext, SaveBrief, SaveJiraDraft, CheckJiraReadiness, Log,
           ReadForPrompt, SaveContextPack, SavePromptPreview, Pcs
  <2> QED BY <2>1, WorkerAtPc
<1> DEFINE snap == worker[w].snap
<1>2. snap \in Snapshot /\ worker[w].case \in Cases
  BY <1>1 DEF Busy
<1>3. CASE LoadForAnalysis(w)
  <2>1. [worker[w] EXCEPT !.snap = cases[worker[w].case], !.pc = "analysing"] \in Busy
    BY <1>1 DEF TypeOK, Busy, Pcs
  <2> QED BY <1>3, <2>1 DEF LoadForAnalysis, TypeOK, artifacts, bounds
<1>4. CASE SaveAnalysis(w)
  <2>1. PICK evidence \in SUBSET Sources :
           Save(w, Analysed(snap, worker[w].case, evidence), "log_analysis")
    BY <1>4 DEF SaveAnalysis
  <2>2. Analysed(snap, worker[w].case, evidence) \in Snapshot
    BY <1>2, AnalysedType
  <2> QED BY <1>1, <1>4, <2>1, <2>2, SaveType DEF SaveAnalysis, Pcs, TypeOK, artifacts, bounds
<1>5. CASE LogAnalysis(w)
  <2>1. worker' \in [Workers -> {Idle} \cup Busy]
    BY <1>1, <1>5, MoveType DEF LogAnalysis, Pcs
  <2>2. audit' \subseteq AuditRecord
    BY <1>1, <1>5 DEF LogAnalysis, TypeOK, AuditRecord, UseCases, AuditStatus, Busy
  <2> QED BY <1>5, <2>1, <2>2 DEF LogAnalysis, TypeOK, artifacts, bounds
<1>6. CASE ReadForTrace(w)
  <2>1. cases[worker[w].case].evidence \in SUBSET Sources
    BY <1>2 DEF TypeOK, Snapshot
  <2>2. [worker[w] EXCEPT !.traced = cases[worker[w].case].evidence, !.pc = "save_trail"] \in Busy
    BY <1>1, <2>1 DEF Busy, Pcs
  <2> QED BY <1>6, <2>2 DEF ReadForTrace, TypeOK, artifacts, bounds
<1>7. CASE SaveTrail(w)
  <2>1. worker' \in [Workers -> {Idle} \cup Busy]
    BY <1>1, <1>7, MoveType, ReturnType DEF SaveTrail, Pcs
  <2>2. {worker[w].traced} \in Maybe(SUBSET Sources)
    BY <1>1, MaybeOne DEF Busy
  <2> QED BY <1>7, <2>1, <2>2 DEF SaveTrail, TypeOK, bounds
<1>8. CASE Finish(w)
  BY <1>8, ReturnType DEF Finish, TypeOK, artifacts, bounds
<1>9. CASE AnswerQuestion(w)
  <2>1. PICK q \in worker[w].question : Save(w, Decided(snap, q, "answered", worker[w].text), "log")
    BY <1>9 DEF AnswerQuestion
  <2>2. Decided(snap, q, "answered", worker[w].text) \in Snapshot
    BY <1>1, <1>2, DecidedType DEF Busy
  <2> QED BY <1>1, <1>9, <2>1, <2>2, SaveType DEF AnswerQuestion, Pcs, TypeOK, artifacts, bounds
<1>10. CASE WaiveQuestion(w)
  <2>1. PICK q \in worker[w].question : Save(w, Decided(snap, q, "waived", worker[w].text), "log")
    BY <1>10 DEF WaiveQuestion
  <2>2. Decided(snap, q, "waived", worker[w].text) \in Snapshot
    BY <1>1, <1>2, DecidedType DEF Busy
  <2> QED BY <1>1, <1>10, <2>1, <2>2, SaveType DEF WaiveQuestion, Pcs, TypeOK, artifacts, bounds
<1>11. CASE GenerateRoleView(w)
  <2>1. PICK r \in worker[w].role :
           cases' = [cases EXCEPT ![worker[w].case] = WithRoleView(snap, r)]
    BY <1>11 DEF GenerateRoleView
  <2>2. WithRoleView(snap, r) \in Snapshot
    BY <1>1, <1>2, RoleViewType DEF Busy
  <2> QED BY <1>2, <1>11, <2>1, <2>2, ReturnType DEF GenerateRoleView, TypeOK, artifacts, bounds
<1>12. CASE WriteBrief(w)
  BY <1>1, <1>12, WriteFileType DEF WriteBrief, FileNames, Pcs
<1>13. CASE WriteJiraDraft(w)
  BY <1>1, <1>13, WriteFileType DEF WriteJiraDraft, FileNames, Pcs
<1>14. CASE PrepareJiraDraftContext(w)
  BY <1>1, <1>14, WriteFileType DEF PrepareJiraDraftContext, FileNames, Pcs
<1>15. CASE SaveBrief(w)
  BY <1>1, <1>2, <1>15, BriefType, SaveType DEF SaveBrief, Pcs, TypeOK, artifacts, bounds
<1>16. CASE SaveJiraDraft(w)
  BY <1>1, <1>2, <1>16, DraftType, SaveType DEF SaveJiraDraft, Pcs, TypeOK, artifacts, bounds
<1>17. CASE CheckJiraReadiness(w)
  BY <1>1, <1>2, <1>17, WithReadinessType, SaveType
     DEF CheckJiraReadiness, Pcs, TypeOK, artifacts, bounds
<1>18. CASE Log(w)
  <2>1. worker' \in [Workers -> {Idle} \cup Busy]
    BY <1>1, <1>18, MoveType, ReturnType DEF Log, Pcs
  <2>2. LoggedStatus(worker[w]) \in AuditStatus
    <3>1. snap.status \in CaseStatus
      BY <1>2 DEF Snapshot
    <3> QED BY <3>1 DEF LoggedStatus, AuditStatus, CaseStatus
  <2>3. audit' \subseteq AuditRecord
    BY <1>1, <1>18, <2>2 DEF Log, LogGeneration, TypeOK, AuditRecord, UseCases, Busy
  <2> QED BY <1>18, <2>1, <2>3 DEF Log, TypeOK, artifacts, bounds
<1>19. CASE ReadForPrompt(w)
  <2>1. {ContentOf(cases[worker[w].case])} \in Maybe(Content)
    BY <1>2, ContentType, MaybeOne DEF TypeOK
  <2>2. [worker[w] EXCEPT !.prompt = {ContentOf(cases[worker[w].case])}, !.pc = "trace"] \in Busy
    BY <1>1, <2>1 DEF Busy, Pcs
  <2> QED BY <1>19, <2>2 DEF ReadForPrompt, TypeOK, artifacts, bounds
<1>20. CASE SaveContextPack(w)
  <2>1. worker' \in [Workers -> {Idle} \cup Busy]
    BY <1>1, <1>20, MoveType DEF SaveContextPack, Pcs
  <2>2. {worker[w].traced} \in Maybe(SUBSET Sources)
    BY <1>1, MaybeOne DEF Busy
  <2> QED BY <1>20, <2>1, <2>2 DEF SaveContextPack, TypeOK, bounds
<1>21. CASE SavePromptPreview(w)
  <2> DEFINE Preview == [prompt : Maybe(Content), evidence : SUBSET Sources]
             p == [prompt |-> worker[w].prompt, evidence |-> worker[w].traced]
  <2>1. {p} \in Maybe(Preview)
    <3>1. p \in Preview
      BY <1>1 DEF Busy
    <3> QED BY <3>1, MaybeOne
  <2>2. previews' \in [Cases -> [{"brief", "jira_draft"} -> Maybe(Preview)]]
    <3>1. previews' = [previews EXCEPT ![worker[w].case][worker[w].op] = {p}]
      BY <1>21 DEF SavePromptPreview
    <3>2. previews \in [Cases -> [{"brief", "jira_draft"} -> Maybe(Preview)]]
      BY DEF TypeOK
    <3> HIDE DEF p, Preview
    <3> QED BY <2>1, <3>1, <3>2
  <2> QED BY <1>21, <2>2, ReturnType DEF SavePromptPreview, TypeOK, bounds
<1> QED
  BY <1>3, <1>4, <1>5, <1>6, <1>7, <1>8, <1>9, <1>10, <1>11, <1>12, <1>13, <1>14, <1>15,
     <1>16, <1>17, <1>18, <1>19, <1>20, <1>21 DEF Step

LEMMA AbortType == ASSUME TypeOK, NEW w \in Workers, Abort(w) PROVE TypeOK'
<1>1. worker' \in [Workers -> {Idle} \cup Busy]
  BY ReturnType DEF Abort
<1>2. aborts' \in Nat /\ UNCHANGED <<cases, files, trails, packs, previews, audit, requests>>
  BY DEF Abort, TypeOK, artifacts
<1> QED BY <1>1, <1>2 DEF TypeOK

\* Every variable keeps its type: stores hold whole snapshots, and a handler
\* only ever holds a snapshot of the store or one made from it.
THEOREM TypeCorrect == Spec => []TypeOK
<1>1. TypeOK /\ [Next]_vars => TypeOK'
  <2> SUFFICES ASSUME TypeOK, [Next]_vars PROVE TypeOK'
    OBVIOUS
  <2>1. CASE UNCHANGED vars
    <3>1. /\ cases' = cases /\ files' = files /\ trails' = trails /\ packs' = packs
          /\ previews' = previews /\ audit' = audit /\ worker' = worker
          /\ requests' = requests /\ aborts' = aborts
      BY <2>1 DEF vars
    <3> QED BY <3>1 DEF TypeOK
  <2>2. CASE Next
    BY <2>2, CreateType, BeginType, StepType, AbortType DEF Next
  <2> QED BY <2>1, <2>2
<1> QED BY InitType, <1>1, PTL DEF Spec

-----------------------------------------------------------------------------
(* The readiness of a stored case.  Sound(s) is what every snapshot, stored *)
(* or held, satisfies; a handler past its analysis holds an analysed one.   *)

Unanalysed == {"none", "created"}

Sound(s) ==
    /\ s.status \in Unanalysed => s.evidence = {}
    /\ s.status \notin Unanalysed => WithStatus(s, "absent") = {}
    /\ s.status = "jira_ready_draft" =>
          s.evidence # {} /\ s.impact /\ s.draft # {} /\ WithStatus(s, "open") = {}
    /\ s.status \notin {"analyzed", "brief_generated"} =>
          \A r \in s.readiness : r = JiraReadiness(s, s.draft # {})
    /\ \A d \in s.draft : d.warnings = {} =>
          /\ WithStatus(d.content, "open") = {}
          /\ d.content.evidence # {}
          /\ d.content.impact

SoundWorker(w) ==
    worker[w] # Idle =>
        /\ Sound(worker[w].snap)
        /\ cases[worker[w].case].status # "none"
        /\ worker[w].op = "create" => worker[w].pc = "log"
        /\ worker[w].op # "create" /\ worker[w].pc \notin {"check", "analysing"} =>
              worker[w].snap.status \notin Unanalysed

SoundInv ==
    /\ TypeOK
    /\ \A c \in Cases : Sound(cases[c])
    /\ \A w \in Workers : SoundWorker(w)

LEMMA BlockingEmpty ==
  ASSUME NEW s \in Snapshot, NEW d \in BOOLEAN
  PROVE  JiraReadiness(s, d).ready <=>
            s.evidence # {} /\ s.impact /\ WithStatus(s, "open") = {} /\ d
  BY DEF JiraReadiness, BlockingReasons, Reasons, Snapshot

LEMMA SoundCreated == Sound(NoSnapshot) /\ Sound(Created)
  BY DEF Sound, NoSnapshot, Created, Unanalysed

LEMMA SoundAnalysed ==
  ASSUME NEW s \in Snapshot, Sound(s), NEW c \in Cases, NEW evidence \in SUBSET Sources
  PROVE  Sound(Analysed(s, c, evidence)) /\ Analysed(s, c, evidence).status \notin Unanalysed
<1> DEFINE a == Analysed(s, c, evidence)
<1>1. a.status = "analyzed" /\ a.draft = s.draft
  BY DEF Analysed, Snapshot
<1>2. WithStatus(a, "absent") = {}
  BY DEF Analysed, Snapshot, WithStatus, Open
<1>3. Sound(a) /\ a.status \notin Unanalysed
  <2> HIDE DEF a
  <2> QED BY <1>1, <1>2 DEF Sound, Unanalysed
<1> QED BY <1>3

LEMMA SoundDecided ==
  ASSUME NEW s \in Snapshot, Sound(s), s.status \notin Unanalysed, NEW q \in Questions,
         NEW t \in SUBSET Texts, NEW status \in {"answered", "waived"}
  PROVE  /\ Sound(Decided(s, q, status, t))
         /\ Decided(s, q, status, t).status \notin Unanalysed
<1> DEFINE d == [s EXCEPT !.questions[q] = [status |-> status, text |-> t],
                          !.status = "questions_answered"]
           r == JiraReadiness(d, d.draft # {})
           n == [d EXCEPT !.readiness = {r}]
<1>1. d \in Snapshot
  BY DEF Snapshot, QuestionState, CaseStatus
<1>2. /\ d.status = "questions_answered" /\ d.draft = s.draft
      /\ d.questions = [s.questions EXCEPT ![q] = [status |-> status, text |-> t]]
  BY DEF Snapshot
<1>3. WithStatus(d, "absent") = {}
  <2>1. \A p \in Questions : s.questions[p].status # "absent"
    BY DEF Sound, WithStatus
  <2>2. \A p \in Questions : d.questions[p].status # "absent"
    BY <1>2, <2>1 DEF Snapshot
  <2> QED BY <2>2 DEF WithStatus
<1>4. /\ n.status = d.status /\ n.draft = d.draft /\ n.readiness = {r}
      /\ n.evidence = d.evidence /\ n.impact = d.impact /\ n.questions = d.questions
  <2> HIDE DEF d, r
  <2> QED BY <1>1 DEF Snapshot
<1>5. JiraReadiness(n, n.draft # {}) = r
  <2> HIDE DEF d, n
  <2> QED BY <1>4 DEF JiraReadiness, BlockingReasons, WithStatus, r
<1>6. WithStatus(n, "absent") = {}
  <2> HIDE DEF d, n
  <2> QED BY <1>3, <1>4 DEF WithStatus
<1>7. n = Decided(s, q, status, t)
  BY DEF Decided
<1>8. Sound(n) /\ n.status \notin Unanalysed
  <2> HIDE DEF d, n, r
  <2> QED BY <1>2, <1>4, <1>5, <1>6 DEF Sound, Unanalysed
<1> QED
  <2> HIDE DEF d, n, r
  <2> QED BY <1>7, <1>8

LEMMA SoundRoleView ==
  ASSUME NEW s \in Snapshot, Sound(s), NEW r \in Roles
  PROVE  Sound(WithRoleView(s, r)) /\ WithRoleView(s, r).status = s.status
<1> DEFINE v == WithRoleView(s, r)
<1>1. /\ v.status = s.status /\ v.draft = s.draft /\ v.readiness = s.readiness
      /\ v.evidence = s.evidence /\ v.impact = s.impact /\ v.questions = s.questions
  BY DEF WithRoleView, Snapshot
<1>2. \A d : JiraReadiness(v, d) = JiraReadiness(s, d)
  <2> HIDE DEF v
  <2> QED BY <1>1 DEF JiraReadiness, BlockingReasons, WithStatus
<1>3. Sound(v)
  <2> HIDE DEF v
  <2> QED BY <1>1, <1>2 DEF Sound, WithStatus
<1> QED BY <1>1, <1>3

LEMMA SoundBrief ==
  ASSUME NEW s \in Snapshot, Sound(s), s.status \notin Unanalysed
  PROVE  Sound(WithBrief(s)) /\ WithBrief(s).status \notin Unanalysed
<1> DEFINE b == WithBrief(s)
<1>1. b.status = "brief_generated" /\ b.draft = s.draft /\ b.questions = s.questions
  BY DEF WithBrief, Snapshot
<1>2. Sound(b) /\ b.status \notin Unanalysed
  <2> HIDE DEF b
  <2> QED BY <1>1 DEF Sound, Unanalysed, WithStatus
<1> QED BY <1>2

LEMMA SoundDraft ==
  ASSUME NEW s \in Snapshot, Sound(s), s.status \notin Unanalysed
  PROVE  Sound(WithDraft(s)) /\ WithDraft(s).status \notin Unanalysed
<1> DEFINE n == WithDraft(s)
           r == JiraReadiness(s, TRUE)
<1>1. /\ n.status = ReadinessStatus(r) /\ n.draft = {DraftOf(s)} /\ n.readiness = {r}
      /\ n.evidence = s.evidence /\ n.impact = s.impact /\ n.questions = s.questions
  BY DEF WithDraft, Snapshot
<1>2. JiraReadiness(n, n.draft # {}) = r
  <2> HIDE DEF n
  <2> QED BY <1>1 DEF JiraReadiness, BlockingReasons, WithStatus
<1>3. n.status = "jira_ready_draft" =>
        s.evidence # {} /\ s.impact /\ WithStatus(s, "open") = {}
  <2> HIDE DEF n
  <2> QED BY <1>1, BlockingEmpty DEF ReadinessStatus
<1>4. DraftOf(s).warnings = {} =>
        /\ WithStatus(DraftOf(s).content, "open") = {}
        /\ DraftOf(s).content.evidence # {}
        /\ DraftOf(s).content.impact
  BY BlockingEmpty DEF DraftOf, ContentOf, WithStatus, JiraReadiness
<1>5. n.status \in {"jira_ready_draft", "jira_draft_needs_answers"}
  <2> HIDE DEF n
  <2> QED BY <1>1, ReadinessStatusType
<1>6. Sound(n) /\ n.status \notin Unanalysed
  <2> HIDE DEF n, r
  <2> QED BY <1>1, <1>2, <1>3, <1>4, <1>5 DEF Sound, Unanalysed, WithStatus
<1> QED BY <1>6

LEMMA SoundReadiness ==
  ASSUME NEW s \in Snapshot, Sound(s), s.status \notin Unanalysed
  PROVE  Sound(WithReadiness(s)) /\ WithReadiness(s).status \notin Unanalysed
<1> DEFINE n == WithReadiness(s)
           r == JiraReadiness(s, s.draft # {})
<1>1. /\ n.status = ReadinessStatus(r) /\ n.draft = s.draft /\ n.readiness = {r}
      /\ n.evidence = s.evidence /\ n.impact = s.impact /\ n.questions = s.questions
  BY DEF WithReadiness, Snapshot
<1>2. JiraReadiness(n, n.draft # {}) = r
  <2> HIDE DEF n
  <2> QED BY <1>1 DEF JiraReadiness, BlockingReasons, WithStatus
<1>3. n.status = "jira_ready_draft" =>
        s.evidence # {} /\ s.impact /\ WithStatus(s, "open") = {} /\ s.draft # {}
  <2> HIDE DEF n
  <2> QED BY <1>1, BlockingEmpty DEF ReadinessStatus
<1>4. n.status \in {"jira_ready_draft", "jira_draft_needs_answers"}
  <2> HIDE DEF n
  <2> QED BY <1>1, ReadinessStatusType
<1>5. Sound(n) /\ n.status \notin Unanalysed
  <2> HIDE DEF n, r
  <2> QED BY <1>1, <1>2, <1>3, <1>4 DEF Sound, Unanalysed, WithStatus
<1> QED BY <1>5

\* A step touches one worker: what the others hold stays sound, because no
\* stored case is ever removed.
LEMMA OthersStaySound ==
  ASSUME SoundInv, TypeOK', NEW w \in Workers, SoundWorker(w)',
         \A v \in Workers \ {w} : worker'[v] = worker[v],
         \A c \in Cases : Sound(cases'[c]),
         \A c \in Cases : cases[c].status # "none" => cases'[c].status # "none"
  PROVE  SoundInv'
<1>1. ASSUME NEW v \in Workers PROVE SoundWorker(v)'
  <2>1. CASE v = w
    BY <2>1
  <2>2. CASE v # w
    <3>1. worker'[v] = worker[v] /\ SoundWorker(v)
      BY <2>2 DEF SoundInv
    <3>2. worker[v] # Idle => worker[v].case \in Cases
      BY BusyWorker DEF SoundInv, Busy
    <3> QED BY <3>1, <3>2 DEF SoundWorker
  <2> QED BY <2>1, <2>2
<1> QED BY <1>1 DEF SoundInv

LEMMA KeepsSound ==
  ASSUME SoundInv, TypeOK', NEW w \in Workers, cases' = cases, SoundWorker(w)',
         \A v \in Workers \ {w} : worker'[v] = worker[v]
  PROVE  SoundInv'
  BY OthersStaySound DEF SoundInv

LEMMA PutSound ==
  ASSUME SoundInv, TypeOK', NEW w \in Workers, NEW c \in Cases, NEW s \in Snapshot,
         cases' = [cases EXCEPT ![c] = s], Sound(s), s.status # "none", SoundWorker(w)',
         \A v \in Workers \ {w} : worker'[v] = worker[v]
  PROVE  SoundInv'
<1>1. \A d \in Cases : Sound(cases'[d])
  BY DEF SoundInv, TypeOK
<1>2. \A d \in Cases : cases[d].status # "none" => cases'[d].status # "none"
  BY DEF SoundInv, TypeOK
<1> QED BY <1>1, <1>2, OthersStaySound

LEMMA ReturnSound ==
  ASSUME SoundInv, TypeOK', NEW w \in Workers, cases' = cases, Return(w)
  PROVE  SoundInv'
<1>1. worker'[w] = Idle /\ \A v \in Workers \ {w} : worker'[v] = worker[v]
  BY DEF Return, SoundInv, TypeOK
<1>2. SoundWorker(w)'
  BY <1>1 DEF SoundWorker
<1> QED BY <1>1, <1>2, KeepsSound

\* Moving on keeps the held snapshot; it only has to be past its analysis.
LEMMA MoveSound ==
  ASSUME SoundInv, TypeOK', NEW w \in Workers, worker[w] \in Busy, cases' = cases,
         NEW pc \in Pcs, MoveTo(w, pc), worker[w].op # "create",
         worker[w].snap.status \notin Unanalysed
  PROVE  SoundInv'
<1>1. /\ worker'[w] = [worker[w] EXCEPT !.pc = pc]
      /\ \A v \in Workers \ {w} : worker'[v] = worker[v]
  BY DEF MoveTo, SoundInv, TypeOK
<1>2. /\ worker'[w].snap = worker[w].snap /\ worker'[w].case = worker[w].case
      /\ worker'[w].op = worker[w].op
  BY <1>1 DEF Busy
<1>3. worker[w] # Idle
  BY DEF Idle, Busy, Pcs
<1>4. SoundWorker(w)'
  BY <1>2, <1>3 DEF SoundWorker, SoundInv
<1> QED BY <1>1, <1>4, KeepsSound

LEMMA SaveSound ==
  ASSUME SoundInv, TypeOK', NEW w \in Workers, worker[w] \in Busy, NEW s \in Snapshot,
         NEW pc \in Pcs, Save(w, s, pc), Sound(s), s.status \notin Unanalysed,
         worker[w].op # "create"
  PROVE  SoundInv'
<1>1. /\ worker'[w] = [worker[w] EXCEPT !.snap = s, !.pc = pc]
      /\ \A v \in Workers \ {w} : worker'[v] = worker[v]
      /\ cases' = [cases EXCEPT ![worker[w].case] = s]
  BY DEF Save, SoundInv, TypeOK
<1>2. /\ worker'[w].snap = s /\ worker'[w].case = worker[w].case
      /\ worker'[w].op = worker[w].op /\ worker[w].case \in Cases
  BY <1>1 DEF Busy
<1>3. cases'[worker[w].case] = s
  BY <1>1, <1>2 DEF SoundInv, TypeOK
<1>4. SoundWorker(w)'
  BY <1>2, <1>3 DEF SoundWorker, Unanalysed
<1> QED BY <1>1, <1>2, <1>4, PutSound DEF Unanalysed

LEMMA CreateSound ==
  ASSUME SoundInv, TypeOK', NEW w \in Workers, NEW c \in Cases, CreateCase(w, c)
  PROVE  SoundInv'
<1> DEFINE r == Request("create", c, {}, {}, {})
<1>1. /\ worker'[w] = [r EXCEPT !.snap = Created, !.pc = "log"]
      /\ \A v \in Workers \ {w} : worker'[v] = worker[v]
      /\ cases' = [cases EXCEPT ![c] = Created]
  BY DEF CreateCase, SoundInv, TypeOK
<1>2. /\ worker'[w].snap = Created /\ worker'[w].case = c
      /\ worker'[w].op = "create" /\ worker'[w].pc = "log"
  BY <1>1 DEF Request
<1>3. Created.status = "created"
  BY DEF Created, NoSnapshot
<1>4. cases'[c] = Created
  BY <1>1 DEF SoundInv, TypeOK
<1>5. SoundWorker(w)'
  BY <1>2, <1>3, <1>4, SoundCreated DEF SoundWorker
<1> QED BY <1>1, <1>3, <1>5, SoundCreated, NoSnapshotType, PutSound

LEMMA BeginSound ==
  ASSUME SoundInv, TypeOK', NEW w \in Workers, NEW c \in Cases, Begin(w, c)
  PROVE  SoundInv'
<1>1. PICK op \in ServiceOperations, q \in SUBSET Questions, t \in SUBSET Texts,
           r \in SUBSET Roles : BeginWith(w, op, c, q, t, r)
  BY BeginArguments
<1> DEFINE request == Request(op, c, q, t, r)
           pc == IF op = "analyze" THEN "analysing"
                 ELSE IF NeedsAnalysis(cases[c]) THEN "check"
                 ELSE "loaded"
<1>2. /\ worker'[w] = [request EXCEPT !.pc = pc]
      /\ \A v \in Workers \ {w} : worker'[v] = worker[v]
      /\ cases' = cases /\ cases[c].status # "none"
  BY <1>1 DEF BeginWith, SoundInv, TypeOK
<1>3. /\ worker'[w].snap = cases[c] /\ worker'[w].case = c
      /\ worker'[w].op = op /\ worker'[w].pc = pc
  BY <1>2 DEF Request
<1>4. Sound(cases[c])
  BY DEF SoundInv
<1>5. pc \notin {"check", "analysing"} => cases[c].status \notin Unanalysed
  BY <1>2, <1>4 DEF NeedsAnalysis, Sound, Unanalysed
<1>6. op # "create"
  BY DEF ServiceOperations
<1>7. SoundWorker(w)'
  <2> HIDE DEF pc, request
  <2> QED BY <1>2, <1>3, <1>4, <1>5, <1>6 DEF SoundWorker
<1> QED BY <1>2, <1>7, KeepsSound

LEMMA StepSound ==
  ASSUME SoundInv, TypeOK', NEW w \in Workers, Step(w)
  PROVE  SoundInv'
<1> DEFINE snap == worker[w].snap
<1>1. worker[w] \in Busy
  <2>1. worker[w].pc \in Pcs
    BY DEF Step, LoadForAnalysis, SaveAnalysis, LogAnalysis, ReadForTrace, SaveTrail, Finish,
           AnswerQuestion, WaiveQuestion, GenerateRoleView, WriteBrief, WriteJiraDraft,
           PrepareJiraDraftContext, SaveBrief, SaveJiraDraft, CheckJiraReadiness, Log,
           ReadForPrompt, SaveContextPack, SavePromptPreview, Pcs
  <2> QED BY <2>1, WorkerAtPc DEF SoundInv
<1>2. worker[w] # Idle
  BY <1>1 DEF Idle, Busy, Pcs
<1>3. snap \in Snapshot /\ worker[w].case \in Cases /\ Sound(snap)
  BY <1>1, <1>2 DEF Busy, SoundInv, SoundWorker
<1>4. worker[w].pc # "log" => worker[w].op # "create"
  BY <1>2 DEF SoundInv, SoundWorker
<1>5. worker[w].op # "create" /\ worker[w].pc \notin {"check", "analysing"} =>
        snap.status \notin Unanalysed
  BY <1>2 DEF SoundInv, SoundWorker
<1>6. CASE LoadForAnalysis(w)
  <2> DEFINE stored == cases[worker[w].case]
  <2>1. /\ worker'[w] = [worker[w] EXCEPT !.snap = stored, !.pc = "analysing"]
        /\ \A v \in Workers \ {w} : worker'[v] = worker[v]
        /\ cases' = cases
    BY <1>6 DEF LoadForAnalysis, SoundInv, TypeOK
  <2>2. /\ worker'[w].snap = stored /\ worker'[w].case = worker[w].case
        /\ worker'[w].op = worker[w].op /\ worker'[w].pc = "analysing"
    BY <1>1, <2>1 DEF Busy
  <2>3. Sound(stored) /\ stored.status # "none" /\ worker[w].op # "create"
    BY <1>2, <1>3, <1>4, <1>6 DEF SoundInv, SoundWorker, LoadForAnalysis
  <2>4. SoundWorker(w)'
    BY <2>1, <2>2, <2>3 DEF SoundWorker
  <2> QED BY <2>1, <2>4, KeepsSound
<1>7. CASE SaveAnalysis(w)
  <2>1. PICK evidence \in SUBSET Sources :
           Save(w, Analysed(snap, worker[w].case, evidence), "log_analysis")
    BY <1>7 DEF SaveAnalysis
  <2>2. worker[w].op # "create"
    BY <1>4, <1>7 DEF SaveAnalysis
  <2> QED BY <1>1, <1>3, <2>1, <2>2, AnalysedType, SoundAnalysed, SaveSound DEF Pcs
<1>8. CASE LogAnalysis(w)
  BY <1>1, <1>4, <1>5, <1>8, MoveSound DEF LogAnalysis, Pcs
<1>9. CASE ReadForTrace(w)
  <2> DEFINE traced == cases[worker[w].case].evidence
  <2>1. /\ worker'[w] = [worker[w] EXCEPT !.traced = traced, !.pc = "save_trail"]
        /\ \A v \in Workers \ {w} : worker'[v] = worker[v]
        /\ cases' = cases
    BY <1>9 DEF ReadForTrace, SoundInv, TypeOK
  <2>2. /\ worker'[w].snap = snap /\ worker'[w].case = worker[w].case
        /\ worker'[w].op = worker[w].op
    BY <1>1, <2>1 DEF Busy
  <2>3. SoundWorker(w)'
    BY <1>2, <1>4, <1>5, <1>9, <2>1, <2>2 DEF SoundWorker, SoundInv, ReadForTrace
  <2> QED BY <2>1, <2>3, KeepsSound
<1>10. CASE SaveTrail(w)
  <2>1. CASE Return(w)
    BY <1>10, <2>1, ReturnSound DEF SaveTrail
  <2>2. CASE ~Return(w)
    BY <1>1, <1>4, <1>5, <1>10, <2>2, MoveSound DEF SaveTrail, Pcs
  <2> QED BY <2>1, <2>2
<1>11. CASE Finish(w)
  BY <1>11, ReturnSound DEF Finish
<1>12. CASE AnswerQuestion(w)
  <2>1. PICK q \in worker[w].question : Save(w, Decided(snap, q, "answered", worker[w].text), "log")
    BY <1>12 DEF AnswerQuestion
  <2>2. q \in Questions /\ worker[w].text \in SUBSET Texts
    BY <1>1 DEF Busy
  <2>3. snap.status \notin Unanalysed /\ worker[w].op # "create"
    BY <1>5, <1>12 DEF AnswerQuestion
  <2>4. /\ Decided(snap, q, "answered", worker[w].text) \in Snapshot
        /\ Sound(Decided(snap, q, "answered", worker[w].text))
        /\ Decided(snap, q, "answered", worker[w].text).status \notin Unanalysed
    BY <1>3, <2>2, <2>3, DecidedType, SoundDecided
  <2> QED BY <1>1, <2>1, <2>3, <2>4, SaveSound DEF Pcs
<1>13. CASE WaiveQuestion(w)
  <2>1. PICK q \in worker[w].question : Save(w, Decided(snap, q, "waived", worker[w].text), "log")
    BY <1>13 DEF WaiveQuestion
  <2>2. q \in Questions /\ worker[w].text \in SUBSET Texts
    BY <1>1 DEF Busy
  <2>3. snap.status \notin Unanalysed /\ worker[w].op # "create"
    BY <1>5, <1>13 DEF WaiveQuestion
  <2>4. /\ Decided(snap, q, "waived", worker[w].text) \in Snapshot
        /\ Sound(Decided(snap, q, "waived", worker[w].text))
        /\ Decided(snap, q, "waived", worker[w].text).status \notin Unanalysed
    BY <1>3, <2>2, <2>3, DecidedType, SoundDecided
  <2> QED BY <1>1, <2>1, <2>3, <2>4, SaveSound DEF Pcs
<1>14. CASE GenerateRoleView(w)
  <2>1. PICK r \in worker[w].role :
           cases' = [cases EXCEPT ![worker[w].case] = WithRoleView(snap, r)]
    BY <1>14 DEF GenerateRoleView
  <2>2. r \in Roles
    BY <1>1 DEF Busy
  <2>3. worker'[w] = Idle /\ \A v \in Workers \ {w} : worker'[v] = worker[v]
    BY <1>14 DEF GenerateRoleView, Return, SoundInv, TypeOK
  <2>4. SoundWorker(w)'
    BY <2>3 DEF SoundWorker
  <2>5. snap.status # "none"
    <3>1. worker[w].pc = "loaded"
      BY <1>14 DEF GenerateRoleView
    <3> QED BY <1>4, <1>5, <3>1 DEF Unanalysed
  <2>6. /\ WithRoleView(snap, r) \in Snapshot /\ Sound(WithRoleView(snap, r))
        /\ WithRoleView(snap, r).status # "none"
    BY <1>3, <2>2, <2>5, RoleViewType, SoundRoleView
  <2> QED BY <1>3, <2>1, <2>3, <2>4, <2>6, PutSound
<1>15. CASE WriteBrief(w) \/ WriteJiraDraft(w) \/ PrepareJiraDraftContext(w)
  BY <1>1, <1>5, <1>15, MoveSound
     DEF WriteBrief, WriteJiraDraft, PrepareJiraDraftContext, WriteFile, Pcs
<1>16. CASE SaveBrief(w)
  BY <1>1, <1>3, <1>5, <1>16, BriefType, SoundBrief, SaveSound DEF SaveBrief, Pcs
<1>17. CASE SaveJiraDraft(w)
  BY <1>1, <1>3, <1>5, <1>17, DraftType, SoundDraft, SaveSound DEF SaveJiraDraft, Pcs
<1>18. CASE CheckJiraReadiness(w)
  BY <1>1, <1>3, <1>5, <1>18, WithReadinessType, SoundReadiness, SaveSound
     DEF CheckJiraReadiness, Pcs
<1>19. CASE Log(w)
  <2>1. CASE worker[w].op \in {"brief", "jira_draft"}
    BY <1>1, <1>5, <1>19, <2>1, MoveSound DEF Log, Pcs
  <2>2. CASE worker[w].op \notin {"brief", "jira_draft"}
    BY <1>19, <2>2, ReturnSound DEF Log
  <2> QED BY <2>1, <2>2
<1>20. CASE ReadForPrompt(w)
  <2> DEFINE prompt == {ContentOf(cases[worker[w].case])}
  <2>1. /\ worker'[w] = [worker[w] EXCEPT !.prompt = prompt, !.pc = "trace"]
        /\ \A v \in Workers \ {w} : worker'[v] = worker[v]
        /\ cases' = cases
    BY <1>20 DEF ReadForPrompt, SoundInv, TypeOK
  <2>2. /\ worker'[w].snap = snap /\ worker'[w].case = worker[w].case
        /\ worker'[w].op = worker[w].op
    BY <1>1, <2>1 DEF Busy
  <2>3. SoundWorker(w)'
    BY <1>2, <1>4, <1>5, <1>20, <2>1, <2>2 DEF SoundWorker, SoundInv, ReadForPrompt
  <2> QED BY <2>1, <2>3, KeepsSound
<1>21. CASE SaveContextPack(w)
  BY <1>1, <1>4, <1>5, <1>21, MoveSound DEF SaveContextPack, Pcs
<1>22. CASE SavePromptPreview(w)
  BY <1>22, ReturnSound DEF SavePromptPreview
<1> QED
  BY <1>6, <1>7, <1>8, <1>9, <1>10, <1>11, <1>12, <1>13, <1>14, <1>15, <1>16, <1>17, <1>18,
     <1>19, <1>20, <1>21, <1>22 DEF Step

LEMMA SoundAlways == Spec => []SoundInv
<1>1. Init => SoundInv
  BY InitType, SoundCreated DEF Init, SoundInv, SoundWorker
<1>2. SoundInv /\ TypeOK' /\ [Next]_vars => SoundInv'
  <2> SUFFICES ASSUME SoundInv, TypeOK', [Next]_vars PROVE SoundInv'
    OBVIOUS
  <2>1. CASE UNCHANGED vars
    <3>1. cases' = cases /\ worker' = worker
      BY <2>1 DEF vars
    <3> QED BY <3>1 DEF SoundInv, SoundWorker
  <2>2. CASE Next
    <3>1. PICK w \in Workers : (\E c \in Cases : CreateCase(w, c) \/ Begin(w, c)) \/ Step(w) \/ Abort(w)
      BY <2>2 DEF Next
    <3>2. CASE Abort(w)
      BY <3>2, ReturnSound DEF Abort
    <3> QED BY <3>1, <3>2, CreateSound, BeginSound, StepSound
  <2> QED BY <2>1, <2>2
<1> QED BY <1>1, <1>2, TypeCorrect, PTL DEF Spec

\* Whatever handlers interleave or stop, a case stored as ready has evidence, an
\* impact map, a draft and no undecided question.
THEOREM ReadyEarned == Spec => []ReadyIsEarned
<1>1. SoundInv => ReadyIsEarned
  <2> SUFFICES ASSUME SoundInv, NEW c \in Cases, cases[c].status = "jira_ready_draft"
               PROVE  /\ cases[c].evidence # {} /\ cases[c].impact /\ cases[c].draft # {}
                      /\ Closed(cases[c]) = Questions
    BY DEF ReadyIsEarned
  <2>1. Sound(cases[c]) /\ cases[c] \in Snapshot
    BY DEF SoundInv, TypeOK
  <2>2. \A q \in Questions : cases[c].questions[q].status \in {"answered", "waived"}
    BY <2>1 DEF Sound, WithStatus, Unanalysed, Snapshot, QuestionState
  <2> QED BY <2>1, <2>2 DEF Sound, Closed, WithStatus
<1> QED BY <1>1, SoundAlways, PTL

\* The stored readiness is that of the stored case unless the last save was an
\* analysis or a brief.
THEOREM ReadinessCurrent == Spec => []ReadinessIsCurrent
<1>1. SoundInv => ReadinessIsCurrent
  BY DEF SoundInv, Sound, ReadinessIsCurrent
<1> QED BY <1>1, SoundAlways, PTL

\* A draft saved without warnings was rendered from decided questions.
THEOREM CleanDrafts == Spec => []CleanDraftShowsNoPendingQuestion
<1>1. SoundInv => CleanDraftShowsNoPendingQuestion
  BY DEF SoundInv, Sound, CleanDraftShowsNoPendingQuestion
<1> QED BY <1>1, SoundAlways, PTL
-----------------------------------------------------------------------------
(* An analysed case stays analysed *)

\* What a handler that is past its analysis saves is an analysed snapshot.
SavesAnalysed(w) ==
    \E s \in Snapshot : /\ s.status \notin Unanalysed
                        /\ cases' = [cases EXCEPT ![worker[w].case] = s]

LEMMA HeldSnapshot ==
  ASSUME SoundInv, NEW w \in Workers, worker[w].pc \in Pcs
  PROVE  /\ worker[w].snap \in Snapshot /\ Sound(worker[w].snap)
         /\ worker[w].case \in Cases
         /\ worker[w].question \subseteq Questions /\ worker[w].text \subseteq Texts
         /\ worker[w].role \subseteq Roles
         /\ worker[w].pc \in {"loaded", "generated"} =>
                worker[w].snap.status \notin Unanalysed
<1>1. worker[w] \in Busy
  BY WorkerAtPc DEF SoundInv
<1>2. worker[w] # Idle
  BY <1>1 DEF Idle, Busy, Pcs
<1>3. SoundWorker(w)
  BY DEF SoundInv
<1> QED BY <1>1, <1>2, <1>3 DEF Busy, SoundWorker

LEMMA DecisionAnalysed ==
  ASSUME SoundInv, NEW w \in Workers, AnswerQuestion(w) \/ WaiveQuestion(w)
  PROVE  SavesAnalysed(w)
<1> DEFINE snap == worker[w].snap
<1>1. worker[w].pc = "loaded"
  BY DEF AnswerQuestion, WaiveQuestion
<1>2. PICK q \in worker[w].question, status \in {"answered", "waived"} :
         cases' = [cases EXCEPT ![worker[w].case] =
                      Decided(snap, q, status, worker[w].text)]
  BY DEF AnswerQuestion, WaiveQuestion, Save
<1>3. /\ snap \in Snapshot /\ Sound(snap) /\ snap.status \notin Unanalysed
      /\ q \in Questions /\ worker[w].text \in SUBSET Texts
  BY <1>1, HeldSnapshot DEF Pcs
<1>4. /\ Decided(snap, q, status, worker[w].text) \in Snapshot
      /\ Decided(snap, q, status, worker[w].text).status \notin Unanalysed
  BY <1>3, DecidedType, SoundDecided
<1> QED BY <1>2, <1>4 DEF SavesAnalysed

LEMMA StepAnalysed ==
  ASSUME SoundInv, NEW w \in Workers, Step(w)
  PROVE  cases' = cases \/ SavesAnalysed(w)
<1> DEFINE snap == worker[w].snap
<1>1. CASE SaveAnalysis(w)
  <2>1. PICK evidence \in SUBSET Sources :
           cases' = [cases EXCEPT ![worker[w].case] =
                        Analysed(snap, worker[w].case, evidence)]
    BY <1>1 DEF SaveAnalysis, Save
  <2>2. snap \in Snapshot /\ Sound(snap) /\ worker[w].case \in Cases
    BY <1>1, HeldSnapshot DEF SaveAnalysis, Pcs
  <2>3. /\ Analysed(snap, worker[w].case, evidence) \in Snapshot
        /\ Analysed(snap, worker[w].case, evidence).status \notin Unanalysed
    BY <2>2, AnalysedType, SoundAnalysed
  <2> QED BY <2>1, <2>3 DEF SavesAnalysed
<1>2. CASE AnswerQuestion(w) \/ WaiveQuestion(w)
  BY <1>2, DecisionAnalysed
<1>3. CASE GenerateRoleView(w)
  <2>1. PICK r \in worker[w].role :
           cases' = [cases EXCEPT ![worker[w].case] = WithRoleView(snap, r)]
    BY <1>3 DEF GenerateRoleView
  <2>2. /\ snap \in Snapshot /\ Sound(snap) /\ snap.status \notin Unanalysed
        /\ r \in Roles
    BY <1>3, HeldSnapshot DEF GenerateRoleView, Pcs
  <2>3. WithRoleView(snap, r) \in Snapshot /\ WithRoleView(snap, r).status = snap.status
    BY <2>2, RoleViewType, SoundRoleView
  <2> QED BY <2>1, <2>2, <2>3 DEF SavesAnalysed
<1>4. CASE SaveBrief(w)
  <2>1. snap \in Snapshot /\ Sound(snap) /\ snap.status \notin Unanalysed
    BY <1>4, HeldSnapshot DEF SaveBrief, Pcs
  <2>2. WithBrief(snap) \in Snapshot /\ WithBrief(snap).status \notin Unanalysed
    BY <2>1, BriefType, SoundBrief
  <2> QED BY <1>4, <2>2 DEF SaveBrief, Save, SavesAnalysed
<1>5. CASE SaveJiraDraft(w)
  <2>1. snap \in Snapshot /\ Sound(snap) /\ snap.status \notin Unanalysed
    BY <1>5, HeldSnapshot DEF SaveJiraDraft, Pcs
  <2>2. WithDraft(snap) \in Snapshot /\ WithDraft(snap).status \notin Unanalysed
    BY <2>1, DraftType, SoundDraft
  <2> QED BY <1>5, <2>2 DEF SaveJiraDraft, Save, SavesAnalysed
<1>6. CASE CheckJiraReadiness(w)
  <2>1. snap \in Snapshot /\ Sound(snap) /\ snap.status \notin Unanalysed
    BY <1>6, HeldSnapshot DEF CheckJiraReadiness, Pcs
  <2>2. WithReadiness(snap) \in Snapshot /\ WithReadiness(snap).status \notin Unanalysed
    BY <2>1, WithReadinessType, SoundReadiness
  <2> QED BY <1>6, <2>2 DEF CheckJiraReadiness, Save, SavesAnalysed
<1>7. CASE \/ LoadForAnalysis(w) \/ LogAnalysis(w) \/ ReadForTrace(w) \/ SaveTrail(w)
           \/ Finish(w) \/ WriteBrief(w) \/ WriteJiraDraft(w)
           \/ PrepareJiraDraftContext(w) \/ Log(w) \/ ReadForPrompt(w)
           \/ SaveContextPack(w) \/ SavePromptPreview(w)
  BY <1>7 DEF LoadForAnalysis, LogAnalysis, ReadForTrace, SaveTrail, Finish, WriteBrief,
              WriteJiraDraft, PrepareJiraDraftContext, WriteFile, Log, ReadForPrompt,
              SaveContextPack, SavePromptPreview
<1> QED BY <1>1, <1>2, <1>3, <1>4, <1>5, <1>6, <1>7 DEF Step

LEMMA NextAnalysed ==
  ASSUME SoundInv, Next, NEW c \in Cases, cases[c].status \notin Unanalysed
  PROVE  cases'[c].status \notin Unanalysed
<1>1. PICK w \in Workers : (\E d \in Cases : CreateCase(w, d) \/ Begin(w, d)) \/ Step(w) \/ Abort(w)
  BY DEF Next
<1>2. CASE \E d \in Cases : CreateCase(w, d)
  <2>1. PICK d \in Cases : cases[d].status = "none" /\ cases' = [cases EXCEPT ![d] = Created]
    BY <1>2 DEF CreateCase
  <2> QED BY <2>1 DEF Unanalysed, SoundInv, TypeOK
<1>3. CASE \E d \in Cases : Begin(w, d)
  BY <1>3, BeginArguments DEF BeginWith
<1>4. CASE Step(w)
  BY <1>4, StepAnalysed DEF SavesAnalysed, SoundInv, TypeOK
<1>5. CASE Abort(w)
  BY <1>5 DEF Abort
<1> QED BY <1>1, <1>2, <1>3, <1>4, <1>5

\* Once analysed a case is never stored as unanalysed again, whatever handlers
\* that loaded it before its analysis save afterwards.
THEOREM StaysAnalysed == Spec => NeverUnanalysed
<1>1. SoundInv /\ [Next]_vars =>
         [\A c \in Cases : cases[c].status \notin {"none", "created"} =>
             cases'[c].status \notin {"none", "created"}]_cases
  <2> SUFFICES ASSUME SoundInv, [Next]_vars, cases' # cases
               PROVE  \A c \in Cases : cases[c].status \notin {"none", "created"} =>
                         cases'[c].status \notin {"none", "created"}
    OBVIOUS
  <2>1. Next
    BY DEF vars
  <2> QED BY <2>1, NextAnalysed DEF Unanalysed
<1> QED BY <1>1, SoundAlways, PTL DEF Spec, NeverUnanalysed

-----------------------------------------------------------------------------
(* What each operation of the service does to a snapshot *)

LEMMA AnalysedFields ==
  ASSUME NEW s \in Snapshot, NEW c \in Cases, NEW evidence \in SUBSET Sources
  PROVE  /\ Analysed(s, c, evidence).status = "analyzed"
         /\ Analysed(s, c, evidence).evidence = evidence
         /\ Analysed(s, c, evidence).questions = [q \in Questions |-> Open]
         /\ Analysed(s, c, evidence).draft = s.draft
         /\ Analysed(s, c, evidence).brief = s.brief
  BY DEF Analysed, Snapshot

LEMMA DecidedKeeps ==
  ASSUME NEW s \in Snapshot, NEW q \in Questions, NEW t \in SUBSET Texts,
         NEW status \in {"answered", "waived"}
  PROVE  /\ Decided(s, q, status, t).status = "questions_answered"
         /\ Decided(s, q, status, t).evidence = s.evidence
         /\ Decided(s, q, status, t).draft = s.draft
         /\ Decided(s, q, status, t).brief = s.brief
<1>. DEFINE d == [s EXCEPT !.questions[q] = [status |-> status, text |-> t],
                           !.status = "questions_answered"]
            r == JiraReadiness(d, d.draft # {})
<1>1. d \in Snapshot
  BY DEF Snapshot, QuestionState, CaseStatus
<1>2. /\ d.status = "questions_answered" /\ d.draft = s.draft /\ d.brief = s.brief
      /\ d.evidence = s.evidence
  BY DEF Snapshot
<1>3. Decided(s, q, status, t) = [d EXCEPT !.readiness = {r}]
  BY DEF Decided
<1>. QED
  <2>. HIDE DEF d, r
  <2>. QED  BY <1>1, <1>2, <1>3 DEF Snapshot

LEMMA DecidedQuestions ==
  ASSUME NEW s \in Snapshot, NEW q \in Questions, NEW t \in SUBSET Texts,
         NEW status \in {"answered", "waived"}
  PROVE  /\ Decided(s, q, status, t).questions[q].status = status
         /\ \A p \in Questions \ {q} :
                Decided(s, q, status, t).questions[p] = s.questions[p]
<1>. DEFINE d == [s EXCEPT !.questions[q] = [status |-> status, text |-> t],
                           !.status = "questions_answered"]
            r == JiraReadiness(d, d.draft # {})
<1>1. d \in Snapshot
  BY DEF Snapshot, QuestionState, CaseStatus
<1>2. d.questions = [s.questions EXCEPT ![q] = [status |-> status, text |-> t]]
  BY DEF Snapshot
<1>3. Decided(s, q, status, t) = [d EXCEPT !.readiness = {r}]
  BY DEF Decided
<1>4. Decided(s, q, status, t).questions = d.questions
  <2>. HIDE DEF d, r
  <2>. QED  BY <1>1, <1>3 DEF Snapshot
<1>5. s.questions \in [Questions -> QuestionState]
  BY DEF Snapshot
<1>. QED
  <2>. HIDE DEF d
  <2>. QED  BY <1>2, <1>4, <1>5

LEMMA RoleViewFields ==
  ASSUME NEW s \in Snapshot, NEW r \in Roles
  PROVE  /\ WithRoleView(s, r).status = s.status
         /\ WithRoleView(s, r).evidence = s.evidence
         /\ WithRoleView(s, r).questions = s.questions
         /\ WithRoleView(s, r).draft = s.draft
         /\ WithRoleView(s, r).brief = s.brief
  BY DEF WithRoleView, Snapshot

LEMMA BriefFields ==
  ASSUME NEW s \in Snapshot
  PROVE  /\ WithBrief(s).status = "brief_generated"
         /\ WithBrief(s).evidence = s.evidence
         /\ WithBrief(s).questions = s.questions
         /\ WithBrief(s).draft = s.draft
         /\ WithBrief(s).brief = {ContentOf(s)}
  BY DEF WithBrief, Snapshot

LEMMA DraftFields ==
  ASSUME NEW s \in Snapshot
  PROVE  /\ WithDraft(s).status = ReadinessStatus(JiraReadiness(s, TRUE))
         /\ WithDraft(s).evidence = s.evidence
         /\ WithDraft(s).questions = s.questions
         /\ WithDraft(s).draft = {DraftOf(s)}
         /\ DraftOf(s).content = ContentOf(s)
         /\ WithDraft(s).brief = s.brief
  BY DEF WithDraft, DraftOf, Snapshot

\* Rendering a document or a role view leaves what it is rendered from.
LEMMA RenderingKeepsContent ==
  ASSUME NEW s \in Snapshot, NEW r \in Roles
  PROVE  /\ ContentOf(WithBrief(s)) = ContentOf(s)
         /\ ContentOf(WithDraft(s)) = ContentOf(s)
         /\ ContentOf(WithRoleView(s, r)) = ContentOf(s)
  BY DEF ContentOf, WithBrief, WithDraft, WithRoleView, Snapshot

LEMMA ReadinessFields ==
  ASSUME NEW s \in Snapshot
  PROVE  /\ WithReadiness(s).status = ReadinessStatus(JiraReadiness(s, s.draft # {}))
         /\ WithReadiness(s).evidence = s.evidence
         /\ WithReadiness(s).questions = s.questions
         /\ WithReadiness(s).draft = s.draft
         /\ WithReadiness(s).brief = s.brief
  BY DEF WithReadiness, Snapshot

-----------------------------------------------------------------------------
(* What each step does to its handler *)

Others(w) == \A v \in Workers \ {w} : worker'[v] = worker[v]

\* The handler goes on with the request it serves.
Continues(w, pc) ==
    /\ worker'[w] # Idle /\ worker'[w].pc = pc
    /\ worker'[w].op = worker[w].op
    /\ worker'[w].case = worker[w].case
    /\ worker'[w].question = worker[w].question
    /\ Others(w)

KeepsReading(w) ==
    /\ worker'[w].prompt = worker[w].prompt
    /\ worker'[w].traced = worker[w].traced

LEMMA MoveForm ==
  ASSUME TypeOK, NEW w \in Workers, worker[w] \in Busy, NEW pc \in Pcs, MoveTo(w, pc)
  PROVE  Continues(w, pc) /\ KeepsReading(w) /\ worker'[w].snap = worker[w].snap
<1>1. /\ worker'[w] = [worker[w] EXCEPT !.pc = pc]
      /\ Others(w)
  BY DEF MoveTo, TypeOK, Others
<1>2. worker'[w].pc = pc
  BY <1>1 DEF Busy
<1>3. worker'[w] # Idle
  BY <1>2 DEF Idle, Pcs
<1>. QED  BY <1>1, <1>2, <1>3 DEF Continues, KeepsReading, Busy

LEMMA SaveForm ==
  ASSUME TypeOK, NEW w \in Workers, worker[w] \in Busy, NEW pc \in Pcs, NEW s, Save(w, s, pc)
  PROVE  /\ Continues(w, pc) /\ KeepsReading(w) /\ worker'[w].snap = s
         /\ cases' = [cases EXCEPT ![worker[w].case] = s]
         /\ cases'[worker[w].case] = s
         /\ \A c \in Cases \ {worker[w].case} : cases'[c] = cases[c]
<1>1. /\ worker'[w] = [worker[w] EXCEPT !.snap = s, !.pc = pc]
      /\ Others(w)
  BY DEF Save, TypeOK, Others
<1>2. worker'[w].pc = pc
  BY <1>1 DEF Busy
<1>3. worker'[w] # Idle
  BY <1>2 DEF Idle, Pcs
<1>4. worker[w].case \in Cases
  BY DEF Busy
<1>. QED  BY <1>1, <1>2, <1>3, <1>4 DEF Continues, KeepsReading, Busy, Save, TypeOK

LEMMA ReturnForm ==
  ASSUME TypeOK, NEW w \in Workers, Return(w)
  PROVE  worker'[w] = Idle /\ Others(w)
  BY DEF Return, TypeOK, Others

LEMMA LoadForm ==
  ASSUME TypeOK, NEW w \in Workers, LoadForAnalysis(w)
  PROVE  /\ Continues(w, "analysing") /\ KeepsReading(w)
         /\ worker'[w].snap = cases[worker[w].case]
<1>1. worker[w] \in Busy
  BY WorkerAtPc DEF LoadForAnalysis, Pcs
<1>2. /\ worker'[w] = [worker[w] EXCEPT !.snap = cases[worker[w].case], !.pc = "analysing"]
      /\ Others(w)
  BY DEF LoadForAnalysis, TypeOK, Others
<1>3. worker'[w].pc = "analysing"
  BY <1>1, <1>2 DEF Busy
<1>4. worker'[w] # Idle
  BY <1>3 DEF Idle
<1>. QED  BY <1>1, <1>2, <1>3, <1>4 DEF Continues, KeepsReading, Busy

LEMMA TraceForm ==
  ASSUME TypeOK, NEW w \in Workers, ReadForTrace(w)
  PROVE  /\ Continues(w, "save_trail") /\ worker'[w].snap = worker[w].snap
         /\ worker'[w].prompt = worker[w].prompt
         /\ worker'[w].traced = cases[worker[w].case].evidence
<1>1. worker[w] \in Busy
  BY WorkerAtPc DEF ReadForTrace, Pcs
<1>2. /\ worker'[w] = [worker[w] EXCEPT !.traced = cases[worker[w].case].evidence,
                                        !.pc = "save_trail"]
      /\ Others(w)
  BY DEF ReadForTrace, TypeOK, Others
<1>3. worker'[w].pc = "save_trail"
  BY <1>1, <1>2 DEF Busy
<1>4. worker'[w] # Idle
  BY <1>3 DEF Idle
<1>. QED  BY <1>1, <1>2, <1>3, <1>4 DEF Continues, Busy

LEMMA PromptForm ==
  ASSUME TypeOK, NEW w \in Workers, ReadForPrompt(w)
  PROVE  /\ Continues(w, "trace") /\ worker'[w].snap = worker[w].snap
         /\ worker'[w].prompt = {ContentOf(cases[worker[w].case])}
<1>. DEFINE prompt == {ContentOf(cases[worker[w].case])}
<1>1. worker[w] \in Busy
  BY WorkerAtPc DEF ReadForPrompt, Pcs
<1>2. /\ worker'[w] = [worker[w] EXCEPT !.prompt = prompt, !.pc = "trace"]
      /\ Others(w)
  BY DEF ReadForPrompt, TypeOK, Others
<1>. HIDE DEF prompt
<1>3. worker'[w].pc = "trace"
  BY <1>1, <1>2 DEF Busy
<1>4. worker'[w] # Idle
  BY <1>3 DEF Idle
<1>. QED  BY <1>1, <1>2, <1>3, <1>4 DEF Continues, Busy, prompt

\* A request starts with the stored snapshot, or with the one it creates.
LEMMA StartForm ==
  ASSUME TypeOK, NEW w \in Workers, NEW c \in Cases, CreateCase(w, c) \/ Begin(w, c)
  PROVE  /\ worker[w] = Idle /\ worker'[w] # Idle /\ Others(w)
         /\ worker'[w].case = c /\ worker'[w].prompt = {}
         /\ worker'[w].snap = cases'[c] /\ \A d \in Cases \ {c} : cases'[d] = cases[d]
         /\ worker'[w].question \in Maybe(Questions)
         /\ UNCHANGED <<files, trails, packs, previews, audit, aborts>>
         /\ \/ /\ CreateCase(w, c) /\ cases'[c] = Created
               /\ worker'[w].pc = "log" /\ worker'[w].op = "create"
            \/ /\ cases' = cases /\ worker'[w].pc \in {"check", "analysing", "loaded"}
<1>1. CASE CreateCase(w, c)
  <2>. DEFINE r == Request("create", c, {}, {}, {})
  <2>1. /\ worker'[w] = [r EXCEPT !.snap = Created, !.pc = "log"]
        /\ Others(w) /\ worker[w] = Idle
        /\ cases'[c] = Created /\ \A d \in Cases \ {c} : cases'[d] = cases[d]
        /\ UNCHANGED <<files, trails, packs, previews, audit, aborts>>
    BY <1>1 DEF CreateCase, NewRequest, TypeOK, Others, artifacts
  <2>2. /\ worker'[w].snap = Created /\ worker'[w].case = c /\ worker'[w].prompt = {}
        /\ worker'[w].op = "create" /\ worker'[w].pc = "log" /\ worker'[w].question = {}
    BY <2>1 DEF Request
  <2>3. worker'[w] # Idle
    BY <2>2 DEF Idle
  <2>. QED  BY <1>1, <2>1, <2>2, <2>3, MaybeEmpty
<1>2. ASSUME NEW op, NEW q \in Maybe(Questions), NEW t, NEW r, BeginWith(w, op, c, q, t, r)
      PROVE  /\ worker[w] = Idle /\ worker'[w] # Idle /\ Others(w)
             /\ worker'[w].case = c /\ worker'[w].prompt = {}
             /\ worker'[w].snap = cases[c] /\ cases' = cases
             /\ worker'[w].question \in Maybe(Questions)
             /\ UNCHANGED <<files, trails, packs, previews, audit, aborts>>
             /\ worker'[w].pc \in {"check", "analysing", "loaded"}
  <2>. DEFINE request == Request(op, c, q, t, r)
              pc == IF op = "analyze" THEN "analysing"
                    ELSE IF NeedsAnalysis(cases[c]) THEN "check"
                    ELSE "loaded"
  <2>1. /\ worker'[w] = [request EXCEPT !.pc = pc]
        /\ Others(w) /\ worker[w] = Idle /\ cases' = cases
        /\ UNCHANGED <<files, trails, packs, previews, audit, aborts>>
    BY <1>2 DEF BeginWith, NewRequest, TypeOK, Others, artifacts
  <2>2. pc \in {"check", "analysing", "loaded"}
    OBVIOUS
  <2>. HIDE DEF pc
  <2>3. /\ worker'[w].snap = cases[c] /\ worker'[w].case = c /\ worker'[w].prompt = {}
        /\ worker'[w].pc = pc /\ worker'[w].question = q
    BY <2>1 DEF Request
  <2>4. worker'[w] # Idle
    BY <2>2, <2>3 DEF Idle
  <2>. QED  BY <2>1, <2>2, <2>3, <2>4
<1>3. CASE Begin(w, c)
  <2>1. \E op, t, r : \E q \in Maybe(Questions) : BeginWith(w, op, c, q, t, r)
    <3>1. CASE \E op \in Operations \cap {"answer", "waive"}, q \in Questions, t \in Texts :
                  BeginWith(w, op, c, {q}, {t}, {})
      BY <3>1, MaybeOne
    <3>2. CASE \/ \E op \in Operations \ {"answer", "waive", "role_view"} :
                        BeginWith(w, op, c, {}, {}, {})
               \/ \E op \in Operations \cap {"answer", "waive"} : BeginWith(w, op, c, {}, {}, {})
      BY <3>2, MaybeEmpty
    <3>3. CASE \E op \in Operations \cap {"role_view"}, r \in Roles :
                  BeginWith(w, op, c, {}, {}, {r})
      BY <3>3, MaybeEmpty
    <3>. QED  BY <1>3, <3>1, <3>2, <3>3 DEF Begin
  <2>. QED  BY <1>2, <2>1
<1>. QED  BY <1>1, <1>3

\* The handler of a step holds a snapshot of its case.
LEMMA Holder ==
  ASSUME SoundInv, NEW w \in Workers, Step(w)
  PROVE  /\ worker[w] \in Busy /\ worker[w] # Idle
         /\ worker[w].snap \in Snapshot /\ worker[w].case \in Cases
         /\ Sound(worker[w].snap)
         /\ worker[w].question \subseteq Questions /\ worker[w].text \subseteq Texts
         /\ worker[w].role \subseteq Roles
         /\ worker[w].pc \in {"loaded", "generated"} =>
                worker[w].snap.status \notin Unanalysed
<1>1. worker[w].pc \in Pcs
  BY DEF Step, LoadForAnalysis, SaveAnalysis, LogAnalysis, ReadForTrace, SaveTrail, Finish,
         AnswerQuestion, WaiveQuestion, GenerateRoleView, WriteBrief, WriteJiraDraft,
         PrepareJiraDraftContext, SaveBrief, SaveJiraDraft, CheckJiraReadiness, Log,
         ReadForPrompt, SaveContextPack, SavePromptPreview, Pcs
<1>2. worker[w] \in Busy /\ worker[w] # Idle
  BY <1>1, WorkerAtPc DEF SoundInv, Busy, Idle, Pcs
<1>. QED  BY <1>1, <1>2, HeldSnapshot

\* The steps that store the case, and what they store.
Saving(w) ==
    \/ SaveAnalysis(w) \/ AnswerQuestion(w) \/ WaiveQuestion(w) \/ GenerateRoleView(w)
    \/ SaveBrief(w) \/ SaveJiraDraft(w) \/ CheckJiraReadiness(w)

Saved(w, s) ==
    LET r == worker[w]
    IN  \/ /\ r.pc = "analysing" /\ Continues(w, "log_analysis")
           /\ \E evidence \in SUBSET Sources : s = Analysed(r.snap, r.case, evidence)
        \/ /\ r.pc = "loaded" /\ r.op = "answer" /\ Continues(w, "log")
           /\ \E q \in r.question : s = Decided(r.snap, q, "answered", r.text)
        \/ /\ r.pc = "loaded" /\ r.op = "waive" /\ Continues(w, "log")
           /\ \E q \in r.question : s = Decided(r.snap, q, "waived", r.text)
        \/ /\ r.pc = "loaded" /\ worker'[w] = Idle
           /\ \E role \in r.role : s = WithRoleView(r.snap, role)
        \/ r.pc = "generated" /\ r.op = "brief" /\ Continues(w, "log") /\ s = WithBrief(r.snap)
        \/ r.pc = "generated" /\ r.op = "jira_draft" /\ Continues(w, "log") /\ s = WithDraft(r.snap)
        \/ /\ r.pc = "loaded" /\ r.op = "jira_readiness" /\ Continues(w, "log")
           /\ s = WithReadiness(r.snap)

LEMMA SavingForm ==
  ASSUME SoundInv, NEW w \in Workers, Saving(w)
  PROVE  \E s \in Snapshot :
            /\ Saved(w, s) /\ Others(w)
            /\ worker'[w] # Idle => worker'[w].snap = s /\ KeepsReading(w)
            /\ cases' = [cases EXCEPT ![worker[w].case] = s]
            /\ cases'[worker[w].case] = s
            /\ \A c \in Cases \ {worker[w].case} : cases'[c] = cases[c]
            /\ UNCHANGED <<files, trails, packs, previews, audit, aborts>>
<1>. DEFINE r == worker[w]
            Form(s) == /\ Saved(w, s) /\ Others(w)
                       /\ worker'[w] # Idle => worker'[w].snap = s /\ KeepsReading(w)
                       /\ cases' = [cases EXCEPT ![r.case] = s]
                       /\ cases'[r.case] = s
                       /\ \A c \in Cases \ {r.case} : cases'[c] = cases[c]
                       /\ UNCHANGED <<files, trails, packs, previews, audit, aborts>>
<1>1. /\ r \in Busy /\ r.snap \in Snapshot /\ r.case \in Cases
      /\ r.question \subseteq Questions /\ r.text \subseteq Texts /\ r.role \subseteq Roles
  BY Holder DEF Saving, Step
<1>2. UNCHANGED <<files, trails, packs, previews, audit, aborts>>
  BY DEF Saving, SaveAnalysis, AnswerQuestion, WaiveQuestion, GenerateRoleView, SaveBrief,
         SaveJiraDraft, CheckJiraReadiness, artifacts, bounds
<1>3. ASSUME NEW s, NEW pc \in Pcs, Save(w, s, pc)
      PROVE  /\ Continues(w, pc) /\ Others(w) /\ worker'[w].snap = s /\ KeepsReading(w)
             /\ cases' = [cases EXCEPT ![r.case] = s]
             /\ cases'[r.case] = s
             /\ \A c \in Cases \ {r.case} : cases'[c] = cases[c]
  BY <1>1, <1>3, SaveForm DEF SoundInv, Continues
<1>4. CASE SaveAnalysis(w)
  <2>1. PICK evidence \in SUBSET Sources :
            Save(w, Analysed(r.snap, r.case, evidence), "log_analysis")
    BY <1>4 DEF SaveAnalysis
  <2>2. Analysed(r.snap, r.case, evidence) \in Snapshot
    BY <1>1, AnalysedType
  <2>3. Form(Analysed(r.snap, r.case, evidence))
    BY <1>2, <1>3, <1>4, <2>1 DEF SaveAnalysis, Saved, Pcs
  <2>. QED  BY <2>2, <2>3
<1>5. CASE AnswerQuestion(w)
  <2>1. PICK q \in r.question : Save(w, Decided(r.snap, q, "answered", r.text), "log")
    BY <1>5 DEF AnswerQuestion
  <2>2. Decided(r.snap, q, "answered", r.text) \in Snapshot
    BY <1>1, DecidedType
  <2>3. Form(Decided(r.snap, q, "answered", r.text))
    BY <1>2, <1>3, <1>5, <2>1 DEF AnswerQuestion, Saved, Pcs
  <2>. QED  BY <2>2, <2>3
<1>6. CASE WaiveQuestion(w)
  <2>1. PICK q \in r.question : Save(w, Decided(r.snap, q, "waived", r.text), "log")
    BY <1>6 DEF WaiveQuestion
  <2>2. Decided(r.snap, q, "waived", r.text) \in Snapshot
    BY <1>1, DecidedType
  <2>3. Form(Decided(r.snap, q, "waived", r.text))
    BY <1>2, <1>3, <1>6, <2>1 DEF WaiveQuestion, Saved, Pcs
  <2>. QED  BY <2>2, <2>3
<1>7. CASE GenerateRoleView(w)
  <2>1. PICK role \in r.role : cases' = [cases EXCEPT ![r.case] = WithRoleView(r.snap, role)]
    BY <1>7 DEF GenerateRoleView
  <2>2. WithRoleView(r.snap, role) \in Snapshot
    BY <1>1, RoleViewType
  <2>3. worker'[w] = Idle /\ Others(w)
    BY <1>7, ReturnForm DEF GenerateRoleView, SoundInv
  <2>4. Form(WithRoleView(r.snap, role))
    BY <1>1, <1>2, <1>7, <2>1, <2>3 DEF GenerateRoleView, Saved, SoundInv, TypeOK
  <2>. QED  BY <2>2, <2>4
<1>8. CASE SaveBrief(w)
  <2>1. Form(WithBrief(r.snap))
    BY <1>2, <1>3, <1>8 DEF SaveBrief, Saved, Pcs
  <2>. QED  BY <1>1, <2>1, BriefType
<1>9. CASE SaveJiraDraft(w)
  <2>1. Form(WithDraft(r.snap))
    BY <1>2, <1>3, <1>9 DEF SaveJiraDraft, Saved, Pcs
  <2>. QED  BY <1>1, <2>1, DraftType
<1>10. CASE CheckJiraReadiness(w)
  <2>1. Form(WithReadiness(r.snap))
    BY <1>2, <1>3, <1>10 DEF CheckJiraReadiness, Saved, Pcs
  <2>. QED  BY <1>1, <2>1, WithReadinessType
<1>. QED  BY <1>4, <1>5, <1>6, <1>7, <1>8, <1>9, <1>10 DEF Saving

\* The other steps keep the case; only LoadForAnalysis takes another snapshot.
LEMMA KeepingForm ==
  ASSUME SoundInv, NEW w \in Workers, Step(w), ~Saving(w)
  PROVE  /\ cases' = cases /\ aborts' = aborts /\ Others(w)
         /\ worker'[w] # Idle => /\ Continues(w, worker'[w].pc)
                                 /\ worker'[w].pc # "log" \/ PrepareJiraDraftContext(w)
                                 /\ worker'[w].pc # "generated" \/ WriteBrief(w) \/ WriteJiraDraft(w)
                                 /\ \/ worker'[w].snap = worker[w].snap
                                    \/ worker'[w].snap = cases[worker[w].case]
<1>1. worker[w] \in Busy /\ TypeOK
  BY Holder DEF SoundInv
<1>2. CASE LoadForAnalysis(w)
  BY <1>1, <1>2, LoadForm DEF LoadForAnalysis, Continues, bounds
<1>3. CASE ReadForTrace(w)
  BY <1>1, <1>3, TraceForm DEF ReadForTrace, Continues, bounds
<1>4. CASE ReadForPrompt(w)
  BY <1>1, <1>4, PromptForm DEF ReadForPrompt, Continues, bounds
<1>5. CASE LogAnalysis(w)
  BY <1>1, <1>5, MoveForm DEF LogAnalysis, Continues, bounds, Pcs
<1>6. CASE SaveTrail(w)
  <2>1. CASE Return(w)
    BY <1>1, <1>6, <2>1, ReturnForm DEF SaveTrail, bounds
  <2>2. CASE MoveTo(w, "loaded") \/ MoveTo(w, "save_pack")
    BY <1>1, <1>6, <2>2, MoveForm DEF SaveTrail, Continues, bounds, Pcs
  <2>. QED  BY <1>6, <2>1, <2>2 DEF SaveTrail
<1>7. CASE Finish(w) \/ SavePromptPreview(w)
  BY <1>1, <1>7, ReturnForm DEF Finish, SavePromptPreview, bounds
<1>8. CASE WriteBrief(w) \/ WriteJiraDraft(w)
  BY <1>1, <1>8, MoveForm DEF WriteBrief, WriteJiraDraft, WriteFile, Continues, bounds, Pcs
<1>9. CASE PrepareJiraDraftContext(w)
  BY <1>1, <1>9, MoveForm DEF PrepareJiraDraftContext, WriteFile, Continues, bounds, Pcs
<1>10. CASE Log(w)
  <2>1. CASE Return(w)
    BY <1>1, <1>10, <2>1, ReturnForm DEF Log, bounds
  <2>2. CASE MoveTo(w, "prompt")
    BY <1>1, <1>10, <2>2, MoveForm DEF Log, Continues, bounds, Pcs
  <2>. QED  BY <1>10, <2>1, <2>2 DEF Log
<1>11. CASE SaveContextPack(w)
  BY <1>1, <1>11, MoveForm DEF SaveContextPack, Continues, bounds, Pcs
<1>. QED  BY <1>2, <1>3, <1>4, <1>5, <1>6, <1>7, <1>8, <1>9, <1>10, <1>11 DEF Step, Saving

-----------------------------------------------------------------------------
(* Documents and their files *)

FiledIn(s, kept) ==
    /\ s.draft # {} => kept["jira-draft"] # {}
    /\ s.brief # {} => kept["engineering-brief"] # {}

\* A handler that is about to save a document has written it.
WorksFiled(r, kept) ==
    /\ FiledIn(r.snap, kept)
    /\ r.pc = "generated" /\ r.op = "brief" => kept["engineering-brief"] # {}
    /\ r.pc = "generated" /\ r.op = "jira_draft" => kept["jira-draft"] # {}

FilesInv ==
    /\ \A c \in Cases : FiledIn(cases[c], files[c])
    /\ \A w \in Workers : worker[w] # Idle => WorksFiled(worker[w], files[worker[w].case])

LEMMA FilesStay ==
  ASSUME SoundInv, NEW w \in Workers, Step(w), NEW c \in Cases, NEW f \in FileNames,
         files[c][f] # {}
  PROVE  files'[c][f] # {}
<1>1. CASE WriteBrief(w) \/ WriteJiraDraft(w) \/ PrepareJiraDraftContext(w)
  <2>1. PICK g \in FileNames :
            files' = [files EXCEPT ![worker[w].case][g] = {ContentOf(worker[w].snap)}]
    BY <1>1 DEF WriteBrief, WriteJiraDraft, PrepareJiraDraftContext, WriteFile, FileNames
  <2>. QED  BY <2>1 DEF SoundInv, TypeOK
<1>2. CASE ~(WriteBrief(w) \/ WriteJiraDraft(w) \/ PrepareJiraDraftContext(w))
  <2>1. files' = files
    BY <1>2 DEF Step, LoadForAnalysis, SaveAnalysis, LogAnalysis, ReadForTrace, SaveTrail, Finish,
           AnswerQuestion, WaiveQuestion, GenerateRoleView, SaveBrief, SaveJiraDraft,
           CheckJiraReadiness, Log, ReadForPrompt, SaveContextPack, SavePromptPreview
  <2>. QED  BY <2>1
<1>. QED  BY <1>1, <1>2

LEMMA SavedFiled ==
  ASSUME SoundInv, NEW w \in Workers, Step(w), NEW s, Saved(w, s), NEW kept,
         WorksFiled(worker[w], kept)
  PROVE  FiledIn(s, kept)
<1>. DEFINE snap == worker[w].snap
<1>1. /\ snap \in Snapshot /\ worker[w].case \in Cases
      /\ worker[w].question \subseteq Questions /\ worker[w].text \subseteq Texts
      /\ worker[w].role \subseteq Roles
  BY Holder
<1>2. CASE s.draft = snap.draft /\ s.brief = snap.brief
  BY <1>2 DEF WorksFiled, FiledIn
<1>3. CASE worker[w].pc = "generated" /\ worker[w].op = "brief" /\ s = WithBrief(snap)
  BY <1>1, <1>3, BriefFields DEF WorksFiled, FiledIn
<1>4. CASE worker[w].pc = "generated" /\ worker[w].op = "jira_draft" /\ s = WithDraft(snap)
  BY <1>1, <1>4, DraftFields DEF WorksFiled, FiledIn
<1>5. CASE \E evidence \in SUBSET Sources : s = Analysed(snap, worker[w].case, evidence)
  BY <1>1, <1>2, <1>5, AnalysedFields
<1>6. CASE \E q \in worker[w].question, status \in {"answered", "waived"} :
                s = Decided(snap, q, status, worker[w].text)
  <2>1. PICK q \in worker[w].question, status \in {"answered", "waived"} :
                s = Decided(snap, q, status, worker[w].text)
    BY <1>6
  <2>2. q \in Questions /\ worker[w].text \in SUBSET Texts
    BY <1>1
  <2>3. /\ Decided(snap, q, status, worker[w].text).draft = snap.draft
        /\ Decided(snap, q, status, worker[w].text).brief = snap.brief
    BY <1>1, <2>2, DecidedKeeps
  <2>. QED  BY <1>2, <2>1, <2>3
<1>7. CASE \E role \in worker[w].role : s = WithRoleView(snap, role)
  BY <1>1, <1>2, <1>7, RoleViewFields
<1>8. CASE s = WithReadiness(snap)
  BY <1>1, <1>2, <1>8, ReadinessFields
<1>. QED  BY <1>3, <1>4, <1>5, <1>6, <1>7, <1>8 DEF Saved

LEMMA FilesStep ==
  ASSUME SoundInv, FilesInv, NEW w \in Workers, Step(w)
  PROVE  FilesInv'
<1>. DEFINE r == worker[w]
            c == worker[w].case
<1>1. r \in Busy /\ r # Idle /\ c \in Cases
  BY Holder
<1>2. ASSUME NEW d \in Cases, NEW s, FiledIn(s, files[d]) PROVE FiledIn(s, files'[d])
  <2>1. /\ files[d]["jira-draft"] # {} => files'[d]["jira-draft"] # {}
        /\ files[d]["engineering-brief"] # {} => files'[d]["engineering-brief"] # {}
    BY FilesStay DEF FileNames
  <2>. QED  BY <1>2, <2>1 DEF FiledIn
<1>3. ASSUME NEW d \in Cases, NEW n, WorksFiled(n, files[d]) PROVE WorksFiled(n, files'[d])
  <2>1. /\ files[d]["jira-draft"] # {} => files'[d]["jira-draft"] # {}
        /\ files[d]["engineering-brief"] # {} => files'[d]["engineering-brief"] # {}
    BY FilesStay DEF FileNames
  <2>. QED  BY <1>2, <1>3, <2>1 DEF WorksFiled
<1>4. ASSUME NEW v \in Workers, v # w, worker[v] # Idle
      PROVE  WorksFiled(worker[v], files'[worker[v].case])
  <2>1. worker[v].case \in Cases
    BY <1>4, BusyWorker DEF SoundInv, Busy
  <2>. QED  BY <1>3, <1>4, <2>1 DEF FilesInv
<1>5. WorksFiled(r, files[c]) /\ WorksFiled(r, files'[c])
  BY <1>1, <1>3 DEF FilesInv
<1>6. ASSUME Others(w), \A d \in Cases : FiledIn(cases'[d], files'[d]),
             worker'[w] # Idle => WorksFiled(worker'[w], files'[worker'[w].case])
      PROVE  FilesInv'
  BY <1>4, <1>6 DEF FilesInv, Others
<1>7. CASE Saving(w)
  <2>1. PICK s \in Snapshot :
            /\ Saved(w, s) /\ Others(w)
            /\ worker'[w] # Idle => worker'[w].snap = s
            /\ cases'[c] = s
            /\ \A d \in Cases \ {c} : cases'[d] = cases[d]
            /\ files' = files
    BY <1>7, SavingForm
  <2>2. FiledIn(s, files[c])
    BY <1>5, <2>1, SavedFiled
  <2>3. \A d \in Cases : FiledIn(cases'[d], files'[d])
    BY <2>1, <2>2 DEF FilesInv
  <2>4. worker'[w] # Idle => worker'[w].case = c /\ worker'[w].pc # "generated"
    BY <2>1 DEF Saved, Continues
  <2>5. worker'[w] # Idle => WorksFiled(worker'[w], files'[worker'[w].case])
    BY <2>1, <2>2, <2>4 DEF WorksFiled
  <2>. QED  BY <1>6, <2>1, <2>3, <2>5
<1>8. CASE ~Saving(w)
  <2>1. /\ cases' = cases /\ Others(w)
        /\ worker'[w] # Idle => /\ Continues(w, worker'[w].pc)
                                /\ worker'[w].snap = r.snap \/ worker'[w].snap = cases[c]
    BY <1>8, KeepingForm
  <2>2. \A d \in Cases : FiledIn(cases'[d], files'[d])
    BY <1>2, <2>1 DEF FilesInv
  <2>3. worker'[w] # Idle => worker'[w].case = c /\ FiledIn(worker'[w].snap, files'[c])
    BY <1>1, <1>5, <2>1, <2>2 DEF Continues, WorksFiled
  <2>4. ASSUME worker'[w] # Idle, worker'[w].pc = "generated"
        PROVE  /\ worker'[w].op = "brief" => files'[c]["engineering-brief"] # {}
               /\ worker'[w].op = "jira_draft" => files'[c]["jira-draft"] # {}
    <3>1. WriteBrief(w) \/ WriteJiraDraft(w)
      BY <1>8, <2>4, KeepingForm
    <3>2. worker'[w].op = r.op
      BY <2>1, <2>4 DEF Continues
    <3>3. ASSUME NEW f \in FileNames, NEW pc, WriteFile(w, f, pc) PROVE files'[c][f] # {}
      <4>. DEFINE text == {ContentOf(r.snap)}
      <4>1. files' = [files EXCEPT ![c][f] = text] /\ text # {}
        BY <3>3 DEF WriteFile
      <4>2. files \in [Cases -> [FileNames -> Maybe(Content)]]
        BY DEF SoundInv, TypeOK
      <4>. HIDE DEF text
      <4>. QED  BY <1>1, <4>1, <4>2
    <3>4. WriteBrief(w) => files'[c]["engineering-brief"] # {} /\ r.op = "brief"
      BY <3>3 DEF WriteBrief, FileNames
    <3>5. WriteJiraDraft(w) => files'[c]["jira-draft"] # {} /\ r.op = "jira_draft"
      BY <3>3 DEF WriteJiraDraft, FileNames
    <3>. QED  BY <3>1, <3>2, <3>4, <3>5
  <2>5. worker'[w] # Idle => WorksFiled(worker'[w], files'[worker'[w].case])
    BY <2>3, <2>4 DEF WorksFiled
  <2>. QED  BY <1>6, <2>1, <2>2, <2>5
<1>. QED  BY <1>7, <1>8

LEMMA FilesAlways == Spec => [](SoundInv /\ FilesInv)
<1>1. Init => FilesInv
  BY DEF Init, FilesInv, FiledIn, NoSnapshot
<1>2. ASSUME SoundInv, FilesInv, [Next]_vars PROVE FilesInv'
  <2>1. CASE UNCHANGED vars
    BY <1>2, <2>1 DEF vars, FilesInv
  <2>2. ASSUME NEW w \in Workers, NEW c \in Cases, CreateCase(w, c) \/ Begin(w, c)
        PROVE  FilesInv'
    <3>1. /\ Others(w) /\ worker'[w].case = c /\ worker'[w].snap = cases'[c] /\ files' = files
          /\ worker'[w].pc # "generated"
          /\ \A d \in Cases \ {c} : cases'[d] = cases[d]
          /\ cases'[c] = Created \/ cases' = cases
      BY <1>2, <2>2, StartForm DEF SoundInv
    <3>2. FiledIn(cases'[c], files'[c])
      BY <1>2, <3>1 DEF FilesInv, FiledIn, Created, NoSnapshot
    <3>3. WorksFiled(worker'[w], files'[c])
      BY <3>1, <3>2 DEF WorksFiled
    <3>. QED  BY <1>2, <3>1, <3>2, <3>3 DEF FilesInv, Others
  <2>3. ASSUME NEW w \in Workers, Abort(w) PROVE FilesInv'
    BY <1>2, <2>3, ReturnForm DEF Abort, FilesInv, Others, SoundInv
  <2>. QED  BY <1>2, <2>1, <2>2, <2>3, FilesStep DEF Next
<1>. QED  BY <1>1, <1>2, SoundAlways, PTL DEF Spec

\* For any number of workers with snapshots however old, and wherever handlers
\* are stopped, a stored brief or draft has its markdown file.
THEOREM DocumentsHaveFiles == Spec => []SavedDocumentsHaveFiles
<1>1. FilesInv => SavedDocumentsHaveFiles
  BY DEF FilesInv, FiledIn, SavedDocumentsHaveFiles
<1>. QED  BY <1>1, FilesAlways, PTL

-----------------------------------------------------------------------------
(* Decisions and their audit rows *)

DecisionLogged(rows, busy, c, use, q) ==
    \/ \E a \in rows : a.use_case = use /\ a.case = c /\ a.question = {q}
    \/ \E w \in Workers : /\ busy[w].pc = "log" /\ busy[w].op = use
                          /\ busy[w].case = c /\ busy[w].question = {q}

ReadyLogged(rows, busy, c) ==
    \/ \E a \in rows : a.case = c /\ a.status = "jira_ready_draft"
    \/ \E w \in Workers : /\ busy[w].pc = "log" /\ busy[w].case = c
                          /\ LoggedStatus(busy[w]) = "jira_ready_draft"

\* What a snapshot of c says has its row, or a handler that will write it.
AuditedIn(s, c, rows, busy) ==
    /\ \A q \in Questions :
        /\ s.questions[q].status = "answered" => DecisionLogged(rows, busy, c, "answer", q)
        /\ s.questions[q].status = "waived" => DecisionLogged(rows, busy, c, "waive", q)
    /\ s.status = "jira_ready_draft" => ReadyLogged(rows, busy, c)

AuditInv ==
    /\ \A w \in Workers : worker[w] # Idle => worker[w].question \in Maybe(Questions)
    /\ aborts = 0 =>
        /\ \A c \in Cases : AuditedIn(cases[c], c, audit, worker)
        /\ \A w \in Workers : worker[w] # Idle =>
                AuditedIn(worker[w].snap, worker[w].case, audit, worker)

\* A row stays, and a handler at its log writes it.
LEMMA LogForm ==
  ASSUME SoundInv, NEW w \in Workers, Step(w)
  PROVE  /\ audit \subseteq audit'
         /\ worker[w].pc = "log" =>
                [use_case |-> worker[w].op, case |-> worker[w].case,
                 question |-> worker[w].question, status |-> LoggedStatus(worker[w])] \in audit'
<1>1. CASE Log(w)
  BY <1>1 DEF Log, LogGeneration
<1>2. CASE LogAnalysis(w)
  BY <1>2 DEF LogAnalysis
<1>3. CASE ~Log(w) /\ ~LogAnalysis(w)
  BY <1>3 DEF Step, LoadForAnalysis, SaveAnalysis, ReadForTrace, SaveTrail, Finish,
         AnswerQuestion, WaiveQuestion, GenerateRoleView, WriteBrief, WriteJiraDraft,
         PrepareJiraDraftContext, SaveBrief, SaveJiraDraft, CheckJiraReadiness,
         ReadForPrompt, SaveContextPack, SavePromptPreview, WriteFile
<1>. QED  BY <1>1, <1>2, <1>3

LEMMA AuditedStays ==
  ASSUME NEW w \in Workers, Others(w), audit \subseteq audit',
         worker[w].pc = "log" =>
                [use_case |-> worker[w].op, case |-> worker[w].case,
                 question |-> worker[w].question, status |-> LoggedStatus(worker[w])] \in audit',
         NEW s, NEW c, AuditedIn(s, c, audit, worker)
  PROVE  AuditedIn(s, c, audit', worker')
<1>1. ASSUME NEW use, NEW q, DecisionLogged(audit, worker, c, use, q)
      PROVE  DecisionLogged(audit', worker', c, use, q)
  <2>1. CASE \E a \in audit : a.use_case = use /\ a.case = c /\ a.question = {q}
    BY <2>1 DEF DecisionLogged
  <2>2. CASE \E v \in Workers : /\ worker[v].pc = "log" /\ worker[v].op = use
                                /\ worker[v].case = c /\ worker[v].question = {q}
    <3>1. PICK v \in Workers : /\ worker[v].pc = "log" /\ worker[v].op = use
                               /\ worker[v].case = c /\ worker[v].question = {q}
      BY <2>2
    <3>2. CASE v = w
      <4>. DEFINE row == [use_case |-> worker[w].op, case |-> worker[w].case,
                          question |-> worker[w].question, status |-> LoggedStatus(worker[w])]
      <4>1. row \in audit' /\ row.use_case = use /\ row.case = c /\ row.question = {q}
        BY <3>1, <3>2
      <4>. HIDE DEF row
      <4>. QED  BY <4>1 DEF DecisionLogged
    <3>3. CASE v # w
      BY <3>1, <3>3 DEF Others, DecisionLogged
    <3>. QED  BY <3>2, <3>3
  <2>. QED  BY <1>1, <2>1, <2>2 DEF DecisionLogged
<1>2. ASSUME ReadyLogged(audit, worker, c) PROVE ReadyLogged(audit', worker', c)
  <2>1. CASE \E a \in audit : a.case = c /\ a.status = "jira_ready_draft"
    BY <2>1 DEF ReadyLogged
  <2>2. CASE \E v \in Workers : /\ worker[v].pc = "log" /\ worker[v].case = c
                                /\ LoggedStatus(worker[v]) = "jira_ready_draft"
    <3>1. PICK v \in Workers : /\ worker[v].pc = "log" /\ worker[v].case = c
                               /\ LoggedStatus(worker[v]) = "jira_ready_draft"
      BY <2>2
    <3>2. CASE v = w
      <4>. DEFINE row == [use_case |-> worker[w].op, case |-> worker[w].case,
                          question |-> worker[w].question, status |-> LoggedStatus(worker[w])]
      <4>1. row \in audit' /\ row.case = c /\ row.status = "jira_ready_draft"
        BY <3>1, <3>2
      <4>. HIDE DEF row
      <4>. QED  BY <4>1 DEF ReadyLogged
    <3>3. CASE v # w
      BY <3>1, <3>3 DEF Others, ReadyLogged
    <3>. QED  BY <3>2, <3>3
  <2>. QED  BY <1>2, <2>1, <2>2 DEF ReadyLogged
<1>. QED  BY <1>1, <1>2 DEF AuditedIn

\* What a handler saves was audited before, or is what it is about to log.
LEMMA SavedAudited ==
  ASSUME SoundInv, NEW w \in Workers, Step(w), NEW s, Saved(w, s),
         worker'[w] # Idle => worker'[w].snap = s,
         worker[w].question \in Maybe(Questions), NEW rows,
         AuditedIn(worker[w].snap, worker[w].case, rows, worker')
  PROVE  AuditedIn(s, worker[w].case, rows, worker')
<1>. DEFINE snap == worker[w].snap
            c == worker[w].case
<1>1. /\ snap \in Snapshot /\ c \in Cases
      /\ worker[w].question \subseteq Questions /\ worker[w].text \in SUBSET Texts
      /\ worker[w].role \subseteq Roles
  BY Holder
<1>2. CASE /\ s.questions = snap.questions
           /\ s.status = "jira_ready_draft" =>
                s.status = snap.status \/ ReadyLogged(rows, worker', c)
  BY <1>2 DEF AuditedIn
<1>3. CASE \E evidence \in SUBSET Sources : s = Analysed(snap, c, evidence)
  <2>1. s.status = "analyzed" /\ s.questions = [q \in Questions |-> Open]
    BY <1>1, <1>3, AnalysedFields
  <2>2. \A q \in Questions : s.questions[q].status = "open"
    BY <2>1 DEF Open
  <2>. QED  BY <2>1, <2>2 DEF AuditedIn
<1>4. ASSUME NEW use \in {"answer", "waive"}, NEW status \in {"answered", "waived"},
             use = "answer" <=> status = "answered", worker[w].op = use,
             Continues(w, "log"), NEW q \in worker[w].question,
             s = Decided(snap, q, status, worker[w].text)
      PROVE  AuditedIn(s, c, rows, worker')
  <2>1. q \in Questions /\ worker[w].question = {q}
    BY <1>1 DEF Maybe
  <2>2. s.status = "questions_answered"
    BY <1>1, <1>4, <2>1, DecidedKeeps
  <2>3. s.questions[q].status = status /\ \A p \in Questions \ {q} : s.questions[p] = snap.questions[p]
    BY <1>1, <1>4, <2>1, DecidedQuestions
  <2>4. DecisionLogged(rows, worker', c, use, q)
    BY <1>4, <2>1 DEF Continues, DecisionLogged
  <2>. QED  BY <1>4, <2>2, <2>3, <2>4 DEF AuditedIn
<1>5. CASE \E role \in worker[w].role : s = WithRoleView(snap, role)
  BY <1>1, <1>2, <1>5, RoleViewFields
<1>6. CASE s = WithBrief(snap)
  BY <1>1, <1>2, <1>6, BriefFields
<1>7. ASSUME worker[w].op \in {"jira_draft", "jira_readiness"}, Continues(w, "log"),
             s.questions = snap.questions
      PROVE  AuditedIn(s, c, rows, worker')
  <2>1. LoggedStatus(worker'[w]) = s.status
    BY <1>7 DEF LoggedStatus, Continues
  <2>2. s.status = "jira_ready_draft" => ReadyLogged(rows, worker', c)
    BY <1>7, <2>1 DEF ReadyLogged, Continues
  <2>. QED  BY <1>2, <1>7, <2>2
<1>8. CASE worker[w].op = "jira_draft" /\ Continues(w, "log") /\ s = WithDraft(snap)
  BY <1>1, <1>7, <1>8, DraftFields
<1>9. CASE worker[w].op = "jira_readiness" /\ Continues(w, "log") /\ s = WithReadiness(snap)
  BY <1>1, <1>7, <1>9, ReadinessFields
<1>. QED  BY <1>3, <1>4, <1>5, <1>6, <1>8, <1>9 DEF Saved

LEMMA AuditStep ==
  ASSUME SoundInv, AuditInv, NEW w \in Workers, Step(w)
  PROVE  AuditInv'
<1>. DEFINE r == worker[w]
            c == worker[w].case
<1>1. r \in Busy /\ r # Idle /\ c \in Cases
  BY Holder
<1>2. /\ aborts' = aborts /\ Others(w)
      /\ worker'[w] # Idle => Continues(w, worker'[w].pc)
  <2>1. CASE Saving(w)
    BY <2>1, SavingForm DEF Saved, Continues
  <2>2. CASE ~Saving(w)
    BY <2>2, KeepingForm
  <2>. QED  BY <2>1, <2>2
<1>3. \A v \in Workers : worker'[v] # Idle => worker'[v].question \in Maybe(Questions)
  BY <1>1, <1>2 DEF AuditInv, Others, Continues
<1>4. SUFFICES ASSUME aborts = 0
               PROVE  /\ \A d \in Cases : AuditedIn(cases'[d], d, audit', worker')
                      /\ \A v \in Workers : worker'[v] # Idle =>
                            AuditedIn(worker'[v].snap, worker'[v].case, audit', worker')
  BY <1>2, <1>3 DEF AuditInv
<1>5. ASSUME NEW s, NEW d, AuditedIn(s, d, audit, worker) PROVE AuditedIn(s, d, audit', worker')
  BY <1>2, <1>5, LogForm, AuditedStays
<1>6. \A d \in Cases : AuditedIn(cases[d], d, audit', worker')
  BY <1>4, <1>5 DEF AuditInv
<1>7. \A v \in Workers : worker[v] # Idle =>
            AuditedIn(worker[v].snap, worker[v].case, audit', worker')
  BY <1>4, <1>5 DEF AuditInv
<1>8. CASE Saving(w)
  <2>1. PICK s \in Snapshot :
            /\ Saved(w, s)
            /\ worker'[w] # Idle => worker'[w].snap = s
            /\ cases'[c] = s
            /\ \A d \in Cases \ {c} : cases'[d] = cases[d]
    BY <1>8, SavingForm
  <2>2. AuditedIn(s, c, audit', worker')
    BY <1>1, <1>7, <2>1, SavedAudited DEF AuditInv
  <2>. QED  BY <1>1, <1>2, <1>6, <1>7, <2>1, <2>2 DEF Others, Continues
<1>9. CASE ~Saving(w)
  <2>1. /\ cases' = cases
        /\ worker'[w] # Idle => worker'[w].snap = r.snap \/ worker'[w].snap = cases[c]
    BY <1>9, KeepingForm
  <2>. QED  BY <1>1, <1>2, <1>6, <1>7, <2>1 DEF Others, Continues
<1>. QED  BY <1>8, <1>9

LEMMA AuditAlways == Spec => [](SoundInv /\ AuditInv)
<1>1. Init => AuditInv
  BY DEF Init, AuditInv, AuditedIn, NoSnapshot, Absent
<1>2. ASSUME SoundInv, AuditInv, [Next]_vars PROVE AuditInv'
  <2>1. CASE UNCHANGED vars
    BY <1>2, <2>1 DEF vars, AuditInv
  <2>2. ASSUME NEW w \in Workers, NEW c \in Cases, CreateCase(w, c) \/ Begin(w, c)
        PROVE  AuditInv'
    <3>1. /\ worker[w] = Idle /\ Others(w) /\ worker'[w].case = c /\ worker'[w].snap = cases'[c]
          /\ worker'[w].question \in Maybe(Questions) /\ audit' = audit /\ aborts' = aborts
          /\ \A d \in Cases \ {c} : cases'[d] = cases[d]
          /\ cases'[c] = Created \/ cases' = cases
      BY <1>2, <2>2, StartForm DEF SoundInv
    <3>2. worker[w].pc # "log"
      BY <3>1 DEF Idle
    <3>3. ASSUME NEW s, NEW d, AuditedIn(s, d, audit, worker) PROVE AuditedIn(s, d, audit', worker')
      BY <3>1, <3>2, <3>3, AuditedStays
    <3>4. AuditedIn(Created, c, audit', worker')
      BY DEF AuditedIn, Created, NoSnapshot, Absent
    <3>5. aborts = 0 => AuditedIn(cases'[c], c, audit', worker')
      BY <1>2, <3>1, <3>3, <3>4 DEF AuditInv
    <3>6. aborts = 0 => \A d \in Cases : AuditedIn(cases'[d], d, audit', worker')
      BY <1>2, <3>1, <3>3, <3>5 DEF AuditInv
    <3>7. aborts = 0 => \A v \in Workers : worker'[v] # Idle =>
                AuditedIn(worker'[v].snap, worker'[v].case, audit', worker')
      BY <1>2, <3>1, <3>3, <3>5 DEF AuditInv, Others
    <3>8. \A v \in Workers : worker'[v] # Idle => worker'[v].question \in Maybe(Questions)
      BY <1>2, <3>1 DEF AuditInv, Others
    <3>. QED  BY <3>1, <3>6, <3>7, <3>8 DEF AuditInv
  <2>3. ASSUME NEW w \in Workers, Abort(w) PROVE AuditInv'
    <3>1. Others(w) /\ worker'[w] = Idle
      BY <1>2, <2>3, ReturnForm DEF Abort, SoundInv
    <3>2. aborts' # 0
      BY <1>2, <2>3 DEF Abort, SoundInv, TypeOK
    <3>. QED  BY <1>2, <3>1, <3>2 DEF AuditInv, Others
  <2>. QED  BY <1>2, <2>1, <2>2, <2>3, AuditStep DEF Next
<1>. QED  BY <1>1, <1>2, SoundAlways, PTL DEF Spec

\* While no handler was stopped half-way, whatever interleaves, a stored
\* decision and a stored ready status have their audit row or the handler that
\* is about to write it: a stale snapshot repeats only what was audited.
THEOREM DecisionsAudited == Spec => []DecisionsAreAudited
<1>1. AuditInv => DecisionsAreAudited
  <2>. SUFFICES ASSUME AuditInv, aborts = 0 PROVE DecisionsAreAudited
    BY DEF DecisionsAreAudited
  <2>1. ASSUME NEW c \in Cases, NEW use \in {"answer", "waive"}, NEW q \in Questions,
               cases[c].questions[q].status = (IF use = "answer" THEN "answered" ELSE "waived")
        PROVE  \/ \E a \in audit : a.use_case = use /\ a.case = c /\ a.question = {q}
               \/ \E w \in Workers : /\ worker[w].pc = "log" /\ worker[w].op = use
                                      /\ worker[w].case = c /\ worker[w].question = {q}
    <3>1. DecisionLogged(audit, worker, c, use, q)
      BY <2>1 DEF AuditInv, AuditedIn
    <3>. QED  BY <3>1 DEF DecisionLogged
  <2>2. ASSUME NEW c \in Cases, cases[c].status = "jira_ready_draft"
        PROVE  \/ \E a \in audit : a.case = c /\ a.status = "jira_ready_draft"
               \/ \E w \in Workers : /\ worker[w].pc = "log" /\ worker[w].case = c
                                      /\ LoggedStatus(worker[w]) = "jira_ready_draft"
    <3>1. ReadyLogged(audit, worker, c)
      BY <2>2 DEF AuditInv, AuditedIn
    <3>. QED  BY <3>1 DEF ReadyLogged
  <2>. QED  BY ONLY <2>1, <2>2, Zenon DEF DecisionsAreAudited
<1>. QED  BY <1>1, AuditAlways, PTL

-----------------------------------------------------------------------------
(* What a save does to the decisions *)

LEMMA SavedQuestions ==
  ASSUME SoundInv, NEW w \in Workers, Step(w), NEW s, Saved(w, s),
         worker[w].pc # "analysing", NEW p \in Questions
  PROVE  \/ s.questions[p] = worker[w].snap.questions[p]
         \/ p \in worker[w].question /\ s.questions[p].status \in {"answered", "waived"}
<1>. DEFINE snap == worker[w].snap
<1>1. /\ snap \in Snapshot /\ worker[w].case \in Cases
      /\ worker[w].question \subseteq Questions /\ worker[w].text \in SUBSET Texts
      /\ worker[w].role \subseteq Roles
  BY Holder
<1>2. ASSUME NEW q \in worker[w].question, NEW status \in {"answered", "waived"},
             s = Decided(snap, q, status, worker[w].text)
      PROVE  \/ s.questions[p] = snap.questions[p]
             \/ p \in worker[w].question /\ s.questions[p].status \in {"answered", "waived"}
  <2>1. q \in Questions
    BY <1>1
  <2>2. s.questions[q].status = status /\ \A x \in Questions \ {q} : s.questions[x] = snap.questions[x]
    BY <1>1, <1>2, <2>1, DecidedQuestions
  <2>. QED  BY <2>2
<1>3. CASE \E role \in worker[w].role : s = WithRoleView(snap, role)
  BY <1>1, <1>3, RoleViewFields
<1>4. CASE s = WithBrief(snap) \/ s = WithDraft(snap) \/ s = WithReadiness(snap)
  BY <1>1, <1>4, BriefFields, DraftFields, ReadinessFields
<1>. QED  BY <1>2, <1>3, <1>4 DEF Saved

\* A handler whose snapshot is still the stored one changes no decision but
\* that on the question its request names, whatever the other handlers do.
THEOREM SavesKeepDecisions == Spec => CurrentSavesKeepDecisions
<1>1. ASSUME SoundInv, Next, NEW c \in Cases, NEW w \in Workers, NEW q \in Questions,
             worker[w] # Idle, worker[w].case = c, worker[w].pc # "analysing",
             worker[w].snap = cases[c], worker'[w] # worker[w]
      PROVE  \/ cases'[c].questions[q] = cases[c].questions[q]
             \/ q \in worker[w].question /\ q \in Closed(cases'[c])
  <2>1. Step(w) \/ Abort(w)
    <3>1. PICK v \in Workers : \/ \E d \in Cases : CreateCase(v, d) \/ Begin(v, d)
                               \/ Step(v)
                               \/ Abort(v)
      BY <1>1 DEF Next
    <3>2. Others(v)
      <4>1. CASE \E d \in Cases : CreateCase(v, d) \/ Begin(v, d)
        BY <1>1, <4>1, StartForm DEF SoundInv
      <4>2. CASE Step(v) /\ Saving(v)
        BY <1>1, <4>2, SavingForm
      <4>3. CASE Step(v) /\ ~Saving(v)
        BY <1>1, <4>3, KeepingForm
      <4>4. CASE Abort(v)
        BY <1>1, <4>4, ReturnForm DEF Abort, SoundInv
      <4>. QED  BY <3>1, <4>1, <4>2, <4>3, <4>4
    <3>3. v = w
      BY <1>1, <3>2 DEF Others
    <3>4. ~\E d \in Cases : CreateCase(v, d) \/ Begin(v, d)
      BY <1>1, <3>3, StartForm DEF SoundInv
    <3>. QED  BY <3>1, <3>3, <3>4
  <2>2. CASE Abort(w)
    BY <2>2 DEF Abort
  <2>3. CASE Step(w) /\ Saving(w)
    <3>1. PICK s \in Snapshot : Saved(w, s) /\ cases'[c] = s
      BY <1>1, <2>3, SavingForm
    <3>2. \/ s.questions[q] = cases[c].questions[q]
          \/ q \in worker[w].question /\ s.questions[q].status \in {"answered", "waived"}
      BY <1>1, <2>3, <3>1, SavedQuestions
    <3>3. s.questions[q].status \in {"answered", "waived"} => q \in Closed(s)
      BY <1>1 DEF Closed, WithStatus
    <3>. QED  BY <3>1, <3>2, <3>3
  <2>4. CASE Step(w) /\ ~Saving(w)
    BY <1>1, <2>4, KeepingForm
  <2>. QED  BY <2>1, <2>2, <2>3, <2>4
<1>2. SoundInv /\ [Next]_vars =>
        [\A c \in Cases, w \in Workers :
            /\ worker[w] # Idle
            /\ worker[w].case = c
            /\ worker[w].pc # "analysing"
            /\ worker[w].snap = cases[c]
            /\ worker'[w] # worker[w]
            => \A q \in Questions :
                  \/ cases'[c].questions[q] = cases[c].questions[q]
                  \/ q \in worker[w].question /\ q \in Closed(cases'[c])]_vars
  BY <1>1
<1>. QED  BY <1>2, SoundAlways, PTL DEF Spec, CurrentSavesKeepDecisions

-----------------------------------------------------------------------------
(* A case used by one worker at a time *)

\* The only handler there is holds the stored snapshot of its case.
CurrentInv ==
    /\ \A w \in Workers : worker[w] # Idle => worker[w].snap = cases[worker[w].case]
    /\ \A c \in Cases : cases[c].status = "none" => cases[c] = NoSnapshot

LEMMA CurrentStep ==
  ASSUME \A v, w \in Workers : v = w, SoundInv, CurrentInv, [Next]_vars
  PROVE  CurrentInv'
<1>1. CASE UNCHANGED vars
  BY <1>1 DEF vars, CurrentInv
<1>2. ASSUME NEW w \in Workers, NEW c \in Cases, CreateCase(w, c) \/ Begin(w, c)
      PROVE  CurrentInv'
  <2>1. /\ worker'[w].case = c /\ worker'[w].snap = cases'[c]
        /\ \A d \in Cases \ {c} : cases'[d] = cases[d]
        /\ cases'[c] = Created \/ cases' = cases
    BY <1>2, StartForm DEF SoundInv
  <2>2. Created.status = "created"
    BY DEF Created, NoSnapshot
  <2>. QED  BY <2>1, <2>2 DEF CurrentInv
<1>3. ASSUME NEW w \in Workers, Abort(w) PROVE CurrentInv'
  <2>1. worker'[w] = Idle /\ cases' = cases
    BY <1>3, ReturnForm DEF Abort, SoundInv
  <2>. QED  BY <2>1 DEF CurrentInv
<1>4. ASSUME NEW w \in Workers, Step(w) PROVE CurrentInv'
  <2>. DEFINE c == worker[w].case
  <2>1. c \in Cases
    BY <1>4, Holder
  <2>2. worker'[w] # Idle => worker'[w].snap = cases'[worker'[w].case]
    <3>1. CASE Saving(w)
      BY <3>1, SavingForm DEF Saved, Continues
    <3>2. CASE ~Saving(w)
      <4>1. worker[w] # Idle
        BY <1>4, Holder
      <4>. QED  BY <1>4, <3>2, <4>1, KeepingForm DEF Continues, CurrentInv
    <3>. QED  BY <3>1, <3>2
  <2>3. \A d \in Cases : cases'[d] = cases[d] \/ cases'[d].status # "none"
    BY <1>4, StepAnalysed DEF SavesAnalysed, Unanalysed, SoundInv, TypeOK
  <2>. QED  BY <2>2, <2>3 DEF CurrentInv
<1>. QED  BY <1>1, <1>2, <1>3, <1>4 DEF Next

LEMMA CurrentAlways ==
  ASSUME \A v, w \in Workers : v = w
  PROVE  Spec => [](SoundInv /\ CurrentInv)
<1>1. Init => CurrentInv
  BY DEF Init, CurrentInv
<1>2. SoundInv /\ CurrentInv /\ [Next]_vars => CurrentInv'
  BY CurrentStep
<1>. QED  BY <1>1, <1>2, SoundAlways, PTL DEF Spec

\* The gate's variables, as the case shows them.
GateDecision == [c \in Cases |-> [q \in Questions |-> cases[c].questions[q].status]]
GateReady == [c \in Cases |-> cases[c].status = "jira_ready_draft"]

LEMMA GateFrame ==
  ASSUME TypeOK, NEW c \in Cases, NEW s, cases' = [cases EXCEPT ![c] = s]
  PROVE  /\ GateDecision' = [GateDecision EXCEPT ![c] = [q \in Questions |-> s.questions[q].status]]
         /\ GateReady' = [GateReady EXCEPT ![c] = (s.status = "jira_ready_draft")]
  BY DEF GateDecision, GateReady, TypeOK

LEMMA SavedIsGateStep ==
  ASSUME SoundInv, CurrentInv, NEW w \in Workers, Step(w), Saving(w)
  PROVE  Gate!Next \/ UNCHANGED Gate!gateVars
<1>. PICK c \in Cases : c = worker[w].case
  BY Holder
<1>. DEFINE snap == worker[w].snap
            D == GateDecision
            R == GateReady
<1>1. /\ worker[w] # Idle /\ snap \in Snapshot /\ c \in Cases /\ Sound(snap) /\ TypeOK
      /\ worker[w].question \subseteq Questions /\ worker[w].text \in SUBSET Texts
      /\ worker[w].role \subseteq Roles
      /\ worker[w].pc \in {"loaded", "generated"} => snap.status \notin Unanalysed
  BY Holder DEF SoundInv
<1>2. PICK s \in Snapshot : Saved(w, s) /\ cases' = [cases EXCEPT ![c] = s]
  BY SavingForm
<1>3. snap = cases[c]
  BY <1>1 DEF CurrentInv
<1>. DEFINE ds == [q \in Questions |-> s.questions[q].status]
<1>4. D' = [D EXCEPT ![c] = ds] /\ R' = [R EXCEPT ![c] = (s.status = "jira_ready_draft")]
  <2>1. \A e : cases' = [cases EXCEPT ![c] = e] =>
             /\ GateDecision' = [GateDecision EXCEPT ![c] = [q \in Questions |-> e.questions[q].status]]
             /\ GateReady' = [GateReady EXCEPT ![c] = (e.status = "jira_ready_draft")]
    BY <1>1, GateFrame
  <2>. QED  BY <1>2, <2>1
<1>5. D[c] = [q \in Questions |-> snap.questions[q].status] /\ R[c] = (snap.status = "jira_ready_draft")
  BY <1>1, <1>3 DEF GateDecision, GateReady
<1>7. ASSUME s.questions = snap.questions PROVE D' = D
  <2>1. ds = D[c]
    BY <1>5, <1>7
  <2>2. D = [D EXCEPT ![c] = D[c]]
    BY DEF GateDecision
  <2>. QED  BY <1>4, <2>1, <2>2
<1>8. CASE \E evidence \in SUBSET Sources : s = Analysed(snap, c, evidence)
  <2>1. s.status = "analyzed" /\ s.questions = [q \in Questions |-> Open]
    BY <1>1, <1>8, AnalysedFields
  <2>2. ds = [q \in Questions |-> "open"]
    BY <2>1 DEF Open
  <2>3. D' = [D EXCEPT ![c] = [q \in Questions |-> "open"]] /\ R' = [R EXCEPT ![c] = FALSE]
    BY <1>4, <2>1, <2>2
  <2>4. Gate!Analyse(c)
    BY <2>3 DEF Gate!Analyse, GateDecision, GateReady
  <2>. QED  BY <1>1, <2>4 DEF Gate!Next
<1>9. ASSUME NEW q \in worker[w].question, NEW d \in {"answered", "waived"},
             worker[w].pc = "loaded", s = Decided(snap, q, d, worker[w].text)
      PROVE  Gate!Next
  <2>1. q \in Questions
    BY <1>1
  <2>2. s.questions[q].status = d /\ \A p \in Questions \ {q} : s.questions[p] = snap.questions[p]
    BY <1>1, <1>9, <2>1, DecidedQuestions
  <2>3. s.status = "questions_answered"
    BY <1>1, <1>9, <2>1, DecidedKeeps
  <2>4. ds = [D[c] EXCEPT ![q] = d]
    BY <1>5, <2>1, <2>2
  <2>5. D' = [D EXCEPT ![c][q] = d] /\ R' = [R EXCEPT ![c] = FALSE]
    <3>. HIDE DEF ds, D, R
    <3>. QED  BY <1>4, <2>3, <2>4
  <2>6. D[c][q] # "absent"
    BY <1>1, <1>5, <1>9, <2>1 DEF Sound, WithStatus
  <2>7. Gate!Decide(c, q, d)
    BY <2>5, <2>6 DEF Gate!Decide, GateDecision, GateReady
  <2>. QED  BY <1>1, <2>1, <2>7 DEF Gate!Next
<1>10. CASE \E role \in worker[w].role : s = WithRoleView(snap, role)
  <2>1. s.questions = snap.questions /\ s.status = snap.status
    BY <1>1, <1>10, RoleViewFields
  <2>2. D' = D
    BY <1>7, <2>1
  <2>3. R' = R
    BY <1>1, <1>4, <1>5, <2>1 DEF GateReady
  <2>. QED  BY <2>2, <2>3 DEF Gate!gateVars, GateDecision, GateReady
<1>11. ASSUME s.questions = snap.questions, s.status # "jira_ready_draft" PROVE Gate!Next
  <2>1. D' = D
    BY <1>7, <1>11
  <2>2. R' = [R EXCEPT ![c] = FALSE]
    BY <1>4, <1>11
  <2>3. Gate!Withdraw(c)
    BY <2>1, <2>2 DEF Gate!Withdraw, GateDecision, GateReady
  <2>. QED  BY <1>1, <2>3 DEF Gate!Next
<1>12. ASSUME s.questions = snap.questions, worker[w].pc \in {"loaded", "generated"},
              NEW exists \in BOOLEAN, s.status = ReadinessStatus(JiraReadiness(snap, exists))
       PROVE  Gate!Next
  <2>1. CASE s.status # "jira_ready_draft"
    BY <1>11, <1>12, <2>1
  <2>2. CASE s.status = "jira_ready_draft"
    <3>1. WithStatus(snap, "open") = {}
      BY <1>1, <1>12, <2>2, BlockingEmpty DEF ReadinessStatus
    <3>2. WithStatus(snap, "absent") = {}
      BY <1>1, <1>12 DEF Sound
    <3>3. \A q \in Questions : D[c][q] \in {"answered", "waived"}
      BY <1>1, <1>5, <3>1, <3>2 DEF WithStatus, Snapshot, QuestionState
    <3>4. D' = D
      BY <1>7, <1>12
    <3>5. R' = [R EXCEPT ![c] = TRUE]
      BY <1>4, <2>2
    <3>6. Gate!Certify(c)
      BY <3>3, <3>4, <3>5 DEF Gate!Certify, GateDecision, GateReady
    <3>. QED  BY <1>1, <3>6 DEF Gate!Next
  <2>. QED  BY <2>1, <2>2
<1>13. CASE s = WithBrief(snap)
  BY <1>1, <1>11, <1>13, BriefFields
<1>14. CASE worker[w].pc = "generated" /\ s = WithDraft(snap)
  BY <1>1, <1>12, <1>14, DraftFields
<1>15. CASE worker[w].pc = "loaded" /\ s = WithReadiness(snap)
  <2>1. (snap.draft # {}) \in BOOLEAN
    OBVIOUS
  <2>. QED  BY <1>1, <1>12, <1>15, <2>1, ReadinessFields
<1>. QED  BY <1>2, <1>8, <1>9, <1>10, <1>13, <1>14, <1>15 DEF Saved

LEMMA GateStep ==
  ASSUME SoundInv, CurrentInv, [Next]_vars
  PROVE  Gate!Next \/ UNCHANGED Gate!gateVars
<1>1. ASSUME cases' = cases PROVE UNCHANGED Gate!gateVars
  BY <1>1 DEF Gate!gateVars
<1>2. CASE UNCHANGED vars
  BY <1>1, <1>2 DEF vars
<1>3. ASSUME NEW w \in Workers, NEW c \in Cases, CreateCase(w, c)
      PROVE  UNCHANGED Gate!gateVars
  <2>1. cases[c].status = "none" /\ cases' = [cases EXCEPT ![c] = Created] /\ TypeOK
    BY <1>3 DEF CreateCase, SoundInv
  <2>2. cases[c] = NoSnapshot
    BY <2>1 DEF CurrentInv
  <2>3. Created.questions = NoSnapshot.questions /\ Created.status = "created" /\ NoSnapshot.status = "none"
    BY DEF Created, NoSnapshot
  <2>4. GateDecision[c] = [q \in Questions |-> Created.questions[q].status]
    BY <2>2, <2>3 DEF GateDecision
  <2>5. GateReady[c] = FALSE
    BY <2>1 DEF GateReady
  <2>. DEFINE ds == [q \in Questions |-> Created.questions[q].status]
              ready == Created.status = "jira_ready_draft"
  <2>6. GateDecision' = [GateDecision EXCEPT ![c] = ds] /\ GateReady' = [GateReady EXCEPT ![c] = ready]
    BY <2>1, GateFrame
  <2>7. ready = FALSE /\ ds = GateDecision[c]
    BY <2>3, <2>4
  <2>. HIDE DEF ds, ready
  <2>8. GateDecision' = GateDecision /\ GateReady' = GateReady
    BY <2>5, <2>6, <2>7 DEF GateDecision, GateReady
  <2>. QED  BY <2>8 DEF Gate!gateVars, GateDecision, GateReady
<1>4. ASSUME NEW w \in Workers, NEW c \in Cases, Begin(w, c) PROVE cases' = cases
  BY <1>4, BeginArguments DEF BeginWith
<1>5. ASSUME NEW w \in Workers, Abort(w) PROVE cases' = cases
  BY <1>5 DEF Abort
<1>6. ASSUME NEW w \in Workers, Step(w), ~Saving(w) PROVE cases' = cases
  BY <1>6, KeepingForm
<1>. QED  BY <1>1, <1>2, <1>3, <1>4, <1>5, <1>6, SavedIsGateStep DEF Next

\* With one worker every behaviour of the service is one of the gate: no step
\* of a handler makes a case ready with an open question or takes a decision
\* back, other than an analysis.
THEOREM GateImplemented ==
  ASSUME \A v, w \in Workers : v = w
  PROVE  Spec => ImplementsGate
<1>1. ASSUME Init PROVE Gate!Init
  <2>1. cases = [c \in Cases |-> NoSnapshot]
    BY <1>1 DEF Init
  <2>2. \A c \in Cases : /\ cases[c].status = "none"
                         /\ \A q \in Questions : cases[c].questions[q].status = "absent"
    BY <2>1 DEF NoSnapshot, Absent
  <2>3. [c \in Cases |-> [q \in Questions |-> cases[c].questions[q].status]]
          = [c \in Cases |-> [q \in Questions |-> "absent"]]
    <3>1. ASSUME NEW c \in Cases
          PROVE  [q \in Questions |-> cases[c].questions[q].status] = [q \in Questions |-> "absent"]
      BY <2>2
    <3>. QED  BY <3>1, Zenon
  <2>4. [c \in Cases |-> cases[c].status = "jira_ready_draft"] = [c \in Cases |-> FALSE]
    BY <2>2
  <2>. QED  BY <2>3, <2>4 DEF Gate!Init
<1>2. SoundInv /\ CurrentInv /\ [Next]_vars => [Gate!Next]_Gate!gateVars
  BY GateStep
<1>. QED  BY <1>1, <1>2, CurrentAlways, PTL DEF Spec, ImplementsGate, Gate!Spec

-----------------------------------------------------------------------------
(* Artifacts of a case used by one worker at a time *)

\* A handler has written the document of its operation and not yet saved it.
Writing(busy, c, op) ==
    \E w \in Workers : /\ busy[w] # Idle /\ busy[w].case = c
                       /\ busy[w].pc = "generated" /\ busy[w].op = op

\* A handler has saved an analysis and not yet its trail.
Tracing(busy, c) ==
    \E w \in Workers : /\ busy[w] # Idle /\ busy[w].case = c
                       /\ busy[w].pc \in {"log_analysis", "trace", "save_trail"}

\* Past the save of the row: the prompt of a document remains to be assembled.
HasSaved(r) == r.pc \in {"log", "prompt"} \/ r.prompt # {}

\* A handler has saved its document and not yet the preview of its prompt.
Previewing(busy, c, op) ==
    \E w \in Workers : /\ busy[w] # Idle /\ busy[w].case = c
                       /\ HasSaved(busy[w]) /\ busy[w].op = op

\* A handler has saved its document and not yet the context pack.
Packing(busy, c) ==
    \E w \in Workers : /\ busy[w] # Idle /\ busy[w].case = c
                       /\ HasSaved(busy[w]) /\ busy[w].pc # "save_preview"
                       /\ busy[w].op \in {"brief", "jira_draft"}

Drafted(row) == {d.content : d \in row.draft}
Previews(contents) == {PreviewOf(content) : content \in contents}
Evidences(contents) == {content.evidence : content \in contents}

\* The pack goes with one of the documents, right after a brief with the row.
PackFits(row, pack) ==
    /\ pack \subseteq Evidences(row.brief \cup Drafted(row))
    /\ row.brief \cup Drafted(row) # {} => pack # {}
    /\ row.status = "brief_generated" => pack = {row.evidence}

\* What is kept beside the row of c, up to what a handler is in the middle of.
Kept(c, row, kept, trail, pack, shown, busy) ==
    /\ kept["engineering-brief"] = row.brief \/ Writing(busy, c, "brief")
    /\ kept["jira-draft"] = Drafted(row) \/ Writing(busy, c, "jira_draft")
    /\ row.status \in Unanalysed \/ trail = {row.evidence} \/ Tracing(busy, c)
    /\ shown["brief"] = Previews(row.brief) \/ Previewing(busy, c, "brief")
    /\ shown["jira_draft"] = Previews(Drafted(row)) \/ Previewing(busy, c, "jira_draft")
    /\ PackFits(row, pack) \/ Packing(busy, c)
    /\ row.status = "brief_generated" => row.brief = {ContentOf(row)}

\* What a handler holds agrees with the row and with what it has written.
Holds(r, row, kept) ==
    /\ r.pc = "generated" => r.op \in {"brief", "jira_draft"}
    /\ r.pc = "generated" /\ r.op = "brief" =>
            kept["engineering-brief"] = {ContentOf(r.snap)}
    /\ r.pc = "generated" /\ r.op = "jira_draft" =>
            kept["jira-draft"] = {ContentOf(r.snap)}
    /\ r.pc \in {"save_trail", "save_pack", "save_preview"} => r.traced = row.evidence
    /\ r.pc \in {"save_pack", "save_preview"} => r.prompt # {}
    /\ r.prompt \subseteq {ContentOf(row)}
    /\ r.pc \in {"check", "analysing", "log_analysis", "loaded", "generated", "log", "prompt"} =>
            r.prompt = {}
    /\ r.pc = "prompt" \/ r.prompt # {} => r.op \in {"brief", "jira_draft"}
    /\ HasSaved(r) /\ r.op = "brief" => row.brief = {ContentOf(row)}
    /\ HasSaved(r) /\ r.op = "jira_draft" => Drafted(row) = {ContentOf(row)}

ArtifactsInv ==
    aborts = 0 =>
        /\ \A c \in Cases : Kept(c, cases[c], files[c], trails[c], packs[c], previews[c], worker)
        /\ \A w \in Workers : worker[w] # Idle =>
                Holds(worker[w], cases[worker[w].case], files[worker[w].case])

\* A step leaves the other cases alone, and of its own only one place changes.
LEMMA ArtifactForm ==
  ASSUME SoundInv, NEW w \in Workers, Step(w), NEW d \in Cases
  PROVE  /\ \/ files'[d] = files[d]
            \/ /\ d = worker[w].case
               /\ WriteBrief(w) \/ WriteJiraDraft(w) \/ PrepareJiraDraftContext(w)
         /\ \/ trails'[d] = trails[d]
            \/ d = worker[w].case /\ SaveTrail(w)
         /\ \/ packs'[d] = packs[d]
            \/ d = worker[w].case /\ SaveContextPack(w)
         /\ \/ previews'[d] = previews[d]
            \/ d = worker[w].case /\ SavePromptPreview(w)
<1>1. worker[w].case \in Cases /\ TypeOK
  BY Holder DEF SoundInv
<1>2. CASE WriteBrief(w) \/ WriteJiraDraft(w) \/ PrepareJiraDraftContext(w)
  <2>1. \E f : files' = [files EXCEPT ![worker[w].case][f] = {ContentOf(worker[w].snap)}]
    BY <1>2 DEF WriteBrief, WriteJiraDraft, PrepareJiraDraftContext, WriteFile
  <2>2. UNCHANGED artifacts
    BY <1>2 DEF WriteBrief, WriteJiraDraft, PrepareJiraDraftContext, WriteFile
  <2>3. d # worker[w].case => files'[d] = files[d]
    BY <1>1, <2>1 DEF TypeOK
  <2>. QED  BY <1>2, <2>2, <2>3 DEF artifacts
<1>3. CASE SaveTrail(w)
  BY <1>1, <1>3 DEF SaveTrail, TypeOK
<1>4. CASE SavePromptPreview(w)
  <2>1. files' = files /\ trails' = trails /\ packs' = packs
    BY <1>4 DEF SavePromptPreview
  <2>2. d # worker[w].case => previews'[d] = previews[d]
    BY <1>1, <1>4 DEF SavePromptPreview, TypeOK
  <2>. QED  BY <1>4, <2>1, <2>2
<1>5. CASE SaveContextPack(w)
  BY <1>1, <1>5 DEF SaveContextPack, TypeOK
<1>6. CASE ~(\/ WriteBrief(w) \/ WriteJiraDraft(w) \/ PrepareJiraDraftContext(w)
             \/ SaveTrail(w) \/ SaveContextPack(w) \/ SavePromptPreview(w))
  <2>1. UNCHANGED <<files, trails, packs, previews>>
    BY <1>6 DEF Step, LoadForAnalysis, SaveAnalysis, LogAnalysis, ReadForTrace, Finish,
           AnswerQuestion, WaiveQuestion, GenerateRoleView, SaveBrief, SaveJiraDraft,
           CheckJiraReadiness, Log, ReadForPrompt, artifacts
  <2>. QED  BY <2>1
<1>. QED  BY <1>2, <1>3, <1>4, <1>5, <1>6

\* What the save of a handler does to the evidence and the documents.
LEMMA SavedDocuments ==
  ASSUME SoundInv, NEW w \in Workers, Step(w), NEW s, Saved(w, s)
  PROVE  /\ \/ s.evidence = worker[w].snap.evidence
            \/ worker[w].pc = "analysing" /\ Continues(w, "log_analysis")
         /\ s.brief = (IF worker[w].pc = "generated" /\ worker[w].op = "brief"
                       THEN {ContentOf(worker[w].snap)} ELSE worker[w].snap.brief)
         /\ s.draft = (IF worker[w].pc = "generated" /\ worker[w].op # "brief"
                       THEN {DraftOf(worker[w].snap)} ELSE worker[w].snap.draft)
         /\ worker[w].pc = "generated" => ContentOf(s) = ContentOf(worker[w].snap)
         /\ s.status = "brief_generated" =>
               \/ worker[w].pc = "generated" /\ worker[w].op = "brief"
               \/ /\ worker[w].pc = "loaded" /\ worker[w].snap.status = "brief_generated"
                  /\ ContentOf(s) = ContentOf(worker[w].snap)
         /\ worker[w].pc = "loaded" =>
               worker'[w] = Idle \/ worker[w].op \notin {"brief", "jira_draft"}
<1>. DEFINE snap == worker[w].snap
            Same == s.brief = snap.brief /\ s.draft = snap.draft
<1>1. /\ snap \in Snapshot /\ worker[w].case \in Cases
      /\ worker[w].question \subseteq Questions /\ worker[w].text \subseteq Texts
      /\ worker[w].role \subseteq Roles
  BY Holder
<1>2. CASE worker[w].pc = "generated" /\ worker[w].op = "brief" /\ s = WithBrief(snap)
  <2>1. ContentOf(s) = ContentOf(snap)
    BY <1>1, <1>2 DEF ContentOf, WithBrief, Snapshot
  <2>. QED  BY <1>1, <1>2, <2>1, BriefFields
<1>3. CASE worker[w].pc = "generated" /\ worker[w].op = "jira_draft" /\ s = WithDraft(snap)
  <2>1. ContentOf(s) = ContentOf(snap)
    BY <1>1, <1>3 DEF ContentOf, WithDraft, Snapshot
  <2>2. s.status # "brief_generated"
    BY <1>1, <1>3, DraftFields DEF ReadinessStatus
  <2>. QED  BY <1>1, <1>3, <2>1, <2>2, DraftFields
<1>4. CASE /\ worker[w].pc = "analysing" /\ Continues(w, "log_analysis")
           /\ \E evidence \in SUBSET Sources : s = Analysed(snap, worker[w].case, evidence)
  BY <1>1, <1>4, AnalysedFields
<1>5. CASE /\ worker[w].pc = "loaded" /\ worker[w].op \in {"answer", "waive"}
           /\ \E q \in worker[w].question, status \in {"answered", "waived"} :
                s = Decided(snap, q, status, worker[w].text)
  <2>1. PICK q \in worker[w].question, status \in {"answered", "waived"} :
                s = Decided(snap, q, status, worker[w].text)
    BY <1>5
  <2>2. q \in Questions /\ worker[w].text \in SUBSET Texts
    BY <1>1
  <2>3. Same /\ s.evidence = snap.evidence /\ s.status = "questions_answered"
    BY <1>1, <2>1, <2>2, DecidedKeeps
  <2>. QED  BY <1>5, <2>3
<1>6. CASE /\ worker[w].pc = "loaded" /\ worker'[w] = Idle
           /\ \E role \in worker[w].role : s = WithRoleView(snap, role)
  <2>1. PICK role \in worker[w].role : s = WithRoleView(snap, role)
    BY <1>6
  <2>2. ContentOf(s) = ContentOf(snap)
    BY <1>1, <2>1, RenderingKeepsContent
  <2>. QED  BY <1>1, <1>6, <2>1, <2>2, RoleViewFields
<1>7. CASE worker[w].pc = "loaded" /\ worker[w].op = "jira_readiness" /\ s = WithReadiness(snap)
  BY <1>1, <1>7, ReadinessFields DEF ReadinessStatus
<1>. QED  BY <1>2, <1>3, <1>4, <1>5, <1>6, <1>7 DEF Saved

LEMMA SavingKeepsArtifacts ==
  ASSUME \A v, u \in Workers : v = u, SoundInv, CurrentInv, NEW w \in Workers,
         Step(w), Saving(w), NEW c \in Cases, c = worker[w].case,
         Kept(c, cases[c], files[c], trails[c], packs[c], previews[c], worker),
         Holds(worker[w], cases[c], files[c])
  PROVE  /\ Kept(c, cases'[c], files'[c], trails'[c], packs'[c], previews'[c], worker')
         /\ worker'[w] # Idle => Holds(worker'[w], cases'[c], files'[c])
<1>. DEFINE r == worker[w]
            snap == worker[w].snap
<1>1. /\ r # Idle /\ snap \in Snapshot /\ snap = cases[c]
      /\ r.pc \in {"loaded", "generated"} => snap.status \notin Unanalysed
  BY Holder DEF CurrentInv
<1>2. PICK s \in Snapshot :
        /\ Saved(w, s) /\ Others(w)
        /\ worker'[w] # Idle => worker'[w].snap = s /\ KeepsReading(w)
        /\ cases'[c] = s
        /\ UNCHANGED <<files, trails, packs, previews, audit, aborts>>
  BY SavingForm
<1>3. /\ \/ s.evidence = snap.evidence
         \/ r.pc = "analysing" /\ Continues(w, "log_analysis")
      /\ s.brief = (IF r.pc = "generated" /\ r.op = "brief" THEN {ContentOf(snap)} ELSE snap.brief)
      /\ s.draft = (IF r.pc = "generated" /\ r.op # "brief" THEN {DraftOf(snap)} ELSE snap.draft)
      /\ r.pc = "generated" => ContentOf(s) = ContentOf(snap)
      /\ s.status = "brief_generated" =>
               \/ r.pc = "generated" /\ r.op = "brief"
               \/ /\ r.pc = "loaded" /\ snap.status = "brief_generated"
                  /\ ContentOf(s) = ContentOf(snap)
      /\ r.pc = "loaded" => worker'[w] = Idle \/ r.op \notin {"brief", "jira_draft"}
  BY <1>2, SavedDocuments
<1>4. /\ r.pc \in {"analysing", "loaded", "generated"}
      /\ r.pc = "analysing" => Continues(w, "log_analysis")
      /\ r.pc = "generated" => Continues(w, "log") /\ r.op \in {"brief", "jira_draft"}
      /\ worker'[w] # Idle => \/ Continues(w, "log_analysis")
                              \/ r.pc # "analysing" /\ Continues(w, "log")
  BY <1>2 DEF Saved
<1>5. files[c]["engineering-brief"] = s.brief
  <2>1. CASE r.pc = "generated" /\ r.op = "brief"
    BY <1>3, <2>1 DEF Holds
  <2>2. CASE ~(r.pc = "generated" /\ r.op = "brief")
    <3>1. ~Writing(worker, c, "brief")
      BY <2>2 DEF Writing
    <3>. QED  BY <1>1, <1>3, <2>2, <3>1 DEF Kept
  <2>. QED  BY <2>1, <2>2
<1>6. r.pc = "generated" /\ r.op # "brief" => Drafted(s) = {ContentOf(snap)}
  <2>1. DraftOf(snap).content = ContentOf(snap)
    BY <1>1, DraftFields
  <2>2. {d.content : d \in {DraftOf(snap)}} = {ContentOf(snap)}
    BY <2>1
  <2>. QED  BY <1>3, <2>2 DEF Drafted
<1>7. ~(r.pc = "generated" /\ r.op # "brief") => Drafted(s) = Drafted(snap)
  BY <1>3 DEF Drafted
<1>8. files[c]["jira-draft"] = Drafted(s)
  <2>1. CASE r.pc = "generated" /\ r.op # "brief"
    BY <1>4, <1>6, <2>1 DEF Holds
  <2>2. CASE ~(r.pc = "generated" /\ r.op # "brief")
    <3>1. ~Writing(worker, c, "jira_draft")
      BY <2>2 DEF Writing
    <3>. QED  BY <1>1, <1>7, <2>2, <3>1 DEF Kept
  <2>. QED  BY <2>1, <2>2
<1>9. /\ ~Tracing(worker, c) /\ ~Packing(worker, c)
      /\ ~Previewing(worker, c, "brief") /\ ~Previewing(worker, c, "jira_draft")
  <2>1. ~HasSaved(r)
    BY <1>4 DEF Holds, HasSaved
  <2>. QED  BY <1>4, <2>1 DEF Tracing, Packing, Previewing
<1>10. s.status \in Unanalysed \/ trails[c] = {s.evidence} \/ Tracing(worker', c)
  <2>1. CASE r.pc = "analysing"
    BY <1>4, <2>1 DEF Continues, Tracing
  <2>2. CASE r.pc # "analysing"
    <3>1. trails[c] = {snap.evidence}
      BY <1>1, <1>4, <1>9, <2>2 DEF Kept
    <3>. QED  BY <1>3, <2>2, <3>1
  <2>. QED  BY <2>1, <2>2
<1>11. previews[c]["brief"] = Previews(s.brief) \/ Previewing(worker', c, "brief")
  <2>1. CASE r.pc = "generated" /\ r.op = "brief"
    BY <1>4, <2>1 DEF Continues, Previewing, HasSaved
  <2>. QED  BY <1>1, <1>3, <1>9, <2>1 DEF Kept
<1>12. previews[c]["jira_draft"] = Previews(Drafted(s)) \/ Previewing(worker', c, "jira_draft")
  <2>1. CASE r.pc = "generated" /\ r.op # "brief"
    BY <1>4, <2>1 DEF Continues, Previewing, HasSaved
  <2>. QED  BY <1>1, <1>7, <1>9, <2>1 DEF Kept
<1>13. PackFits(s, packs[c]) \/ Packing(worker', c)
  <2>1. CASE r.pc = "generated"
    BY <1>4, <2>1 DEF Continues, Packing, HasSaved
  <2>2. CASE r.pc # "generated"
    <3>1. PackFits(snap, packs[c])
      BY <1>1, <1>9 DEF Kept
    <3>2. s.brief = snap.brief /\ Drafted(s) = Drafted(snap)
      BY <1>3, <1>7, <2>2
    <3>3. s.status = "brief_generated" =>
              snap.status = "brief_generated" /\ s.evidence = snap.evidence
      BY <1>3, <2>2
    <3>. QED  BY <3>1, <3>2, <3>3 DEF PackFits
  <2>. QED  BY <2>1, <2>2
<1>14. s.status = "brief_generated" => s.brief = {ContentOf(s)}
  BY <1>1, <1>3 DEF Kept
<1>15. Kept(c, cases'[c], files'[c], trails'[c], packs'[c], previews'[c], worker')
  BY <1>2, <1>5, <1>8, <1>10, <1>11, <1>12, <1>13, <1>14 DEF Kept
<1>16. worker'[w] # Idle => Holds(worker'[w], cases'[c], files'[c])
  <2>. SUFFICES ASSUME worker'[w] # Idle PROVE Holds(worker'[w], s, files[c])
    BY <1>2
  <2>1. worker'[w].prompt = {} /\ worker'[w].op = r.op /\ worker'[w].pc \in {"log_analysis", "log"}
    BY <1>2, <1>4 DEF Continues, KeepsReading, Holds
  <2>2. CASE worker'[w].pc = "log_analysis"
    BY <2>1, <2>2 DEF Holds, HasSaved
  <2>3. CASE worker'[w].pc = "log"
    <3>1. r.pc # "analysing"
      BY <1>4, <2>3 DEF Continues
    <3>2. r.op \in {"brief", "jira_draft"} => r.pc = "generated"
      BY <1>3, <1>4, <3>1
    <3>3. r.op = "brief" => s.brief = {ContentOf(s)}
      BY <1>3, <3>2
    <3>4. r.op = "jira_draft" => Drafted(s) = {ContentOf(s)}
      BY <1>3, <1>6, <3>2
    <3>. QED  BY <2>1, <2>3, <3>3, <3>4 DEF Holds
  <2>. QED  BY <2>1, <2>2, <2>3
<1>. QED  BY <1>15, <1>16

LEMMA WritingKeepsArtifacts ==
  ASSUME \A v, u \in Workers : v = u, SoundInv, CurrentInv, NEW w \in Workers,
         WriteBrief(w) \/ WriteJiraDraft(w) \/ PrepareJiraDraftContext(w),
         NEW c \in Cases, c = worker[w].case,
         Kept(c, cases[c], files[c], trails[c], packs[c], previews[c], worker),
         Holds(worker[w], cases[c], files[c])
  PROVE  /\ Kept(c, cases'[c], files'[c], trails'[c], packs'[c], previews'[c], worker')
         /\ worker'[w] # Idle => Holds(worker'[w], cases'[c], files'[c])
<1>. DEFINE r == worker[w]
            text == {ContentOf(worker[w].snap)}
<1>1. r # Idle /\ r \in Busy /\ TypeOK
  BY Holder DEF SoundInv, Step
<1>2. /\ r.pc = "loaded" /\ r.prompt = {}
      /\ UNCHANGED <<cases, trails, packs, previews>>
  BY DEF WriteBrief, WriteJiraDraft, PrepareJiraDraftContext, WriteFile, artifacts, Holds
<1>3. /\ ~Tracing(worker, c) /\ \A op : ~Writing(worker, c, op)
      /\ ~Packing(worker, c) /\ \A op : ~Previewing(worker, c, op)
  BY <1>2 DEF Tracing, Writing, Packing, Previewing, HasSaved
<1>4. /\ files[c]["engineering-brief"] = cases[c].brief
      /\ files[c]["jira-draft"] = Drafted(cases[c])
      /\ cases[c].status \in Unanalysed \/ trails[c] = {cases[c].evidence}
      /\ previews[c]["brief"] = Previews(cases[c].brief)
      /\ previews[c]["jira_draft"] = Previews(Drafted(cases[c]))
      /\ PackFits(cases[c], packs[c])
      /\ cases[c].status = "brief_generated" => cases[c].brief = {ContentOf(cases[c])}
  BY <1>3 DEF Kept
<1>5. ASSUME NEW f \in FileNames, NEW pc \in Pcs, WriteFile(w, f, pc)
      PROVE  /\ files'[c][f] = text /\ \A g \in FileNames \ {f} : files'[c][g] = files[c][g]
             /\ Continues(w, pc) /\ KeepsReading(w) /\ worker'[w].snap = r.snap
  <2>1. Continues(w, pc) /\ KeepsReading(w) /\ worker'[w].snap = r.snap
    BY <1>1, <1>5, MoveForm DEF WriteFile
  <2>2. files' = [files EXCEPT ![c][f] = text]
    BY <1>5 DEF WriteFile
  <2>3. files \in [Cases -> [FileNames -> Maybe(Content)]]
    BY <1>1 DEF TypeOK
  <2>. HIDE DEF text
  <2>. QED  BY <2>1, <2>2, <2>3
<1>6. ASSUME NEW f \in FileNames, NEW pc \in Pcs, pc # "analysing", WriteFile(w, f, pc),
             \/ f = "engineering-brief" /\ r.op = "brief" /\ pc = "generated"
             \/ f = "jira-draft" /\ r.op = "jira_draft" /\ pc = "generated"
             \/ f = "jira-draft-context" /\ r.op = "jira_context" /\ pc = "log"
      PROVE  /\ Kept(c, cases'[c], files'[c], trails'[c], packs'[c], previews'[c], worker')
             /\ worker'[w] # Idle => Holds(worker'[w], cases'[c], files'[c])
  <2>1. /\ files'[c][f] = text /\ \A g \in FileNames \ {f} : files'[c][g] = files[c][g]
        /\ Continues(w, pc) /\ KeepsReading(w) /\ worker'[w].snap = r.snap
    BY <1>5, <1>6
  <2>2. pc = "generated" => Writing(worker', c, r.op)
    BY <2>1 DEF Continues, Writing
  <2>3. files'[c]["engineering-brief"] = cases[c].brief \/ Writing(worker', c, "brief")
    BY <1>4, <1>6, <2>1, <2>2 DEF FileNames
  <2>4. files'[c]["jira-draft"] = Drafted(cases[c]) \/ Writing(worker', c, "jira_draft")
    BY <1>4, <1>6, <2>1, <2>2 DEF FileNames
  <2>5. Kept(c, cases'[c], files'[c], trails'[c], packs'[c], previews'[c], worker')
    BY <1>2, <1>4, <2>3, <2>4 DEF Kept
  <2>6. /\ worker'[w].pc = pc /\ worker'[w].op = r.op /\ worker'[w].prompt = {}
        /\ worker'[w].snap = r.snap
    BY <1>2, <2>1 DEF Continues, KeepsReading
  <2>7. HasSaved(worker'[w]) => r.op = "jira_context"
    BY <1>6, <2>6 DEF HasSaved
  <2>8. Holds(worker'[w], cases'[c], files'[c])
    BY <1>6, <2>1, <2>6, <2>7 DEF Holds
  <2>. QED  BY <2>5, <2>8
<1>7. CASE WriteBrief(w)
  BY <1>6, <1>7 DEF WriteBrief, FileNames, Pcs
<1>8. CASE WriteJiraDraft(w)
  BY <1>6, <1>8 DEF WriteJiraDraft, FileNames, Pcs
<1>9. CASE PrepareJiraDraftContext(w)
  BY <1>6, <1>9 DEF PrepareJiraDraftContext, FileNames, Pcs
<1>. QED  BY <1>7, <1>8, <1>9

LEMMA MovingKeepsArtifacts ==
  ASSUME \A v, u \in Workers : v = u, SoundInv, CurrentInv, NEW w \in Workers,
         Step(w), ~Saving(w), ~WriteBrief(w), ~WriteJiraDraft(w), ~PrepareJiraDraftContext(w),
         NEW c \in Cases, c = worker[w].case,
         Kept(c, cases[c], files[c], trails[c], packs[c], previews[c], worker),
         Holds(worker[w], cases[c], files[c])
  PROVE  /\ Kept(c, cases'[c], files'[c], trails'[c], packs'[c], previews'[c], worker')
         /\ worker'[w] # Idle => Holds(worker'[w], cases'[c], files'[c])
<1>. DEFINE r == worker[w]
            row == cases[c]
            v == worker'[w]
            Trailed == row.status \in Unanalysed \/ trails'[c] = {row.evidence} \/ Tracing(worker', c)
            Shown == /\ previews'[c]["brief"] = Previews(row.brief)
                            \/ Previewing(worker', c, "brief")
                     /\ previews'[c]["jira_draft"] = Previews(Drafted(row))
                            \/ Previewing(worker', c, "jira_draft")
            Packed == PackFits(row, packs'[c]) \/ Packing(worker', c)
<1>1. r # Idle /\ r \in Busy /\ TypeOK
  BY Holder DEF SoundInv
<1>2. /\ cases' = cases /\ Others(w)
      /\ v # Idle => Continues(w, v.pc) /\ v.pc # "generated"
  BY KeepingForm
<1>3. files'[c] = files[c]
  BY ArtifactForm
<1>4. r.pc # "generated"
  BY DEF Step, Saving, LoadForAnalysis, LogAnalysis, ReadForTrace, SaveTrail, Finish, WriteBrief,
         WriteJiraDraft, PrepareJiraDraftContext, Log, ReadForPrompt, SaveContextPack,
         SavePromptPreview
<1>5. \A op : ~Writing(worker, c, op)
  BY <1>4 DEF Writing
<1>6. /\ files'[c]["engineering-brief"] = row.brief
      /\ files'[c]["jira-draft"] = Drafted(row)
      /\ row.status = "brief_generated" => row.brief = {ContentOf(row)}
  BY <1>3, <1>5 DEF Kept
\* Enough: the trail, the pack, the previews and what the handler holds.
<1>7. ASSUME Trailed, Shown, Packed, v # Idle => Holds(v, row, files[c])
      PROVE  /\ Kept(c, cases'[c], files'[c], trails'[c], packs'[c], previews'[c], worker')
             /\ worker'[w] # Idle => Holds(worker'[w], cases'[c], files'[c])
  BY <1>2, <1>3, <1>6, <1>7 DEF Kept
<1>8. r.pc \notin {"log_analysis", "trace", "save_trail"} =>
          row.status \in Unanalysed \/ trails[c] = {row.evidence}
  BY DEF Kept, Tracing
\* The previews stay right while the handler that owes one goes on.
<1>9. ASSUME previews'[c] = previews[c],
             HasSaved(r) /\ r.op \in {"brief", "jira_draft"} =>
                v # Idle /\ HasSaved(v) /\ v.op = r.op /\ v.case = c
      PROVE  Shown
  <2>1. ASSUME NEW op \in {"brief", "jira_draft"}, Previewing(worker, c, op)
        PROVE  Previewing(worker', c, op)
    BY <1>9, <2>1 DEF Previewing
  <2>. QED  BY <1>9, <2>1 DEF Kept
<1>10. ASSUME packs'[c] = packs[c],
              HasSaved(r) /\ r.pc # "save_preview" /\ r.op \in {"brief", "jira_draft"} =>
                v # Idle /\ HasSaved(v) /\ v.pc # "save_preview" /\ v.op = r.op /\ v.case = c
       PROVE  Packed
  <2>1. ASSUME Packing(worker, c) PROVE Packing(worker', c)
    BY <1>10, <2>1 DEF Packing
  <2>. QED  BY <1>10, <2>1 DEF Kept
<1>11. CASE LoadForAnalysis(w)
  <2>1. r.pc = "check" /\ Continues(w, "analysing") /\ KeepsReading(w)
    BY <1>1, <1>11, LoadForm DEF LoadForAnalysis
  <2>2. trails' = trails /\ packs' = packs /\ previews' = previews
    BY <1>11 DEF LoadForAnalysis, artifacts
  <2>3. r.prompt = {} /\ ~HasSaved(r)
    BY <2>1 DEF Holds, HasSaved
  <2>4. Holds(v, row, files[c])
    BY <2>1, <2>3 DEF Continues, KeepsReading, Holds, HasSaved
  <2>. QED  BY <1>7, <1>8, <1>9, <1>10, <2>1, <2>2, <2>3, <2>4
<1>12. CASE LogAnalysis(w)
  <2>1. r.pc = "log_analysis" /\ Continues(w, "trace") /\ KeepsReading(w)
    BY <1>1, <1>12, MoveForm DEF LogAnalysis, Pcs
  <2>2. trails' = trails /\ packs' = packs /\ previews' = previews
    BY <1>12 DEF LogAnalysis, artifacts
  <2>3. r.prompt = {} /\ ~HasSaved(r)
    BY <2>1 DEF Holds, HasSaved
  <2>4. Holds(v, row, files[c])
    BY <2>1, <2>3 DEF Continues, KeepsReading, Holds, HasSaved
  <2>5. Tracing(worker', c)
    BY <2>1 DEF Continues, Tracing
  <2>. QED  BY <1>7, <1>9, <1>10, <2>2, <2>3, <2>4, <2>5
<1>13. CASE ReadForTrace(w)
  <2>1. /\ r.pc = "trace" /\ Continues(w, "save_trail") /\ v.prompt = r.prompt
        /\ v.traced = row.evidence
    BY <1>1, <1>13, TraceForm DEF ReadForTrace
  <2>2. trails' = trails /\ packs' = packs /\ previews' = previews
    BY <1>13 DEF ReadForTrace, artifacts
  <2>3. HasSaved(r) <=> HasSaved(v)
    BY <2>1 DEF Continues, HasSaved
  <2>4. v # Idle /\ v.pc = "save_trail" /\ v.op = r.op /\ v.case = c
    BY <2>1 DEF Continues
  <2>5. Holds(v, row, files[c])
    BY <2>1, <2>3, <2>4 DEF Holds
  <2>6. Tracing(worker', c)
    BY <2>4 DEF Tracing
  <2>. QED  BY <1>7, <1>9, <1>10, <2>2, <2>3, <2>4, <2>5, <2>6
<1>14. CASE SaveTrail(w)
  <2>1. /\ r.pc = "save_trail" /\ trails'[c] = {r.traced}
        /\ packs' = packs /\ previews' = previews
    BY <1>1, <1>14 DEF SaveTrail, TypeOK
  <2>2. trails'[c] = {row.evidence}
    BY <2>1 DEF Holds
  <2>3. CASE r.op = "analyze" /\ Return(w)
    <3>1. v = Idle
      BY <1>1, <2>3, ReturnForm
    <3>2. ~HasSaved(r)
      BY <2>1, <2>3 DEF Holds, HasSaved
    <3>. QED  BY <1>7, <1>9, <1>10, <2>1, <2>2, <3>1, <3>2
  <2>4. CASE r.prompt = {} /\ MoveTo(w, "loaded")
    <3>1. Continues(w, "loaded") /\ KeepsReading(w)
      BY <1>1, <2>4, MoveForm DEF Pcs
    <3>2. ~HasSaved(r)
      BY <2>1, <2>4 DEF HasSaved
    <3>3. Holds(v, row, files[c])
      BY <2>4, <3>1 DEF Continues, KeepsReading, Holds, HasSaved
    <3>. QED  BY <1>7, <1>9, <1>10, <2>1, <2>2, <3>2, <3>3
  <2>5. CASE r.prompt # {} /\ MoveTo(w, "save_pack")
    <3>1. Continues(w, "save_pack") /\ KeepsReading(w)
      BY <1>1, <2>5, MoveForm DEF Pcs
    <3>2. /\ v # Idle /\ v.pc = "save_pack" /\ v.op = r.op /\ v.case = c
          /\ v.prompt = r.prompt /\ v.traced = r.traced
      BY <3>1 DEF Continues, KeepsReading
    <3>3. HasSaved(r) /\ HasSaved(v)
      BY <2>5, <3>2 DEF HasSaved
    <3>4. Holds(v, row, files[c])
      BY <2>1, <2>5, <3>2, <3>3 DEF Holds
    <3>. QED  BY <1>7, <1>9, <1>10, <2>1, <2>2, <3>2, <3>3, <3>4
  <2>. QED  BY <1>14, <2>3, <2>4, <2>5 DEF SaveTrail
<1>15. CASE Finish(w)
  <2>1. /\ r.pc = "loaded" /\ v = Idle
        /\ trails' = trails /\ packs' = packs /\ previews' = previews
    BY <1>1, <1>15, ReturnForm DEF Finish, artifacts
  <2>2. ~HasSaved(r)
    BY <2>1 DEF Holds, HasSaved
  <2>. QED  BY <1>7, <1>8, <1>9, <1>10, <2>1, <2>2
<1>16. CASE Log(w)
  <2>1. r.pc = "log" /\ trails' = trails /\ packs' = packs /\ previews' = previews
    BY <1>16 DEF Log, artifacts
  <2>2. CASE r.op \notin {"brief", "jira_draft"} /\ Return(w)
    <3>1. v = Idle
      BY <1>1, <2>2, ReturnForm
    <3>. QED  BY <1>7, <1>8, <1>9, <1>10, <2>1, <2>2, <3>1
  <2>3. CASE r.op \in {"brief", "jira_draft"} /\ MoveTo(w, "prompt")
    <3>1. Continues(w, "prompt") /\ KeepsReading(w)
      BY <1>1, <2>3, MoveForm DEF Pcs
    <3>2. v # Idle /\ v.pc = "prompt" /\ v.op = r.op /\ v.case = c /\ v.prompt = r.prompt
      BY <3>1 DEF Continues, KeepsReading
    <3>3. HasSaved(r) /\ HasSaved(v)
      BY <2>1, <3>2 DEF HasSaved
    <3>4. Holds(v, row, files[c])
      BY <2>1, <2>3, <3>2, <3>3 DEF Holds
    <3>. QED  BY <1>7, <1>8, <1>9, <1>10, <2>1, <3>2, <3>3, <3>4
  <2>. QED  BY <1>16, <2>2, <2>3 DEF Log
<1>17. CASE ReadForPrompt(w)
  <2>1. r.pc = "prompt" /\ Continues(w, "trace") /\ v.prompt = {ContentOf(row)}
    BY <1>1, <1>17, PromptForm DEF ReadForPrompt
  <2>2. trails' = trails /\ packs' = packs /\ previews' = previews
    BY <1>17 DEF ReadForPrompt, artifacts
  <2>3. v # Idle /\ v.pc = "trace" /\ v.op = r.op /\ v.case = c
    BY <2>1 DEF Continues
  <2>4. HasSaved(r) /\ HasSaved(v)
    BY <2>1 DEF HasSaved
  <2>5. Holds(v, row, files[c])
    BY <2>1, <2>3, <2>4 DEF Holds
  <2>. QED  BY <1>7, <1>8, <1>9, <1>10, <2>1, <2>2, <2>3, <2>4, <2>5
<1>18. CASE SaveContextPack(w)
  <2>1. /\ r.pc = "save_pack" /\ Continues(w, "save_preview") /\ KeepsReading(w)
        /\ packs'[c] = {r.traced}
    BY <1>1, <1>18, MoveForm DEF SaveContextPack, Pcs, TypeOK
  <2>2. trails' = trails /\ previews' = previews
    BY <1>18 DEF SaveContextPack
  <2>3. /\ v # Idle /\ v.pc = "save_preview" /\ v.op = r.op /\ v.case = c
        /\ v.prompt = r.prompt /\ v.traced = r.traced
    BY <2>1 DEF Continues, KeepsReading
  <2>4. /\ r.prompt # {} /\ HasSaved(r) /\ HasSaved(v)
        /\ r.op \in {"brief", "jira_draft"} /\ r.traced = row.evidence
    BY <2>1, <2>3 DEF Holds, HasSaved
  <2>5. ContentOf(row) \in row.brief \cup Drafted(row)
    BY <2>4 DEF Holds
  <2>6. ContentOf(row).evidence = row.evidence
    BY DEF ContentOf
  <2>7. row.evidence \in Evidences(row.brief \cup Drafted(row))
    BY <2>5, <2>6 DEF Evidences
  <2>8. PackFits(row, packs'[c])
    BY <2>1, <2>4, <2>7 DEF PackFits
  <2>9. Holds(v, row, files[c])
    BY <2>1, <2>3, <2>4 DEF Holds
  <2>. QED  BY <1>7, <1>8, <1>9, <2>1, <2>2, <2>3, <2>4, <2>8, <2>9
<1>19. CASE SavePromptPreview(w)
  <2>. DEFINE preview == [prompt |-> r.prompt, evidence |-> r.traced]
  <2>1. r.pc = "save_preview" /\ v = Idle /\ trails' = trails /\ packs' = packs
    BY <1>1, <1>19, ReturnForm DEF SavePromptPreview
  <2>2. /\ r.prompt = {ContentOf(row)} /\ r.traced = row.evidence /\ HasSaved(r)
        /\ r.op \in {"brief", "jira_draft"}
    BY <2>1 DEF Holds, HasSaved
  <2>3. preview = PreviewOf(ContentOf(row))
    BY <2>2 DEF PreviewOf, ContentOf
  <2>4. /\ previews'[c][r.op] = {preview}
        /\ \A op \in {"brief", "jira_draft"} \ {r.op} : previews'[c][op] = previews[c][op]
    <3>1. previews' = [previews EXCEPT ![c][r.op] = {preview}]
      BY <1>19 DEF SavePromptPreview
    <3>2. previews \in [Cases -> [{"brief", "jira_draft"} ->
                        Maybe([prompt : Maybe(Content), evidence : SUBSET Sources])]]
      BY <1>1 DEF TypeOK
    <3>. HIDE DEF preview
    <3>. QED  BY <2>2, <3>1, <3>2
  <2>5. Previews({ContentOf(row)}) = {preview}
    BY <2>3 DEF Previews
  <2>6. /\ r.op = "brief" => row.brief = {ContentOf(row)}
        /\ r.op = "jira_draft" => Drafted(row) = {ContentOf(row)}
    BY <2>2 DEF Holds
  <2>7. \A op : Previewing(worker, c, op) => op = r.op
    BY DEF Previewing
  <2>8. Shown
    BY <2>2, <2>4, <2>5, <2>6, <2>7 DEF Kept
  <2>9. Packed
    BY <1>10, <2>1
  <2>. QED  BY <1>7, <1>8, <2>1, <2>8, <2>9
<1>. QED  BY <1>11, <1>12, <1>13, <1>14, <1>15, <1>16, <1>17, <1>18, <1>19 DEF Step, Saving

LEMMA ArtifactsStep ==
  ASSUME \A v, u \in Workers : v = u, SoundInv, CurrentInv, ArtifactsInv,
         NEW w \in Workers, Step(w)
  PROVE  ArtifactsInv'
<1>. DEFINE c == worker[w].case
<1>1. c \in Cases /\ worker[w] # Idle
  BY Holder
<1>2. /\ aborts' = aborts
      /\ worker'[w] # Idle => worker'[w].case = c
      /\ \A d \in Cases \ {c} : cases'[d] = cases[d]
  <2>1. CASE Saving(w)
    BY <2>1, SavingForm DEF Saved, Continues
  <2>2. CASE ~Saving(w)
    BY <2>2, KeepingForm DEF Continues
  <2>. QED  BY <2>1, <2>2
<1>3. SUFFICES ASSUME aborts = 0
               PROVE  /\ \A d \in Cases :
                            Kept(d, cases'[d], files'[d], trails'[d], packs'[d], previews'[d], worker')
                      /\ worker'[w] # Idle => Holds(worker'[w], cases'[c], files'[c])
  BY <1>2 DEF ArtifactsInv
<1>4. /\ Kept(c, cases[c], files[c], trails[c], packs[c], previews[c], worker)
      /\ Holds(worker[w], cases[c], files[c])
  BY <1>1, <1>3 DEF ArtifactsInv
<1>5. /\ Kept(c, cases'[c], files'[c], trails'[c], packs'[c], previews'[c], worker')
      /\ worker'[w] # Idle => Holds(worker'[w], cases'[c], files'[c])
  <2>1. CASE Saving(w)
    BY <1>1, <1>4, <2>1, SavingKeepsArtifacts
  <2>2. CASE WriteBrief(w) \/ WriteJiraDraft(w) \/ PrepareJiraDraftContext(w)
    BY <1>1, <1>4, <2>2, WritingKeepsArtifacts
  <2>. QED  BY <1>1, <1>4, <2>1, <2>2, MovingKeepsArtifacts
<1>6. ASSUME NEW d \in Cases, d # c
      PROVE  Kept(d, cases'[d], files'[d], trails'[d], packs'[d], previews'[d], worker')
  <2>1. /\ ~Tracing(worker, d) /\ \A op : ~Writing(worker, d, op)
        /\ ~Packing(worker, d) /\ \A op : ~Previewing(worker, d, op)
    BY <1>6 DEF Tracing, Writing, Packing, Previewing
  <2>2. /\ files'[d] = files[d] /\ trails'[d] = trails[d]
        /\ packs'[d] = packs[d] /\ previews'[d] = previews[d]
    BY <1>6, ArtifactForm
  <2>3. Kept(d, cases[d], files[d], trails[d], packs[d], previews[d], worker)
    BY <1>3 DEF ArtifactsInv
  <2>. QED  BY <1>2, <1>6, <2>1, <2>2, <2>3 DEF Kept
<1>. QED  BY <1>5, <1>6

\* With one worker and no handler stopped half-way, files, previews and pack of
\* a case no handler works on go with the documents of its row, the trail with
\* its evidence, and right after a brief all of them with the row as it is.
THEOREM ArtifactsDescribed ==
  ASSUME \A v, w \in Workers : v = w
  PROVE  Spec => []ArtifactsDescribeCase
<1>1. ASSUME Init PROVE ArtifactsInv
  <2>1. ASSUME NEW c \in Cases
        PROVE  Kept(c, cases[c], files[c], trails[c], packs[c], previews[c], worker)
    <3>1. /\ files[c]["engineering-brief"] = {} /\ files[c]["jira-draft"] = {}
          /\ packs[c] = {} /\ cases[c].brief = {} /\ cases[c].draft = {}
          /\ cases[c].status = "none"
          /\ previews[c]["brief"] = {} /\ previews[c]["jira_draft"] = {}
      BY <1>1 DEF Init, NoSnapshot, FileNames
    <3>2. Drafted(cases[c]) = {} /\ Previews({}) = {}
      BY <3>1 DEF Drafted, Previews
    <3>3. PackFits(cases[c], packs[c])
      BY <3>1, <3>2 DEF PackFits
    <3>. QED  BY <3>1, <3>2, <3>3 DEF Kept, Unanalysed
  <2>. QED  BY <1>1, <2>1 DEF Init, ArtifactsInv
<1>2. ASSUME SoundInv, CurrentInv, ArtifactsInv, [Next]_vars PROVE ArtifactsInv'
  <2>1. CASE UNCHANGED vars
    BY <1>2, <2>1 DEF vars, ArtifactsInv
  <2>2. ASSUME NEW w \in Workers, NEW c \in Cases, CreateCase(w, c) \/ Begin(w, c)
        PROVE  ArtifactsInv'
    <3>1. /\ worker[w] = Idle /\ worker'[w].case = c /\ worker'[w].prompt = {}
          /\ \/ worker'[w].pc = "log" /\ worker'[w].op = "create"
             \/ worker'[w].pc \in {"check", "analysing", "loaded"}
          /\ \A d \in Cases \ {c} : cases'[d] = cases[d]
          /\ UNCHANGED <<files, trails, packs, previews, audit, aborts>>
          /\ \/ CreateCase(w, c) /\ cases'[c] = Created
             \/ cases' = cases
      BY <1>2, <2>2, StartForm DEF SoundInv
    <3>. SUFFICES ASSUME aborts = 0
                  PROVE  /\ \A d \in Cases :
                               Kept(d, cases'[d], files'[d], trails'[d], packs'[d], previews'[d], worker')
                         /\ Holds(worker'[w], cases'[c], files'[c])
      BY <3>1 DEF ArtifactsInv
    <3>2. \A d \in Cases : /\ ~Tracing(worker, d) /\ \A op : ~Writing(worker, d, op)
                           /\ ~Packing(worker, d) /\ \A op : ~Previewing(worker, d, op)
      BY <3>1 DEF Tracing, Writing, Packing, Previewing
    <3>3. ASSUME NEW d \in Cases
          PROVE  \/ cases'[d] = cases[d]
                 \/ /\ cases'[d].brief = cases[d].brief /\ cases'[d].draft = cases[d].draft
                    /\ cases'[d].status = "created"
      <4>1. CASE CreateCase(w, c) /\ cases'[c] = Created
        <5>1. cases[c] = NoSnapshot
          BY <1>2, <4>1 DEF CreateCase, CurrentInv
        <5>2. /\ Created.brief = NoSnapshot.brief /\ Created.draft = NoSnapshot.draft
              /\ Created.status = "created"
          BY DEF Created, NoSnapshot
        <5>. QED  BY <3>1, <4>1, <5>1, <5>2
      <4>. QED  BY <3>1, <4>1
    <3>4. ASSUME NEW d \in Cases
          PROVE  Kept(d, cases'[d], files'[d], trails'[d], packs'[d], previews'[d], worker')
      <4>1. Kept(d, cases[d], files[d], trails[d], packs[d], previews[d], worker)
        BY <1>2 DEF ArtifactsInv
      <4>2. PackFits(cases[d], packs[d])
        BY <3>2, <4>1 DEF Kept
      <4>3. Drafted(cases'[d]) = Drafted(cases[d]) /\ cases'[d].brief = cases[d].brief
        BY <3>3 DEF Drafted
      <4>4. PackFits(cases'[d], packs'[d])
        BY <3>1, <3>3, <4>2, <4>3 DEF PackFits
      <4>. QED  BY <3>1, <3>2, <3>3, <4>1, <4>3, <4>4 DEF Kept, Unanalysed
    <3>5. Holds(worker'[w], cases'[c], files'[c])
      BY <3>1 DEF Holds, HasSaved
    <3>. QED  BY <3>4, <3>5
  <2>3. ASSUME NEW w \in Workers, Abort(w) PROVE ArtifactsInv'
    BY <1>2, <2>3 DEF Abort, SoundInv, TypeOK, ArtifactsInv
  <2>. QED  BY <1>2, <2>1, <2>2, <2>3, ArtifactsStep DEF Next
<1>3. ASSUME ArtifactsInv PROVE ArtifactsDescribeCase
  <2>1. ASSUME aborts = 0, \A w \in Workers : worker[w] = Idle, NEW c \in Cases
        PROVE  /\ files[c]["engineering-brief"] = cases[c].brief
               /\ files[c]["jira-draft"] = Drafted(cases[c])
               /\ cases[c].status \in Unanalysed \/ trails[c] = {cases[c].evidence}
               /\ previews[c]["brief"] = Previews(cases[c].brief)
               /\ previews[c]["jira_draft"] = Previews(Drafted(cases[c]))
               /\ PackFits(cases[c], packs[c])
               /\ cases[c].status = "brief_generated" => cases[c].brief = {ContentOf(cases[c])}
    <3>1. Kept(c, cases[c], files[c], trails[c], packs[c], previews[c], worker)
      BY <1>3, <2>1 DEF ArtifactsInv
    <3>. QED  BY <2>1, <3>1 DEF Kept, Tracing, Writing, Previewing, Packing
  <2>. QED  BY <2>1 DEF ArtifactsDescribeCase, Drafted, Previews, Evidences, PackFits, Unanalysed
<1>. QED  BY <1>1, <1>2, <1>3, CurrentAlways, PTL DEF Spec
=============================================================================
