-------------------------- MODULE RequirementCase --------------------------
(***************************************************************************)
(* The requirement-case workflow of dream/requirement_cases/service.py:    *)
(* a case is created, analysed, clarified by answering or waiving its      *)
(* questions, and turned into a brief and a Jira draft whose readiness is  *)
(* recomputed from the case.                                               *)
(*                                                                         *)
(* The whole case is one row of SQLite (repository.py), read by get() and  *)
(* replaced by save().  Route handlers are plain functions that FastAPI    *)
(* runs in a thread pool, and the CLI runs the same service in other       *)
(* processes: nothing spans a handler's get() and its save().  A worker    *)
(* below is one such thread or process, and every store access of a        *)
(* handler is a step of its own.                                           *)
(*                                                                         *)
(* An optional value is the set of its values: {} stands for None.         *)
(***************************************************************************)
EXTENDS Naturals, FiniteSets

CONSTANTS
    Cases,         \* case ids
    Questions,     \* the questions of the bank (stable ids, questions.py)
    Roles,         \* roles a role view is generated for
    Sources,       \* source paths a memory search can return
    MarkedSources, \* sources whose text holds a marker of impact.py
    KeywordCases,  \* cases whose request itself holds a keyword of impact.py
    Texts,         \* non-blank answers and waiver reasons
    Workers,       \* handler threads and CLI processes
    Operations,    \* the operations clients issue
    MaxRequests,   \* bound: requests issued
    MaxAborts      \* bound: handlers that stop half-way

ServiceOperations ==
    {"analyze", "read", "answer", "waive", "role_view", "brief",
     "jira_context", "jira_draft", "jira_readiness"}

ASSUME ConstantsAssumption ==
    /\ MarkedSources \subseteq Sources
    /\ KeywordCases \subseteq Cases
    /\ Operations \subseteq ServiceOperations
    /\ IsFiniteSet(Questions)
    /\ MaxRequests \in Nat
    /\ MaxAborts \in Nat

VARIABLES
    cases,    \* the requirement_cases table: the stored snapshot of each case
    files,    \* markdown files of each case's artifact directory
    trails,   \* evidence of the saved retrieval trail of each case
    packs,    \* evidence of the saved context pack of each case
    previews, \* saved prompt previews of each case
    audit,    \* audit_runs rows (run ids are fresh, so the table only grows)
    worker,   \* where each worker is in its handler, and what it holds
    requests, \* requests issued so far
    aborts    \* handlers stopped so far

vars == <<cases, files, trails, packs, previews, audit, worker, requests, aborts>>
artifacts == <<trails, packs, previews>>
bounds == <<requests, aborts>>

-----------------------------------------------------------------------------
(* Data *)

Maybe(S) == {m \in SUBSET S : \A x, y \in m : x = y}

QuestionState == [status : {"absent", "open", "answered", "waived"},
                  text   : SUBSET Texts]

Absent == [status |-> "absent", text |-> {}]
Open   == [status |-> "open", text |-> {}]

CaseStatus ==
    {"none", "created", "analyzed", "questions_answered", "brief_generated",
     "jira_ready_draft", "jira_draft_needs_answers"}

Reasons == {"no_evidence", "no_impact", "open_questions", "no_draft"}

\* What a brief, a Jira draft or a prompt is rendered from.
Content == [evidence  : SUBSET Sources,
            impact    : BOOLEAN,
            questions : [Questions -> QuestionState]]

Draft == [content : Content, warnings : SUBSET Reasons]

Readiness == [ready    : BOOLEAN,
              answered : SUBSET Questions,
              waived   : SUBSET Questions,
              open     : SUBSET Questions,
              draft    : BOOLEAN,
              blocking : SUBSET Reasons]

Snapshot == [status     : CaseStatus,
             evidence   : SUBSET Sources,
             impact     : BOOLEAN,
             questions  : [Questions -> QuestionState],
             role_views : [Roles -> Maybe(SUBSET Sources)],
             brief      : Maybe(Content),
             draft      : Maybe(Draft),
             readiness  : Maybe(Readiness)]

NoSnapshot == [status     |-> "none",
               evidence   |-> {},
               impact     |-> FALSE,
               questions  |-> [q \in Questions |-> Absent],
               role_views |-> [r \in Roles |-> {}],
               brief      |-> {},
               draft      |-> {},
               readiness  |-> {}]

ContentOf(s) == [evidence |-> s.evidence, impact |-> s.impact, questions |-> s.questions]

WithStatus(s, status) == {q \in Questions : s.questions[q].status = status}

-----------------------------------------------------------------------------
(* The pure parts of the service *)

\* ImpactMapGenerator.generate: an item is produced when the request or the
\* evidence text matches; only whether there is one matters here.
HasImpact(c, evidence) == c \in KeywordCases \/ evidence \cap MarkedSources # {}

\* Mutant: open questions do not block.
BlockingReasonsWithoutQuestions(s, draftExists) ==
    {r \in Reasons :
        \/ r = "no_evidence" /\ s.evidence = {}
        \/ r = "no_impact" /\ ~s.impact
        \/ r = "no_draft" /\ ~draftExists}

\* _jira_readiness, with jira_draft_exists passed as draftExists.
BlockingReasons(s, draftExists) ==
    {r \in Reasons :
        \/ r = "no_evidence" /\ s.evidence = {}
        \/ r = "no_impact" /\ ~s.impact
        \/ r = "open_questions" /\ WithStatus(s, "open") # {}
        \/ r = "no_draft" /\ ~draftExists}

JiraReadiness(s, draftExists) ==
    [ready    |-> BlockingReasons(s, draftExists) = {},
     answered |-> WithStatus(s, "answered"),
     waived   |-> WithStatus(s, "waived"),
     open     |-> WithStatus(s, "open"),
     draft    |-> draftExists,
     blocking |-> BlockingReasons(s, draftExists)]

\* Mutant: a misspelt status.
ReadinessStatusMisspelt(r) == IF r.ready THEN "jira_ready" ELSE "jira_draft_needs_answers"

ReadinessStatus(r) == IF r.ready THEN "jira_ready_draft" ELSE "jira_draft_needs_answers"

\* create_case: everything but the case header has its default.
Created == [NoSnapshot EXCEPT !.status = "created"]

\* Mutant: an analysis that finds nothing leaves the case as if created.
AnalysedIfFound(s, c, evidence) ==
    [s EXCEPT !.evidence  = evidence,
              !.impact    = HasImpact(c, evidence),
              !.questions = [q \in Questions |-> Open],
              !.status    = IF evidence = {} THEN "created" ELSE "analyzed"]

\* analyze_case: evidence, impact map and questions are generated anew; the
\* brief, the draft, the role views and the readiness of before stay.
Analysed(s, c, evidence) ==
    [s EXCEPT !.evidence  = evidence,
              !.impact    = HasImpact(c, evidence),
              !.questions = [q \in Questions |-> Open],
              !.status    = "analyzed"]

\* Mutant: the readiness is computed before the decision is entered.
DecidedLate(s, q, status, text) ==
    [s EXCEPT !.readiness = {JiraReadiness(s, s.draft # {})},
              !.questions[q] = [status |-> status, text |-> text],
              !.status = "questions_answered"]

\* Mutant: the other questions are rebuilt from the bank.
DecidedAlone(s, q, status, text) ==
    LET decided == [s EXCEPT !.questions = [x \in Questions |->
                                IF x = q THEN [status |-> status, text |-> text] ELSE Open],
                             !.status = "questions_answered"]
    IN  [decided EXCEPT !.readiness = {JiraReadiness(decided, decided.draft # {})}]

\* answer_question and waive_question: each clears what the other had set.
Decided(s, q, status, text) ==
    LET decided == [s EXCEPT !.questions[q] = [status |-> status, text |-> text],
                             !.status = "questions_answered"]
    IN  [decided EXCEPT !.readiness = {JiraReadiness(decided, decided.draft # {})}]

\* generate_role_view: the status is kept.
WithRoleView(s, r) == [s EXCEPT !.role_views[r] = {s.evidence}]

\* generate_engineering_brief: the readiness is not recomputed.
WithBrief(s) == [s EXCEPT !.brief = {ContentOf(s)}, !.status = "brief_generated"]

\* Mutant: the warnings are those of the readiness stored before.
DraftOfStored(s) == [content |-> ContentOf(s), warnings |-> UNION {r.blocking : r \in s.readiness}]

\* generate_jira_draft: the draft carries what still blocks it.
DraftOf(s) == [content |-> ContentOf(s), warnings |-> JiraReadiness(s, TRUE).blocking]

WithDraft(s) ==
    [s EXCEPT !.draft = {DraftOf(s)},
              !.readiness = {JiraReadiness(s, TRUE)},
              !.status = ReadinessStatus(JiraReadiness(s, TRUE))]

\* jira_readiness: a GET that saves what it computes.
WithReadiness(s) ==
    LET readiness == JiraReadiness(s, s.draft # {})
    IN  [s EXCEPT !.readiness = {readiness}, !.status = ReadinessStatus(readiness)]

NeedsAnalysis(s) == s.evidence = {} /\ s.status = "created"

-----------------------------------------------------------------------------
(* Workers *)

FileNames == {"engineering-brief", "jira-draft", "jira-draft-context"}

UseCases == ServiceOperations \cup {"create", "analysis"}

AuditStatus == CaseStatus \cup {"success", "answered", "waived"}

AuditRecord == [use_case : UseCases, case : Cases, question : SUBSET Questions,
                status : AuditStatus]

Pcs == {"check", "analysing", "log_analysis", "trace", "save_trail", "loaded",
        "generated", "log", "prompt", "save_pack", "save_preview"}

Idle == [pc |-> "idle"]

\* question and text are the arguments of answer and waive ({} when the text
\* is blank or the id is unknown), snap the snapshot the handler holds, prompt
\* the content prompt_for_case renders, traced the evidence trace_case read.
Busy == [pc : Pcs, op : ServiceOperations \cup {"create"}, case : Cases,
         question : SUBSET Questions, text : SUBSET Texts, role : SUBSET Roles,
         snap : Snapshot, prompt : Maybe(Content), traced : SUBSET Sources]

TypeOK ==
    /\ cases \in [Cases -> Snapshot]
    /\ files \in [Cases -> [FileNames -> Maybe(Content)]]
    /\ trails \in [Cases -> Maybe(SUBSET Sources)]
    /\ packs \in [Cases -> Maybe(SUBSET Sources)]
    /\ previews \in [Cases -> [{"brief", "jira_draft"} ->
                        Maybe([prompt : Maybe(Content), evidence : SUBSET Sources])]]
    /\ audit \subseteq AuditRecord
    /\ worker \in [Workers -> {Idle} \cup Busy]
    /\ requests \in Nat
    /\ aborts \in Nat

Init ==
    /\ cases = [c \in Cases |-> NoSnapshot]
    /\ files = [c \in Cases |-> [f \in FileNames |-> {}]]
    /\ trails = [c \in Cases |-> {}]
    /\ packs = [c \in Cases |-> {}]
    /\ previews = [c \in Cases |-> [t \in {"brief", "jira_draft"} |-> {}]]
    /\ audit = {}
    /\ worker = [w \in Workers |-> Idle]
    /\ requests = 0
    /\ aborts = 0

-----------------------------------------------------------------------------
(* Steps of a handler.  self[w] is the request worker w serves. *)

MoveTo(w, pc) == worker' = [worker EXCEPT ![w].pc = pc]
Return(w) == worker' = [worker EXCEPT ![w] = Idle]

\* RequirementCaseRepository.save: INSERT OR REPLACE of the whole row.  The
\* handler keeps the snapshot it saved.
Save(w, s, pc) ==
    /\ cases' = [cases EXCEPT ![worker[w].case] = s]
    /\ worker' = [worker EXCEPT ![w].snap = s, ![w].pc = pc]

LogGeneration(w, use_case, status) ==
    audit' = audit \cup {[use_case |-> use_case, case |-> worker[w].case,
                         question |-> worker[w].question, status |-> status]}

Request(op, c, question, text, role) ==
    [pc |-> "loaded", op |-> op, case |-> c, question |-> question, text |-> text,
     role |-> role, snap |-> cases[c], prompt |-> {}, traced |-> {}]

NewRequest(w) ==
    /\ worker[w] = Idle
    /\ requests < MaxRequests
    /\ requests' = requests + 1
    /\ UNCHANGED aborts

\* create_case: the id is fresh; the row is saved first and logged after.
CreateCase(w, c) ==
    /\ NewRequest(w)
    /\ cases[c].status = "none"
    /\ cases' = [cases EXCEPT ![c] = Created]
    /\ worker' = [worker EXCEPT ![w] =
                    [Request("create", c, {}, {}, {}) EXCEPT !.snap = Created, !.pc = "log"]]
    /\ UNCHANGED <<files, artifacts, audit>>

\* The first get() of a handler: analyze_case's own, or the one of
\* _ensure_analyzed, which decides whether the case has to be analysed first.
BeginWith(w, op, c, question, text, role) ==
    /\ NewRequest(w)
    /\ cases[c].status # "none"
    /\ worker' = [worker EXCEPT ![w] =
                    [Request(op, c, question, text, role) EXCEPT
                        !.pc = IF op = "analyze" THEN "analysing"
                               ELSE IF NeedsAnalysis(cases[c]) THEN "check"
                               ELSE "loaded"]]
    /\ UNCHANGED <<cases, files, artifacts, audit>>

Begin(w, c) ==
    \/ \E op \in Operations \ {"answer", "waive", "role_view"} :
            BeginWith(w, op, c, {}, {}, {})
    \/ \E op \in Operations \cap {"answer", "waive"}, q \in Questions, t \in Texts :
            BeginWith(w, op, c, {q}, {t}, {})
    \/ \E op \in Operations \cap {"answer", "waive"} :
            BeginWith(w, op, c, {}, {}, {})
    \/ \E op \in Operations \cap {"role_view"}, r \in Roles :
            BeginWith(w, op, c, {}, {}, {r})

\* analyze_case, called from _ensure_analyzed, gets the case a second time and
\* does not look again whether somebody analysed it meanwhile.
LoadForAnalysis(w) ==
    /\ worker[w].pc = "check"
    /\ worker' = [worker EXCEPT ![w].snap = cases[worker[w].case], ![w].pc = "analysing"]
    /\ UNCHANGED <<cases, files, artifacts, audit, bounds>>

SaveAnalysis(w) ==
    /\ worker[w].pc = "analysing"
    /\ \E evidence \in SUBSET Sources :
            Save(w, Analysed(worker[w].snap, worker[w].case, evidence), "log_analysis")
    /\ UNCHANGED <<files, artifacts, audit, bounds>>

LogAnalysis(w) ==
    /\ worker[w].pc = "log_analysis"
    /\ audit' = audit \cup {[use_case |-> "analysis", case |-> worker[w].case,
                             question |-> {}, status |-> "success"]}
    /\ MoveTo(w, "trace")
    /\ UNCHANGED <<cases, files, artifacts, bounds>>

\* ContextIntelligenceService.trace_case reads the case again ...
ReadForTrace(w) ==
    /\ worker[w].pc = "trace"
    /\ worker' = [worker EXCEPT ![w].traced = cases[worker[w].case].evidence,
                                ![w].pc = "save_trail"]
    /\ UNCHANGED <<cases, files, artifacts, audit, bounds>>

\* ... and saves the trail of what it read.  It ends analyze_case, is followed
\* by the handler's own work when _ensure_analyzed called analyze_case, and by
\* the context pack when prompt_for_case asked for the trail.
SaveTrail(w) ==
    /\ worker[w].pc = "save_trail"
    /\ trails' = [trails EXCEPT ![worker[w].case] = {worker[w].traced}]
    /\ \/ worker[w].op = "analyze" /\ Return(w)
       \/ worker[w].op # "analyze" /\ worker[w].prompt = {} /\ MoveTo(w, "loaded")
       \/ worker[w].prompt # {} /\ MoveTo(w, "save_pack")
    /\ UNCHANGED <<cases, files, packs, previews, audit, bounds>>

\* generate_impact_map and generate_questions only read; an empty text is a
\* ValueError and an unknown question a NotFoundError, after the analysis.
Finish(w) ==
    /\ worker[w].pc = "loaded"
    /\ \/ worker[w].op = "read"
       \/ worker[w].op \in {"answer", "waive"} /\ worker[w].text = {}
    /\ Return(w)
    /\ UNCHANGED <<cases, files, artifacts, audit, bounds>>

\* Mutant: the answer is saved and not logged.
AnswerUnlogged(w) ==
    /\ worker[w].pc = "loaded"
    /\ worker[w].op = "answer"
    /\ worker[w].text # {}
    /\ \E q \in worker[w].question :
            cases' = [cases EXCEPT ![worker[w].case] =
                        Decided(worker[w].snap, q, "answered", worker[w].text)]
    /\ Return(w)
    /\ UNCHANGED <<files, artifacts, audit, bounds>>

AnswerQuestion(w) ==
    /\ worker[w].pc = "loaded"
    /\ worker[w].op = "answer"
    /\ worker[w].text # {}
    /\ \E q \in worker[w].question :
            Save(w, Decided(worker[w].snap, q, "answered", worker[w].text), "log")
    /\ UNCHANGED <<files, artifacts, audit, bounds>>

WaiveQuestion(w) ==
    /\ worker[w].pc = "loaded"
    /\ worker[w].op = "waive"
    /\ worker[w].text # {}
    /\ \E q \in worker[w].question :
            Save(w, Decided(worker[w].snap, q, "waived", worker[w].text), "log")
    /\ UNCHANGED <<files, artifacts, audit, bounds>>

\* generate_role_view: its second _ensure_analyzed only reads, since a loaded
\* case never needs analysis again (NeverUnanalysed); it logs nothing.
GenerateRoleView(w) ==
    /\ worker[w].pc = "loaded"
    /\ \E r \in worker[w].role :
            cases' = [cases EXCEPT ![worker[w].case] = WithRoleView(worker[w].snap, r)]
    /\ Return(w)
    /\ UNCHANGED <<files, artifacts, audit, bounds>>

\* The generator runs (an LLM may answer after a long time) and its markdown is
\* written to the case's directory before the snapshot is saved.
WriteFile(w, f, pc) ==
    /\ files' = [files EXCEPT ![worker[w].case][f] = {ContentOf(worker[w].snap)}]
    /\ MoveTo(w, pc)
    /\ UNCHANGED <<cases, artifacts, audit, bounds>>

\* Mutant: the brief's file is not written.
WriteNoBrief(w) ==
    /\ worker[w].pc = "loaded"
    /\ worker[w].op = "brief"
    /\ MoveTo(w, "generated")
    /\ UNCHANGED <<cases, files, artifacts, audit, bounds>>

WriteBrief(w) ==
    /\ worker[w].pc = "loaded"
    /\ worker[w].op = "brief"
    /\ WriteFile(w, "engineering-brief", "generated")

WriteJiraDraft(w) ==
    /\ worker[w].pc = "loaded"
    /\ worker[w].op = "jira_draft"
    /\ WriteFile(w, "jira-draft", "generated")

\* prepare_jira_draft_context: a file and an audit row, the case is not saved.
PrepareJiraDraftContext(w) ==
    /\ worker[w].pc = "loaded"
    /\ worker[w].op = "jira_context"
    /\ WriteFile(w, "jira-draft-context", "log")

SaveBrief(w) ==
    /\ worker[w].pc = "generated"
    /\ worker[w].op = "brief"
    /\ Save(w, WithBrief(worker[w].snap), "log")
    /\ UNCHANGED <<files, artifacts, audit, bounds>>

SaveJiraDraft(w) ==
    /\ worker[w].pc = "generated"
    /\ worker[w].op = "jira_draft"
    /\ Save(w, WithDraft(worker[w].snap), "log")
    /\ UNCHANGED <<files, artifacts, audit, bounds>>

CheckJiraReadiness(w) ==
    /\ worker[w].pc = "loaded"
    /\ worker[w].op = "jira_readiness"
    /\ Save(w, WithReadiness(worker[w].snap), "log")
    /\ UNCHANGED <<files, artifacts, audit, bounds>>

\* The status the audit row of each operation is given.
LoggedStatus(request) ==
    CASE request.op = "create" -> "created"
      [] request.op = "answer" -> "answered"
      [] request.op = "waive"  -> "waived"
      [] request.op \in {"brief", "jira_context"} -> "success"
      [] OTHER -> request.snap.status

Log(w) ==
    /\ worker[w].pc = "log"
    /\ LogGeneration(w, worker[w].op, LoggedStatus(worker[w]))
    /\ IF worker[w].op \in {"brief", "jira_draft"} THEN MoveTo(w, "prompt") ELSE Return(w)
    /\ UNCHANGED <<cases, files, artifacts, bounds>>

\* prompt_for_case reads the case for the prompt; the get() of assemble_case
\* that follows only supplies the case header, which never changes.
ReadForPrompt(w) ==
    /\ worker[w].pc = "prompt"
    /\ worker' = [worker EXCEPT ![w].prompt = {ContentOf(cases[worker[w].case])},
                                ![w].pc = "trace"]
    /\ UNCHANGED <<cases, files, artifacts, audit, bounds>>

\* Mutant: a pack that is there is kept.
SaveFirstContextPack(w) ==
    /\ worker[w].pc = "save_pack"
    /\ packs' = [packs EXCEPT ![worker[w].case] =
                    IF @ = {} THEN {worker[w].traced} ELSE @]
    /\ MoveTo(w, "save_preview")
    /\ UNCHANGED <<cases, files, trails, previews, audit, bounds>>

SaveContextPack(w) ==
    /\ worker[w].pc = "save_pack"
    /\ packs' = [packs EXCEPT ![worker[w].case] = {worker[w].traced}]
    /\ MoveTo(w, "save_preview")
    /\ UNCHANGED <<cases, files, trails, previews, audit, bounds>>

SavePromptPreview(w) ==
    /\ worker[w].pc = "save_preview"
    /\ previews' = [previews EXCEPT ![worker[w].case][worker[w].op] =
                        {[prompt |-> worker[w].prompt, evidence |-> worker[w].traced]}]
    /\ Return(w)
    /\ UNCHANGED <<cases, files, trails, packs, audit, bounds>>

\* The provider raises, a store is unreadable, or the process is killed: the
\* handler stops where it is and what it has written stays.
Abort(w) ==
    /\ worker[w] # Idle
    /\ aborts < MaxAborts
    /\ aborts' = aborts + 1
    /\ Return(w)
    /\ UNCHANGED <<cases, files, artifacts, audit, requests>>

Step(w) ==
    \/ LoadForAnalysis(w) \/ SaveAnalysis(w) \/ LogAnalysis(w)
    \/ ReadForTrace(w) \/ SaveTrail(w) \/ Finish(w)
    \/ AnswerQuestion(w) \/ WaiveQuestion(w) \/ GenerateRoleView(w)
    \/ WriteBrief(w) \/ WriteJiraDraft(w) \/ PrepareJiraDraftContext(w)
    \/ SaveBrief(w) \/ SaveJiraDraft(w) \/ CheckJiraReadiness(w)
    \/ Log(w) \/ ReadForPrompt(w) \/ SaveContextPack(w) \/ SavePromptPreview(w)

Next ==
    \E w \in Workers :
        \/ \E c \in Cases : CreateCase(w, c) \/ Begin(w, c)
        \/ Step(w)
        \/ Abort(w)

Spec == Init /\ [][Next]_vars

-----------------------------------------------------------------------------
(* Properties *)

Closed(s) == WithStatus(s, "answered") \cup WithStatus(s, "waived")

\* A stored case is "jira_ready_draft" only when it has evidence, an impact map,
\* a draft and no question that is not answered or waived, whichever handlers
\* interleaved: every save replaces status, questions and draft together.
ReadyIsEarned ==
    \A c \in Cases :
        cases[c].status = "jira_ready_draft" =>
            /\ cases[c].evidence # {}
            /\ cases[c].impact
            /\ cases[c].draft # {}
            /\ Closed(cases[c]) = Questions

\* The readiness stored with a case is the one _jira_readiness computes for it,
\* except after a re-analysis or a brief, which leave the old one in place.
ReadinessIsCurrent ==
    \A c \in Cases :
        cases[c].status \notin {"analyzed", "brief_generated"} =>
            \A r \in cases[c].readiness : r = JiraReadiness(cases[c], cases[c].draft # {})

\* A stored Jira draft without warnings shows no pending question and cites
\* evidence: warnings and markdown come from the same snapshot, whatever was
\* answered or re-analysed while the provider was writing.
CleanDraftShowsNoPendingQuestion ==
    \A c \in Cases : \A d \in cases[c].draft :
        d.warnings = {} => /\ WithStatus(d.content, "open") = {}
                           /\ d.content.evidence # {}
                           /\ d.content.impact

\* The markdown files are written before the row that refers to them, so a
\* handler that stops in between never leaves a brief or draft without a file.
SavedDocumentsHaveFiles ==
    \A c \in Cases :
        /\ cases[c].draft # {} => files[c]["jira-draft"] # {}
        /\ cases[c].brief # {} => files[c]["engineering-brief"] # {}

\* While no handler was stopped half-way, every answered or waived question of a
\* stored case and every ready status has its audit row, or the handler that
\* saved it is about to write it.
DecisionsAreAudited ==
    aborts = 0 => \A c \in Cases :
        /\ \A use \in {"answer", "waive"}, q \in Questions :
              cases[c].questions[q].status = (IF use = "answer" THEN "answered" ELSE "waived") =>
                \/ \E a \in audit : a.use_case = use /\ a.case = c /\ a.question = {q}
                \/ \E w \in Workers : /\ worker[w].pc = "log" /\ worker[w].op = use
                                       /\ worker[w].case = c /\ worker[w].question = {q}
        /\ cases[c].status = "jira_ready_draft" =>
              \/ \E a \in audit : a.case = c /\ a.status = "jira_ready_draft"
              \/ \E w \in Workers : /\ worker[w].pc = "log" /\ worker[w].case = c
                                     /\ LoggedStatus(worker[w]) = "jira_ready_draft"

\* Once analysed a case never looks unanalysed again: a handler that loaded it
\* before the analysis cannot put the old status back, so _ensure_analyzed never
\* re-analyses, and discards answers, behind a client's back after that.
NeverUnanalysed ==
    [][\A c \in Cases : cases[c].status \notin {"none", "created"} =>
            cases'[c].status \notin {"none", "created"}]_cases

\* A save that is not an analysis, by a handler whose snapshot is still the
\* stored one, changes no question but the one the request names, and closes
\* that one: decisions are lost only to a re-analysis or to a stale snapshot.
CurrentSavesKeepDecisions ==
    [][\A c \in Cases, w \in Workers :
        /\ worker[w] # Idle
        /\ worker[w].case = c
        /\ worker[w].pc # "analysing"
        /\ worker[w].snap = cases[c]
        /\ worker'[w] # worker[w]
        => \A q \in Questions :
              \/ cases'[c].questions[q] = cases[c].questions[q]
              \/ q \in worker[w].question /\ q \in Closed(cases'[c])]_vars

\* The preview of a prompt rendered from content, with the evidence of its trail.
PreviewOf(content) == [prompt |-> {content}, evidence |-> content.evidence]

\* With one worker and no handler stopped half-way, what is kept beside a case
\* agrees with its row whenever no handler runs.  The file and the preview of a
\* brief or a draft show what the stored brief or draft was rendered from; the
\* context pack has the evidence of one of the two; the trail of an analysed
\* case has the evidence stored now.  A re-analysis renews the trail only and
\* leaves the others as they are; right after a brief all of them are current.
ArtifactsDescribeCase ==
    (aborts = 0 /\ \A w \in Workers : worker[w] = Idle) => \A c \in Cases :
        LET briefed == cases[c].brief
            drafted == {d.content : d \in cases[c].draft}
        IN  /\ files[c]["engineering-brief"] = briefed
            /\ files[c]["jira-draft"] = drafted
            /\ previews[c]["brief"] = {PreviewOf(content) : content \in briefed}
            /\ previews[c]["jira_draft"] = {PreviewOf(content) : content \in drafted}
            /\ packs[c] \subseteq {content.evidence : content \in briefed \cup drafted}
            /\ briefed \cup drafted # {} => packs[c] # {}
            /\ cases[c].status \notin {"none", "created"} => trails[c] = {cases[c].evidence}
            /\ cases[c].status = "brief_generated" =>
                    briefed = {ContentOf(cases[c])} /\ packs[c] = {cases[c].evidence}

\* What clients of a case rely on when they use it one at a time (CaseGate).
Gate == INSTANCE CaseGate WITH
            decision <- [c \in Cases |-> [q \in Questions |-> cases[c].questions[q].status]],
            ready <- [c \in Cases |-> cases[c].status = "jira_ready_draft"]

\* A case used by one client at a time is a gate: see CaseGate.
ImplementsGate == Gate!Spec
=============================================================================
