------------------------------- MODULE Outputs -------------------------------
(***************************************************************************)
(* Generating outputs and judging them: drafts, reviews and test reports,  *)
(* their evaluations, the judge and retrieval evaluations                  *)
(* (dream/requirements, dream/review, dream/testgen, dream/evals,          *)
(* dream/context/eval.py, and what they keep in dream/context and          *)
(* dream/audit).                                                           *)
(*                                                                         *)
(* A handler is a thread of the API's pool or a CLI process.  What it      *)
(* retrieves takes one step here; each file and each row it writes is      *)
(* another one.  A provider answers anything, or fails.  Artifacts and the *)
(* case change while handlers run.  Each run writes one artifact, which    *)
(* has its number; 0 is the context pack of the case and 1 its brief.      *)
(* Evaluations of evaluations are left out.                                *)
(***************************************************************************)
EXTENDS Generation, EvaluationScoring

CONSTANTS
    Repo,        \* the files of the saved index: paths and their texts
    Pages,       \* the documents of the pack, in the order of their paths
    Drafts,      \* drafts that are asked for
    Reviews,     \* reviews that are asked for
    Text,        \* text ids and their texts
    Answers,     \* text ids of a provider's answers
    Report,      \* text id of a test report
    Case,        \* for each version of the case the text id of each of its views
    CaseSources, \* sources of the case
    Retrievals,  \* retrieval evaluations that are asked for: a pack of the case and a profile
    Profiles,    \* the team's profiles, in the order of their names
    Asks,        \* evaluations that are asked for
    Workers,     \* handler threads and CLI processes
    MaxRequests, \* bound: requests issued of each kind
    MaxEdits,    \* bound: edits while the system runs
    MaxAborts    \* bound: handlers that stop half-way

ASSUME ConstantsAssumption ==
    /\ 1 \in DOMAIN Case /\ DOMAIN Case \subseteq Nat
    /\ Answers \cup {Report} \subseteq DOMAIN Text
    /\ \A v \in DOMAIN Case :
            Range(Case[v]) \subseteq DOMAIN Text /\ {"engineering_brief", "requirement_case"} \subseteq DOMAIN Case[v]
    /\ \A ask \in Asks : ask.strict \in BOOLEAN /\ ask.team \in BOOLEAN /\ ask.judge \in BOOLEAN
    /\ \A ask \in Retrievals : ask.pack.text \in DOMAIN Text
    /\ \A ask \in Drafts \cup Reviews : Loadable(ask.pack)
    /\ MaxRequests \in [{"generate", "evaluate", "judge"} -> Nat] /\ MaxEdits \in Nat /\ MaxAborts \in Nat

\* What is counted is a number, and what a profile lists is finite.
ASSUME ScoringAssumption ==
    /\ \A id \in DOMAIN Text : Text[id].bullets \in Nat /\ Text[id].prompts \in Nat
    /\ DOMAIN Profiles \subseteq Nat
    /\ \A i \in DOMAIN Profiles :
            /\ Profiles[i].minimum \in Nat
            /\ \A list \in {"patterns", "concepts", "code", "tests", "docs", "incidents", "jira", "pr", "roles",
                           "risks"} : IsFiniteSet(Profiles[i][list])

\* The paths, the pack and what is found are lists, and a score is a number.
ASSUME SourcesAssumption ==
    /\ PathOrder \in Seq(Paths)
    /\ \A p \in Paths : p.dirs \in Seq(Range(p.dirs)) /\ p.stem \in Seq(Range(p.stem))
    /\ DOMAIN Repo \subseteq Paths /\ \A p \in DOMAIN Repo : Repo[p].lines \in Seq(Range(Repo[p].lines))
    /\ Pages \in Seq(Range(Pages))
    /\ \A doc \in Range(Pages) : IsFiniteSet(doc.concepts) /\ doc.relatedCode \in Seq(Range(doc.relatedCode))
    /\ \A ask \in Reviews :
        /\ ask.k \in Nat
        /\ ask.found \in Seq(Range(ask.found)) /\ ask.graph \in Seq(Range(ask.graph))
        /\ \A r \in Range(ask.found) \cup Range(ask.graph) : r.score \in Int

VARIABLES
    artifacts,   \* artifacts/: the text id of each artifact there is
    changed,     \* artifacts whose text was replaced or removed since it was written
    version,     \* the version of the case
    contexts,    \* trails, packs and prompt previews: what they list, by run and kind
    audit,       \* table audit_runs
    rows,        \* table evaluation_scorecards: the scorecard of each evaluation
    jsons,       \* artifacts/evals/<id>.json
    reports,     \* artifacts/evals/<id>.md
    worker,      \* where each worker is in its handler, and what it holds
    requests,    \* requests issued so far, of each kind
    edits,       \* edits so far
    aborts       \* handlers stopped so far

sources == <<artifacts, changed, version>>
stores == <<contexts, audit, rows, jsons, reports>>
bounds == <<requests, edits, aborts>>
vars == <<sources, stores, worker, bounds>>

-----------------------------------------------------------------------------
(* Data *)

\* A directory or a table with v under x, whether it had x or not.
Put(f, x, v) == [y \in DOMAIN f \cup {x} |-> IF y = x THEN v ELSE f[y]]

SourceLines(paths) == {PathText(p) : p \in paths}

\* What drafts and reviews are made of.
SavedIndex == Index(Repo)

SavedGraph == Graph(Pages, {SavedIndex})

\* What the index and the graph are said to find, they may find.
ASSUME ReviewsAssumption ==
    \A ask \in Reviews :
        LET terms == Range(ReviewQuery(ask)) \cup UNION {Words(PathText(p)) : p \in Range(FilesChanged(ask.diff))}
        IN  /\ Len(ask.found) <= ask.k /\ Len(ask.graph) <= ask.k
            /\ \A r \in Range(ask.found) : [type |-> r.type, paths |-> r.paths, name |-> r.name]
                                                \in Matches(SavedIndex, terms)
            /\ \A r \in Range(ask.graph) : r.node \in GraphMatches(SavedGraph, terms)

ContextOf(ask) == ReviewContext(<<SavedIndex>>, <<SavedGraph>>, ask)

\* TLC works a function out once it is compared, and not again at each application.
DraftLines == CHOOSE table \in {[ask \in Drafts |-> SourceLines(DraftSources(ask))]} : table = table

\* What the trail of a review lists and what its pack does.
ReviewLines ==
    CHOOSE table \in {[ask \in Reviews |->
                          [sources |-> SourceLines(ReviewSources(ContextOf(ask))),
                           kept |-> SourceLines(PackEvidencePaths(Candidates(ContextOf(ask))))]]} : table = table

ArtifactLine == <<"artifacts", "/", "output", ".md">>

\* What an evaluation is of, as its scorecard keeps it: an artifact, a run, the case.
Key(paths, runs, ofCase) == [path |-> paths, run |-> runs, case |-> ofCase]

AuditRow(use, run, from) == [use |-> use, run |-> run, sources |-> from]

WritesArtifact == {"brief", "draft", "review", "testgen"}

\* Runs and evaluations are numbered in the order of their requests.
Latest == 1 + requests.generate + requests.evaluate + requests.judge

\* judge is {} or the text the last judge was shown.
IsCard(card) ==
    /\ {card.text} \cup card.judge \subseteq DOMAIN Text
    /\ card.key.path \subseteq 0..Latest /\ card.key.run \subseteq 0..Latest

Idle == [pc |-> "idle"]

Pcs == {"trail", "pack", "preview", "complete", "artifact", "load", "score", "judge", "json", "report",
        "row", "log_judge", "log"}

IsBusy(v) ==
    /\ v.pc \in Pcs /\ v.id \in 1..Latest /\ v.evaluation \in 1..Latest
    /\ v.text \subseteq DOMAIN Text /\ \A card \in v.card : IsCard(card)

TypeOK ==
    /\ DOMAIN artifacts \subseteq 0..Latest /\ Range(artifacts) \subseteq DOMAIN Text
    /\ changed \subseteq 0..Latest /\ version \in DOMAIN Case
    /\ DOMAIN contexts \subseteq (0..Latest) \X {"trail", "pack", "preview"}
    /\ \A r \in audit : r.run \in 0..Latest
    /\ \A r, s \in audit : r.use = s.use /\ r.run = s.run => r = s
    /\ \A store \in {rows, jsons, reports} :
            DOMAIN store \subseteq 1..Latest /\ \A id \in DOMAIN store : IsCard(store[id])
    /\ \A w \in Workers : worker[w] = Idle \/ IsBusy(worker[w])

Init ==
    /\ artifacts = [path \in {1} |-> Case[1]["engineering_brief"]]
    /\ changed = {} /\ version = 1
    /\ contexts = <<>>
    /\ audit = {AuditRow("analysis", 0, CaseSources), AuditRow("brief", 1, CaseSources)}
    /\ rows = <<>> /\ jsons = <<>> /\ reports = <<>>
    /\ worker = [w \in Workers |-> Idle]
    /\ requests = [kind \in DOMAIN MaxRequests |-> 0] /\ edits = 0 /\ aborts = 0

-----------------------------------------------------------------------------
(* Edits *)

Edit ==
    /\ edits < MaxEdits
    /\ edits' = edits + 1
    /\ UNCHANGED <<stores, worker, requests, aborts>>

EditArtifact(path, id) ==
    /\ path \in DOMAIN artifacts /\ artifacts[path] # id
    /\ artifacts' = [artifacts EXCEPT ![path] = id]
    /\ changed' = changed \cup {path}
    /\ Edit
    /\ UNCHANGED version

DeleteArtifact(path) ==
    /\ path \in DOMAIN artifacts
    /\ artifacts' = Restrict(artifacts, DOMAIN artifacts \ {path})
    /\ changed' = changed \cup {path}
    /\ Edit
    /\ UNCHANGED version

\* RequirementCase has how a case changes.
ChangeCase ==
    /\ version + 1 \in DOMAIN Case
    /\ version' = version + 1
    /\ Edit
    /\ UNCHANGED <<artifacts, changed>>

-----------------------------------------------------------------------------
(* Requests *)

Issue(kind) ==
    /\ requests[kind] < MaxRequests[kind]
    /\ requests' = [requests EXCEPT ![kind] = @ + 1]

Serve(w, kind, request) ==
    /\ worker[w] = Idle
    /\ Issue(kind)
    /\ worker' = [worker EXCEPT ![w] = request]
    /\ UNCHANGED <<sources, stores, edits, aborts>>

\* What a handler begins with, before it has read anything.
Fresh(op, pc) ==
    [pc |-> pc, op |-> op, id |-> Latest + 1, evaluation |-> Latest + 1,
     text |-> {}, sources |-> {}, kept |-> {}, ask |-> {}, card |-> {}]

Draft(w, ask) ==
    Serve(w, "generate", [Fresh("draft", "complete") EXCEPT !.sources = DraftLines[ask]])

Review(w, ask) ==
    Serve(w, "generate",
          [Fresh("review", "trail") EXCEPT !.sources = ReviewLines[ask].sources, !.kept = ReviewLines[ask].kept])

\* The mock provider; the JTestGen adapter writes nothing.
RunTestgen(w) == Serve(w, "generate", [Fresh("testgen", "artifact") EXCEPT !.text = {Report}])

Evaluable == {r.run : r \in {s \in audit : s.use \in WritesArtifact \cup {"analysis"}}}

Keys ==
    {Key({path}, {}, FALSE) : path \in DOMAIN artifacts} \cup {Key({}, {run}, FALSE) : run \in Evaluable}
        \cup {Key({}, {}, TRUE)}

Keyed(ask, key) ==
    [key |-> key, type |-> ask.type, profile |-> ask.profile, strict |-> ask.strict, team |-> ask.team,
     judge |-> ask.judge]

Evaluate(w, ask, key) ==
    Serve(w, "evaluate", [Fresh("evaluate", "load") EXCEPT !.ask = {Keyed(ask, key)}])

\* judge_existing
JudgeExisting(w, id) ==
    Serve(w, "judge", [Fresh("judge", "load") EXCEPT !.evaluation = id, !.card = {rows[id]}])

EvaluateRetrieval(w, ask) ==
    Serve(w, "evaluate",
          [Fresh("retrieval", "trail") EXCEPT !.ask = {ask}, !.sources = CaseSources, !.kept = CaseSources])

-----------------------------------------------------------------------------
(* Steps of a handler *)

At(w, pc) == worker[w].pc = pc
GoTo(w, pc) == worker' = [worker EXCEPT ![w].pc = pc]
Return(w) == worker' = [worker EXCEPT ![w] = Idle]
Local(w, step) == worker' = [worker EXCEPT ![w] = step] /\ UNCHANGED <<sources, stores, bounds>>
Fail(w) == Return(w) /\ UNCHANGED <<sources, stores, bounds>>

\* The context of a review has its run, the one of a case the number 0.
ContextId(w) == IF worker[w].op = "review" THEN worker[w].id ELSE 0

SaveContext(w, kind, next) ==
    /\ At(w, kind)
    /\ contexts' = Put(contexts, <<ContextId(w), kind>>,
                       IF kind = "trail" THEN worker[w].sources ELSE worker[w].kept)
    /\ GoTo(w, next)
    /\ UNCHANGED <<audit, rows, jsons, reports, bounds>>

SaveTrail(w) == SaveContext(w, "trail", "pack") /\ UNCHANGED sources

SavePack(w) ==
    /\ At(w, "pack") /\ worker[w].op = "review"
    /\ SaveContext(w, "pack", "preview")
    /\ UNCHANGED sources

\* The pack of a case replaces the last one; its markdown is an artifact.
SaveCasePack(w) ==
    /\ At(w, "pack") /\ worker[w].op = "retrieval"
    /\ SaveContext(w, "pack", "score")
    /\ \E ask \in worker[w].ask : artifacts' = Put(artifacts, 0, ask.pack.text)
    /\ changed' = changed \cup ({0} \cap DOMAIN artifacts)
    /\ UNCHANGED version

SavePreview(w) == SaveContext(w, "preview", "complete") /\ UNCHANGED sources

Complete(w) ==
    /\ At(w, "complete")
    /\ \/ Fail(w)
       \/ \E id \in Answers : Local(w, [worker[w] EXCEPT !.text = {id}, !.pc = "artifact"])

WriteArtifact(w) ==
    /\ At(w, "artifact")
    /\ \E id \in worker[w].text : artifacts' = Put(artifacts, worker[w].id, id)
    /\ GoTo(w, "log")
    /\ UNCHANGED <<changed, version, stores, bounds>>

-----------------------------------------------------------------------------
(* Evaluation *)

ReadArtifact(path, from, key) ==
    IF path \notin DOMAIN artifacts THEN {}
    ELSE {[text |-> artifacts[path], sources |-> from, key |-> [key EXCEPT !.path = {path}]]}

CaseTarget(type, key) ==
    {[text |-> Case[version][IF type \in DOMAIN Case[version] THEN type ELSE "requirement_case"],
      sources |-> CaseSources, key |-> [key EXCEPT !.case = TRUE]]}

\* The output of an analysis is the case, and the brief is one of the case.
RunTarget(type, run, key) ==
    UNION {IF r.use = "analysis" THEN CaseTarget(type, key)
           ELSE ReadArtifact(run, r.sources, [key EXCEPT !.case = r.use = "brief"]) :
           r \in {s \in audit : s.use \in WritesArtifact \cup {"analysis"} /\ s.run = run}}

\* Mutant: the case is looked at before the artifact.
CaseFirst(type, key) ==
    IF key.case THEN CaseTarget(type, key)
    ELSE IF key.path # {} THEN UNION {ReadArtifact(path, {ArtifactLine}, key) : path \in key.path}
    ELSE UNION {RunTarget(type, run, key) : run \in key.run}

\* {} if there is no such run or file.
LoadTarget(type, key) ==
    IF key.path # {} THEN UNION {ReadArtifact(path, {ArtifactLine}, key) : path \in key.path}
    ELSE IF key.run # {} THEN UNION {RunTarget(type, run, key) : run \in key.run}
    ELSE CaseTarget(type, key)

\* Without a team there is no profile; an artifact alone has none.
ProfileFor(ask, target) ==
    IF ~ask.team /\ target.key.run = {} /\ ~target.key.case THEN {}
    ELSE IF ask.profile # 0 THEN {Profiles[ask.profile]}
    ELSE Infer(Profiles, Text[target.text].lines)

IsUnknown(ask) == ask.profile # 0 /\ ask.profile \notin DOMAIN Profiles

Scorecard(ask, target) ==
    LET profile == ProfileFor(ask, target)
    IN  [type |-> ask.type, key |-> target.key, text |-> target.text, sources |-> target.sources,
         profile |-> profile,
         verdict |-> Verdict(ask.type, Text[target.text], target.sources, profile, ask.strict),
         judge |-> {}]

\* The target of an evaluation and its scorecard.
Score(w) ==
    LET self == worker[w]
    IN  /\ At(w, "load") /\ self.op = "evaluate"
        /\ \E ask \in self.ask :
             LET targets == LoadTarget(ask.type, ask.key)
             IN  IF targets = {} \/ IsUnknown(ask) THEN Fail(w)
                 ELSE \E target \in targets :
                        Local(w, [self EXCEPT !.card = {Scorecard(ask, target)}, !.sources = target.sources,
                                              !.text = {target.text},
                                              !.pc = IF ask.judge THEN "judge" ELSE "json"])

\* The target of a scorecard, which may be another text by now.
Reload(w) ==
    LET self == worker[w]
    IN  /\ At(w, "load") /\ self.op = "judge"
        /\ \E card \in self.card :
             LET targets == LoadTarget(card.type, card.key)
             IN  IF targets = {} THEN Fail(w)
                 ELSE \E target \in targets :
                        Local(w, [self EXCEPT !.text = {target.text}, !.sources = target.sources, !.pc = "judge"])

ScoreRetrieval(w) ==
    LET self == worker[w]
    IN  /\ At(w, "score")
        /\ \E ask \in self.ask :
             IF ask.profile \notin DOMAIN Profiles THEN Fail(w)
             ELSE LET profile == Profiles[ask.profile]
                  IN  Local(w, [self EXCEPT
                        !.card = {[type |-> "retrieval_context", key |-> Key({0}, {}, TRUE),
                                   text |-> ask.pack.text, sources |-> CaseSources, profile |-> {profile},
                                   verdict |-> RetrievalVerdict(ask.pack, profile),
                                   judge |-> {}]},
                        !.pc = "json"])

\* Mutant: the scorecard is made again for the judge.
Rescored(card, target) ==
    [card EXCEPT !.text = target,
                 !.verdict = Verdict(card.type, Text[target], card.sources, card.profile, FALSE)]

JudgeAgain(w) ==
    LET self == worker[w]
    IN  /\ At(w, "judge")
        /\ \E card \in self.card, id \in self.text :
             Local(w, [self EXCEPT !.card = {[Rescored(card, id) EXCEPT !.judge = {id}]}, !.pc = "json"])

\* The judge never raises: that it failed is a judgement, too.
Judge(w) ==
    LET self == worker[w]
    IN  /\ At(w, "judge")
        /\ \E card \in self.card :
             Local(w, [self EXCEPT !.card = {[card EXCEPT !.judge = self.text]}, !.pc = "json"])

\* Mutant: the report is written on demand only.
WriteJsonOnly(w) ==
    /\ At(w, "json")
    /\ \E card \in worker[w].card : jsons' = Put(jsons, worker[w].evaluation, card)
    /\ GoTo(w, "row")
    /\ UNCHANGED <<sources, contexts, audit, rows, reports, bounds>>

WriteJson(w) ==
    /\ At(w, "json")
    /\ \E card \in worker[w].card : jsons' = Put(jsons, worker[w].evaluation, card)
    /\ GoTo(w, "report")
    /\ UNCHANGED <<sources, contexts, audit, rows, reports, bounds>>

WriteReport(w) ==
    /\ At(w, "report")
    /\ \E card \in worker[w].card : reports' = Put(reports, worker[w].evaluation, card)
    /\ GoTo(w, "row")
    /\ UNCHANGED <<sources, contexts, audit, rows, jsons, bounds>>

\* INSERT OR REPLACE
SaveRow(w) ==
    /\ At(w, "row")
    /\ \E card \in worker[w].card :
            /\ rows' = Put(rows, worker[w].evaluation, card)
            /\ GoTo(w, IF card.judge = {} THEN "log" ELSE "log_judge")
    /\ UNCHANGED <<sources, contexts, audit, jsons, reports, bounds>>

\* Mutant: a run may have several rows of a kind.
AddAuditRowAgain(row) == audit' = audit \cup {row}

\* A row of the same run is replaced.
AddAuditRow(row) == audit' = {r \in audit : r.use # row.use \/ r.run # row.run} \cup {row}

LogJudge(w) ==
    /\ At(w, "log_judge")
    /\ AddAuditRow(AuditRow("judge", worker[w].evaluation, worker[w].sources))
    /\ IF worker[w].op = "judge" THEN Return(w) ELSE GoTo(w, "log")
    /\ UNCHANGED <<sources, contexts, rows, jsons, reports, bounds>>

Log(w) ==
    /\ At(w, "log")
    /\ AddAuditRow(AuditRow(worker[w].op, worker[w].id, worker[w].sources))
    /\ Return(w)
    /\ UNCHANGED <<sources, contexts, rows, jsons, reports, bounds>>

\* A file cannot be written, or the process is killed.
Abort(w) ==
    /\ worker[w] # Idle
    /\ aborts < MaxAborts
    /\ aborts' = aborts + 1
    /\ Return(w)
    /\ UNCHANGED <<sources, stores, requests, edits>>

Environment ==
    \/ \E path \in DOMAIN artifacts : DeleteArtifact(path) \/ \E id \in Answers : EditArtifact(path, id)
    \/ ChangeCase

Request(w) ==
    \/ \E ask \in Drafts : Draft(w, ask)
    \/ \E ask \in Reviews : Review(w, ask)
    \/ RunTestgen(w)
    \/ \E ask \in Asks, key \in Keys : Evaluate(w, ask, key)
    \/ \E id \in DOMAIN rows : JudgeExisting(w, id)
    \/ \E ask \in Retrievals : EvaluateRetrieval(w, ask)

Step(w) ==
    \/ SaveTrail(w) \/ SavePack(w) \/ SaveCasePack(w) \/ SavePreview(w) \/ Complete(w) \/ WriteArtifact(w)
    \/ Score(w) \/ Reload(w) \/ ScoreRetrieval(w) \/ Judge(w)
    \/ WriteJson(w) \/ WriteReport(w) \/ SaveRow(w) \/ LogJudge(w) \/ Log(w)

Next ==
    \/ Environment
    \/ \E w \in Workers : Request(w) \/ Step(w) \/ Abort(w)

Spec == Init /\ [][Next]_vars

-----------------------------------------------------------------------------
(* Properties *)

\* What a scorecard said stays said: judging it, while artifacts and the case
\* change and other judges are at it, replaces its row but never its verdict.
VerdictIsFinal ==
    [][\A id \in DOMAIN rows :
            id \in DOMAIN rows' /\ rows'[id].text = rows[id].text /\ rows'[id].verdict = rows[id].verdict]_vars

\* What the database lists can be opened: the artifact of a run, unless it
\* was removed, the context of a review, and the two reports of an
\* evaluation, with the verdict of the row, wherever a handler has stopped.
RecordsHaveFiles ==
    /\ \A r \in audit :
            /\ r.use \in WritesArtifact => r.run \in DOMAIN artifacts \cup changed
            /\ r.use = "review" => {r.run} \X {"trail", "pack", "preview"} \subseteq DOMAIN contexts
            /\ r.use \in {"evaluate", "retrieval"} => r.run \in DOMAIN rows
    /\ \A id \in DOMAIN rows :
            /\ id \in DOMAIN jsons \cap DOMAIN reports
            /\ rows[id].verdict = jsons[id].verdict /\ rows[id].verdict = reports[id].verdict

\* A judge is shown the text that was scored, unless that has changed since:
\* an evaluation of a run or an artifact never turns into one of the case.
JudgeSeesWhatWasScored ==
    \A id \in DOMAIN rows : \A text \in rows[id].judge :
        \/ text = rows[id].text
        \/ rows[id].key.path \cap changed # {}
        \/ rows[id].key.path = {} /\ version > 1

\* An output passes only with the score its profile asks for, and with every
\* critical risk of the profile in its text or sources.
PassMeetsProfile ==
    \A id \in DOMAIN rows :
        LET row == rows[id]
        IN  row.verdict.status = "pass" /\ row.type # "retrieval_context" =>
                \A p \in row.profile :
                    /\ row.verdict.score >= p.minimum
                    /\ \A risk \in p.risks : ItemPresent(Text[row.text].lines \cup row.sources, risk)

\* With up to six results asked for, every changed file the index has, and
\* every test of one, is among the sources of the review, however high other
\* results score and however often they are found.
ReviewKeepsChanges ==
    Latest = 1 /\ edits = 0 => \A ask \in Reviews : ask.repo /\ ask.k <= 6 =>
        \A file \in Range(FilesChanged(ask.diff)) : \A node \in FindFile(SavedIndex, file) :
            /\ node.path \in ReviewSources(ContextOf(ask))
            /\ \A m \in SavedIndex.tests : m.source = node.path => m.test \in ReviewSources(ContextOf(ask))
=============================================================================
