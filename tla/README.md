# A TLA+ model of the Dream engineering copilot

Dream turns a product request into an analysed, clarified *requirement case* and
from that into an engineering brief and a Jira draft, using a *knowledge pack* of
reviewed documents and a ledger of governed *memory claims*. It is a FastAPI
application (`dream/api`) and a command line (`dream/cli`) over one set of
services. This directory specifies the services whose state outlives a request,
model-checks them with TLC and proves the most important invariants with TLAPS.

## 1. The system

All paths below are under `src/`. Route handlers are plain `def` functions, so
FastAPI runs each in a thread of its pool, any number at a time; the CLI runs the
same services in other processes over the same files. There is one lock in the
program (the rate limiter's); nothing else spans a handler's read of a store and
its write. Stores are JSON or markdown files written with `write_text`, and two
SQLite tables replaced row by row.

| Component | State | Operations | What makes it correct |
|---|---|---|---|
| Requirement cases (`dream/requirement_cases`) | one SQLite row per case holding the whole snapshot; markdown files per case | create, analyze, answer, waive, role view, brief, Jira context, Jira draft, Jira readiness, reads (which analyse on demand) | a case is ready only when it has earned it; warnings and markdown of a draft agree; decisions are audited |
| Knowledge intake (`dream/intake`) | a document, a draft and review events as JSON files; a copy of the source; a file in the knowledge pack | upload, parse, review, edit metadata, promote | nothing is published that nobody approved; records never name a missing file; decisions are in the event ledger |
| Governed memory (`dream/memory/distiller.py`, `repository.py`) | scans and `latest.json`; the review ledger; the conflict-resolution ledger | scan, review a claim, list and resolve conflicts, diff | ledgers only grow; events chain; a resolution has both its reviews; two rival claims are not both approved |
| Public Qwen limiter (`dream/api/routes.py`) | a deque of times, a lock | admit or refuse a call | at most the limit per window; no refusal without cause |
| Context intelligence (`dream/context`) | retrieval trail, context pack and prompt preview files | trace, assemble and preview a case; memory report; evidence card | artifacts describe the case they name |
| Audit (`dream/audit`) | `audit_runs` (replaced by run id), `human_ratings` | log, list, rate | no decision without a row |
| Evaluations (`dream/evals`, `dream/context/eval.py`) | scorecards in SQLite and as files | evaluate an artifact, a run or a case; judge an existing scorecard; evaluate the context of a case | a pass meets its profile; a verdict stays; what is judged is what was scored; rows have their reports |
| Codebase index (`dream/codebase`) | one JSON index per repository | index, search, find a file or a test | the request ends whatever is edited under it; a search finds what is there |
| Graph memory (`dream/graph`) | one JSON graph per repository | build, search, neighbours | edges join nodes; a named file is the one that is linked |
| Knowledge and unified search (`dream/knowledge`, `dream/memory/retriever.py`) | none | search a pack; search documents, code and graph together | as many results as asked for, none twice, balanced |
| Generation (`dream/requirements`, `dream/review`, `dream/testgen`) | artifacts and context files | draft, review, test report | the change under review is among its sources; a row has its artifact |
| Configuration, extensions, LLM providers, CLI, web client | none of their own | | |

Interactions. The intake's promotion writes the files that knowledge retrieval
loads; memory scans read the same pack and cite intake documents; an analysis of a
case searches both and stores what it found; a scan indexes the repository and then
reads its files again, and the graph is built from the index and the pack; a brief or Jira draft is written by a
provider (deterministic or an LLM behind the limiter), saved with the case, logged
in the audit table and followed by the context service, which reads the case again.

What is hard. (1) Read-modify-write of whole rows and files by concurrent handlers:
the last writer wins, with everything it read. (2) Handlers that write three to five
stores in a row and can stop after any of them. (3) Check-then-act: approval,
duplicate and conflict checks are on values read before the write. (4) GET routes
that write. (5) A clock read outside the lock. (6) Two readings of one repository in one
request, and a repository that is edited in between. (7) References to an artifact, a case or
a claim id that mean something else by the time they are used. The full list, each at its line, is
in `PROJECT.json` under `hazards`.

## 2. The modules

| Module | Models | Checked by |
|---|---|---|
| `RequirementCase` | `requirement_cases/service.py`, `repository.py`, what `context/service.py` saves for a case | `MCRequirementCase`: `case_concurrent`, `case_sequential` |
| `CaseGate` | what a case promises its client (abstract) | refined in `case_sequential` |
| `KnowledgeIntake` | `intake/service.py`, `repository.py` | `MCKnowledgeIntake`: `intake_concurrent`, `intake_sequential`, `intake_rejected`, `intake_immutable` |
| `PublicationGate` | what the review workflow promises (abstract) | refined in `intake_sequential` |
| `QwenRateLimit` | `_enforce_public_qwen_rate_limit` | `MCQwenRateLimit`: `rate_limit` |
| `MemoryGovernance` | reviews, resolutions and scans of `memory/distiller.py`, `memory/repository.py` | `MCMemoryGovernance`: `memory_sequential`, `memory_resolvers`, `memory_append` |
| `CodebaseIndex` | `codebase/`: roles, symbols, concepts, tests, index, search | through `Workspace` and `Outputs` |
| `EvidenceGraph` | `graph/`: building a graph and walking it; extends `CodebaseIndex` | through `Workspace` and `Outputs` |
| `Ranking` | what Python does with lists: slices, filters and the stable `sorted()` | through `KnowledgeSearch` |
| `KnowledgeSearch` | `knowledge/`, `memory/retriever.py`; extends `EvidenceGraph` and `Ranking` | through `Workspace` and `Outputs` |
| `MemoryScan` | what a scan of `memory/distiller.py` says, its validation, `evaluator.py`, `claim_retriever.py`; extends `EvidenceGraph` | through `Workspace` |
| `Workspace` | the handlers that index, scan, build graphs, review and evaluate scans, and the repository they read | `MCWorkspace`: `workspace` |
| `Generation` | `requirements/`, `review/`, packs of `context/service.py`; extends `KnowledgeSearch` | through `Outputs` |
| `EvaluationScoring` | `evals/` and `context/eval.py`: dimensions and verdicts | through `Outputs` |
| `Outputs` | the handlers that generate outputs, evaluate and judge them | `MCOutputs`: `outputs` |
| `RequirementCaseProofs`, `KnowledgeIntakeProofs`, `QwenRateLimitProofs`, `MemoryGovernanceProofs`, `OutputsProofs`, `WorkspaceProofs` | theorems about the module they are named after (section 4) | tlapm |
| `EvidenceGraphProofs` | lemmas about the graphs that `EvidenceGraph` builds, used by `WorkspaceProofs` and `OutputsProofs` | tlapm |
| `FoldProofs` | induction for the folds of the community modules, lemmas about `Ranking`, used by `OutputsProofs`, `WorkspaceProofs` and `EvidenceGraphProofs` | tlapm |

Conventions. A *worker* is a handler thread or a CLI process; `worker[w]` is its
program counter and what it holds in local variables. Each access to a store is
one step; what a handler computes between two accesses belongs to the step that
follows. `Abort` stops a handler anywhere and leaves what it wrote: it is the
provider that raises, the file that cannot be written and the process that is
killed. An optional value is a set with at most one element. Ids that the code
takes from `uuid4` are fresh by a guard. A request that is refused on its first read
changes nothing and is no step.

A JSON file is read and written in one step. `write_text` truncates first, so
another handler could read half a file; it would fail to parse it and stop, which
is what `Abort` does. The SQLite statements are atomic.

**RequirementCase.** `cases` is the table, a record per case with the status, the
evidence, whether there is an impact item, the state of each question, and the
brief, draft and readiness as saved. A brief, a draft and a prompt are what they are
rendered from (`Content`), which is what their properties are about. `Begin` is
`_ensure_analyzed`'s `get`; `LoadForAnalysis` is the second `get` by `analyze_case`;
`SaveAnalysis`, `LogAnalysis`, `ReadForTrace` and `SaveTrail` are the rest of an
analysis, whoever called it; the actions named after the service's methods compute and
save; `Log`, `ReadForPrompt`, `SaveContextPack` and `SavePromptPreview` are what
follows a save. The order within each handler is the code's: the file first, then
the row, then the audit row, then the context artifacts. What a memory search
returns is any subset of `Sources`; `MarkedSources` are those that `impact.py` makes
an item of. Answers and reasons that are blank are the empty text, refused after the
analysis as in the code.

**KnowledgeIntake.** `documents`, `drafts`, `raw`, `pack`, `audit` and `events` are
the six kinds of files and rows. A request is the first read of its handler with the
guards on it; `After` is the order in which each handler goes through its files: a
promotion writes the pack, the draft, then the document, the others the document
before the draft. A path in the pack is a title and a type, since the slug of the
title, the type's directory and the document id make the file name. Types are
normalised as `_normalize_document_type_value` does, on promotion and on an edit but
not on upload. The audit run id is derived from operation and document, so `audit`
keeps the last status only. A reviewer's decision is any member of `Decisions`, and of that set is
assumed only that "approved" is in it and "none", the status of no draft, is not: `ReviewDecision.status` is a string that no
code validates, so the runs let reviewers send "promoted" and "pending_review" too.

**QwenRateLimit.** The clock is read in one step and the section under the lock is
another. `admitted` is a history variable: the time of each admission, which may be
later than the time stored in the deque. The deque is not sorted; `Removes` is the
`popleft` loop, which stops at the first entry that has not expired. `MaxStall`
bounds how long a handler takes between the two (a scheduling assumption, stated as
a guard of `Tick`).

**MemoryGovernance.** `Effective` is the status a ledger gives a claim. A review is
`ReadStatus`, `ReadLedger` and `SaveLedger`, because `append_review_event` reads the
ledger again; resolving a conflict is a check of the pair, two reviews and an append
to the second ledger. Which claims a scan holds, and which pairs rival each other, is
given by constants; `StoredOrder` is the order in which `_dedupe_claims` leaves the claims,
`Place` the place of a claim in a list of some of them, and `ConflictReport` the double loop
of `conflicts`, whose second part starts behind a place in the other list.

**CodebaseIndex, EvidenceGraph, KnowledgeSearch, MemoryScan** have no variables: they are
what the code computes from files and documents. A path is a sequence of words, a file its
lines, and a line has the kind the extractors' patterns tell apart (class, method, mapping
annotation, import, call, heading, ...). An index is a record with the fields of `RepoIndex`;
a graph is folded from documents, files, symbols, tests and concepts in the builder's order,
because an alias belongs to the node that had it first (`AddNode`). How a search weighs words is left open where
no property depends on it (`Best`, `GraphMatches`) and kept where the order decides what is
returned (`ChunkScore`, `BalancedTopK`). `Ranking` says which item of a list has which
rank, so that a sorted or filtered list is given by the positions of its items; `sorted()` keeps
the order of equals, and so does it. A hash is what it is taken of: the id of a claim is
the record of what goes into the digest.

**Workspace** composes them. `tree` and `shelf` are the repository and the pack, edited by
`Environment` at any time. `List`, `Extract` and `SaveIndex` are `CodebaseIndexer.index`,
`Read` and `LoadDocs` the second half of `scan`; `SaveScan` and `SaveLatest` are
`save_scan`, `LoadIndex`, `LoadPack` and `SaveGraph` the graph's builder. A store holds what
its content was made from, and `ScanTable` and `GraphTable` say what that is. `ReviewScan`
is one step here, since its interleavings are `MemoryGovernance`'s.

**Generation, EvaluationScoring, Outputs.** `Outputs` has a handler's files and rows one by
one: trail, pack, preview, artifact, scorecard JSON, report, row, audit rows. `Generation` says
which sources a draft or a review has, `EvaluationScoring` what a text is scored and whether it
passes. A provider answers any of `Answers` or fails. Scores are integers in hundredths and
weights in tenths; `ScoringAssumption` says that what is counted in a text is a number and
that what a profile lists is finite. Runs and evaluations are numbered by request, as the code's
`uuid4` makes them distinct.

## 3. The runs

| Run | Instance and bounds | Shows |
|---|---|---|
| `case_concurrent` | 1 case, 2 questions, 1 source, 2 workers, 5 operations, 5 requests, 1 stop; symmetry in workers and questions, a view | `ReadyIsEarned`, `ReadinessIsCurrent`, `SavedDocumentsHaveFiles`, `DecisionsAreAudited`, `CleanDraftShowsNoPendingQuestion`, `NeverUnanalysed`, `CurrentSavesKeepDecisions` |
| `case_sequential` | 2 questions, 2 sources (one marked), 1 worker, all 9 operations, 5 requests, 1 stop | `ArtifactsDescribeCase`, the refinement of `CaseGate` |
| `intake_concurrent` | 1 document, 2 titles, 1 type, decisions "approved", "rejected" and "promoted", 2 workers, 6 requests, 1 stop; symmetry | `RecordedFilesExist`, `StatusIsRecorded`, `PublicationWasApproved` |
| `intake_sequential` | 2 documents with one content, a type without directory, the same decisions and "pending_review", 1 worker, 6 requests, 1 stop | `DocumentAgreesWithDraft`, `DuplicatesAreFlagged`, the refinement of `PublicationGate` |
| `rate_limit` | 3 handlers, limit 2, window 4 ticks, stall 2, 9 ticks; deadlock checked | `AdmissionsAreSpaced`, `RefusalsAreEarned` |
| `memory_sequential` | 3 claims of which one rivals two, 2 scans, 1 worker, 5 requests, 1 stop | `ConflictsAreListedOnce`, `LedgerChains`, `ResolutionIsBacked`, `LedgerIsAppendOnly` |
| `memory_resolvers` | 2 rival claims, 2 workers, a scan and resolutions only, 5 requests, 2 stops; symmetry | `RivalsApartUnlessHalfWay` |
| `workspace` | 2 files (one with three versions, one of them undecodable), 3 documents on 2 paths, 1 intake record, 2 workers, 3 requests, 1 edit or commit, 1 stop | `GuardrailsHold`, `ServedIsReviewed`, `DiffShowsEveryEdit`, `GraphIsClosed`, `RelatedCodeIsLinked`, `HandlersEnd`; 768 searches for `SelectionIsBalanced` |
| `outputs` | 3 files, 1 document, 1 draft, 1 review, 4 evaluations of every artifact, run and the case, 2 retrieval evaluations, 2 profiles, 2 versions of the case, 2 workers, 1 generation, 1 evaluation, 1 judgement, 1 edit, 1 stop; symmetry | `VerdictIsFinal`, `RecordsHaveFiles`, `JudgeSeesWhatWasScored`, `PassMeetsProfile`, `ReviewKeepsChanges` |
| `intake_rejected`, `intake_immutable`, `memory_append` | the smallest instances in which it happens | the three disagreements of section 5 |

Why the bounds are enough. Every hazard above needs two handlers and one item they
share, so two workers and one case, document or pair meet in every order. Getting a
case to ready takes its creation, a decision on each of the two questions (the first one
analyses on demand) and a draft: four requests, and the fifth is a handler that read the
case before any of them and saves after it was ready, or that works on the ready case.
With five requests `case_concurrent` is checked up to a `VIEW`: a snapshot that its handler
will no longer save or render from is left out of what TLC compares, and so is every part of
the state that neither a guard nor a property of that run looks at (`MCRequirementCase`). Six intake requests are upload, parse, review, promote and two more. Nine
ticks are two windows and a tick, and the window is twice the stall, so that stale
cut-offs and admissions overlap. In `workspace` three requests are two scans and a review
between them, or an index, an edit under it and a graph; one edit can fall between any two
readings, and the versions of the file differ in its symbols, in where they are, and in whether it
can be read at all. In `outputs` a generation, an evaluation of it and an edit in between are what a stale
target takes; the texts reach every status (`pass`, `warning`, `fail`) and every dimension. A
judge there meets a generation and an edit, but no second judge: two of them take four times as
many states, and for them `VerdictsAreFinal` and `JudgeSees` are proved (section 4). Deadlock is off where the request bound stops the system, and on for the
limiter, whose workers can go on at the last tick.

`MaxRequests`, `MaxAborts` and `MaxClock` bound counters only TLC needs; the
theorems hold for every value of them.

Fairness. `Workspace` states `WF_vars(Step(w))` for each worker: a handler that has begun
goes on as long as it can, since a thread of the pool or a process is scheduled again and waits for
no lock and no other handler. Nothing is asked of clients, editors or stops. `HandlersEnd` says
that every handler then ends and its worker is free again, whatever is written and deleted under it. The other modules assert
safety only and state no fairness. What would be a liveness claim of the limiter, that a
lone retry a minute later is admitted, is stated as the action property `RefusalsAreEarned`.

### What the runs say

* `ReadyIsEarned` and `CleanDraftShowsNoPendingQuestion` survive every lost update,
  because a save replaces status, questions, draft and readiness together. The price is
  `CurrentSavesKeepDecisions`: only a handler with the current snapshot is sure to keep
  the decisions of others.
* `NeverUnanalysed` is why the second `_ensure_analyzed` of a role view, and every later
  request, cannot re-analyse a case behind the client's back.
* `ArtifactsDescribeCase`, `DocumentAgreesWithDraft` and the two refinements are claims
  for one client at a time, and `DuplicatesAreFlagged`, `LedgerIsAppendOnly`, `LedgerChains`
  and `ResolutionIsBacked` hold with one worker only. `memory_append` is the run that
  shows what a second worker does to the ledger.
* `ArtifactsDescribeCase` says of which version of the case each artifact is. Files and previews go
  with the brief and the draft in the row, the context pack with one of them, the trail with
  the evidence stored now. They differ: after a re-analysis with other evidence the trail is new, and
  brief, draft, files, previews and pack are still of the evidence of before. Only right after a brief all
  of them are of the row as it is.
* `RecordedFilesExist` also says who marks what as promoted. `ReviewDecision.status` is any string,
  so a reviewer who sends "promoted" marks draft and document without a file in the pack;
  no other handler does, unless one was stopped half-way.
* `ImplementsGate` of the intake is what `PublicationGate` says and no more: a file is published
  while its draft is approved, under the title the draft has then. A title edited after the approval is
  published without another review.
* `RivalsApartUnlessHalfWay`: lost appends alone never leave both rivals approved, since each resolution
  appends its rejection last. A handler stopped between its two reviews does, until the next resolution.
* The limiter admits no more than its limit per window minus the stall. With `MaxStall`
  zero that is the window itself.

* A scan whose files change between its two readings cites lines of one version for symbols of
  another. `GuardrailsHold` says that it stays self-consistent (each claim cites a span the scan
  holds), `ServedIsReviewed` that an approval does not survive an edit of the text it was given
  for, and `DiffShowsEveryEdit` that no edit of a file or a document is invisible to a diff:
  all three because the content's hash is part of a claim's id.
* `RelatedCodeIsLinked` holds for whole paths. A document that names only `job.java` gets the
  first node of that name, which may be a test or a document.
* `VerdictIsFinal` and `RecordsHaveFiles` hold for any number of judges at a time; which judge's opinion
  the row ends with, and whether it is the one in the files, is not determined.
* `ReviewKeepsChanges` is stated for up to six results. From seven on, results above a changed
  file's score of 100 can push it over `top_k + changed + 6`; the default is five.

### What the runs do not say

* Sources of code with something secret-like in them yield approved claims of class
  `public_demo`, with the excerpt redacted; only documents are quarantined, where
  `docs/memory-distillation.md` has a table row for "Sensitive or secret-like source".
* A changed file of a review is in its trail and its sources but in no group of its context pack
  (`PackEvidencePaths`), unless its path has a word such as `incident`.
* A retrieval evaluation does not look at its profile's minimum, and saves the case's pack over the
  one that an earlier evaluation refers to.
* Files can be there without a row: a review whose provider failed, an evaluation that was stopped.
* `jira_readiness` declares a case ready whose draft was rendered before its questions
  were answered; the code asks only that there be a draft.
* A draft rejected while its promotion is on the way is published all the same.
  `PublicationWasApproved` asks for an approval at some time, not for the last word.
* A handler stopped between saving a draft and saving its event leaves an approval no
  event records, which is why those properties are stated for `aborts = 0`.
* `RivalsApartUnlessHalfWay` is for handlers that resolve one pair. When reviews of other
  claims interleave, or a three-way conflict is resolved on a stale check, both rivals
  can end up approved without a stop.
* How words are counted in a search is not modelled where no property depends on it. A node of a
  graph matches by its names, concepts and metadata (`NodeMatches`), but the team, a
  signature and the words every summary has are left out, and of the nodes that `ResolveNode` gives
  the code takes the first of its list. A preferred term of a query about progress is found by its
  words wherever they stand in path, title and excerpt (`Urgency`).

## 4. The proofs

`tlapm` checks every proof from the `ASSUME`s of the modules. These type the constants
(sets and lists of the code are finite), and say besides that no item is twice in the order of claims (`MemoryGovernance`) and
what `ScoringAssumption` needs (`Outputs`). `SearchesAssumption` and `SourcesAssumption` type a
search and a review: documents, queries and results are lists, and scores are numbers. The theorems hold
for any number of workers, cases, documents, claims, files, profiles, requests and stops,
and all but those said to be for one worker for every interleaving.

* `RequirementCaseProofs`. `TypeCorrect` first. `ReadyIsEarned` is not inductive: a
  worker may save a snapshot it read long ago. The invariant says of every snapshot,
  stored or held, that it is *sound* (a ready status comes with evidence, impact,
  draft and closed questions; its readiness is that of its content except after an
  analysis or a brief; a clean draft shows no open question), and the lemmas show that
  each pure operator of the service (`Analysed`, `Decided`, `WithBrief`, `WithDraft`,
  `WithReadiness`, `WithRoleView`) keeps that. Four theorems follow from the one
  invariant; the fourth, `StaysAnalysed`, also needs that a handler past its analysis
  only saves analysed snapshots. The second half of the module follows a handler through
  its steps. `FilesInv`: every snapshot, stored or held, names files that were written, as the code writes the file
  first. `AuditInv`: a decision of a stored *or held* snapshot has its audit row or a
  handler that will write it, for a lost update can bring a decision back. `CurrentInv`:
  a handler past its analysis whose snapshot is the stored one changes only the question
  it was asked about, which is `CurrentSavesKeepDecisions`. With one worker, the steps of
  a handler are shown one by one to be steps of `CaseGate` or to leave it alone
  (`ImplementsGate`), and `ArtifactsInv` says at each step which of files, previews, pack and
  trail already go with the row and which the handler has still to write.
* `KnowledgeIntakeProofs`. `RecordedFilesExist` needs what handlers hold as well as what
  is stored: past the write of its file, a document in a handler's hands names only files
  that are there (`FilesInv`, with where a handler of each operation can be). Its last part, that without
  a stop only a reviewer's "promoted" marks a record that names no file, is `MarkedInv`: it follows the mark from
  the handler of the review into draft, document and event, and into what other handlers read. `StatusIsRecorded`
  and `PublicationWasApproved` are proved together: while nothing was stopped, every
  promotion under way has the approval of its draft recorded, or owed by the handler
  that reviewed it (`ApprovalInv`); a recorded or owed decision stays so (`RecordedGrows`).
  With one worker, `RevisionInv` relates the draft a handler will save to the stored one;
  `AgreeInv` and `FlagsInv` add what it holds of its document and of the others, and the
  three together give `DocumentAgreesWithDraft`, `DuplicatesAreFlagged` and the refinement
  of `PublicationGate`.
* `QwenRateLimitProofs`. The deque is not sorted, so the usual argument fails. The
  invariant relates deque and history: the deque stands for the last admissions in
  order, each stored time is within `MaxStall` before the real one, and what was popped
  had expired. Spacing and the cause of refusals follow.
* `MemoryGovernanceProofs`. With one worker the ledger a worker holds is the
  ledger on file, which makes `LedgerIsAppendOnly` and `LedgerChains` inductive, and
  `BackedInv` says which of its two reviews a resolution under way has behind it.
  `RivalsApart` is for any number of workers and survives lost appends: every handler
  appends *both* decisions before it ends, and a ledger, on file or held, that ends a
  resolution ends with a rejection (`EndsRejecting`), unless it ends with the approval of a handler that is
  between its reviews or was stopped there (`HalfDone`). That such a handler's resolution is not on file, and never will
  be, rests on request ids being distinct (`IdsInv`). `ConflictsListed` is about the
  double loop: because both lists have one order, of two rivals exactly one is before the
  other.
* `OutputsProofs`. The invariant has four parts: the types of what handlers hold
  (a run has one row of a kind); that the ids of a request are fresh; that a row, or a
  card a handler will make a row of, has its files; and that what a judge holds is what
  the evaluation has. For `PassMeetsProfile` every card, held or stored, *meets* its
  profile: at most one profile is used, every dimension is a number with a positive
  weight, and the weighted average is an integer between, which is an induction over the
  dimensions. `ChangesKept` is for any index, graph and scores. Results are merged by type, paths
  and name, the search's with the changes first and then these with the graph's, and of every
  item a merge keeps one that scores at least as much (`MergeFacts`). A changed file scores
  100, a node near one 20: before a change come only search results, so that it is among the first
  `2 k + Len(first)`, where `first` are the changed files (`FewBefore`). The code keeps
  `k + Len(first) + 6`, which is enough for `k <= 6`: that is where the bound of the
  property comes from. The tests of a changed file are then looked up in the index.
* `WorkspaceProofs`. The claims of a scan are described by their form: each cites the
  whole of a file or a document of the scan, or lines of a file, and its id holds the text
  it cites. From that, `GuardrailsKept`, that a difference without claims is between equal
  texts (`SameClaims`), and that an approval is of the text it cites (`CitedText`, with
  `Events`, what the ledger's events show). The invariant follows a handler through its
  readings (`Handler`, `Progress`), so that what a scan was made from were versions of its
  files.
  `SelectionBalanced` is for any documents, results and query. What was found has no item
  twice, being filtered to the first of each key (`EvidenceFacts`). The fold over the categories
  is followed category by category: those that have had their turn took at most their places and are
  missing only if nothing is left of them or the limit is reached (`BalancedTopKFacts`);
  what fills up the rest is taken when no category is waiting, and the one place for graph
  evidence is set aside from the limit.
  `RelatedCodeLinked` has a hypothesis, `PathsAreUnique`: no document, concept or other file has
  as an alias the path of a file that a document relates. Without it the property is false, as a
  document whose title is the path of a file takes that alias and is then linked to itself.
  `MCWorkspace` assumes it too, so that TLC evaluates it on the instance.
* `EvidenceGraphProofs`. A graph under construction is *closed*: finite, one node of an
  id, aliases and edges of nodes there are. That alone is not inductive, as a document is
  linked long after its node was added: a step may also rely on a graph only *growing*
  (`Grows`: no node and no edge goes away, and an alias stays with its node, though a node is
  merged with later ones of its id). `AddNodeFacts` and `AddEdgesFacts` show both for one node and some edges; each
  of the builder's loops has a lemma for its body and one for its fold, and
  `GraphFacts` puts them together. The folds need that what they run over is finite:
  `IndexFinite` shows it of every index, as all concepts are of a fixed vocabulary.
  `GraphsClosed` (in `WorkspaceProofs`) is then about every graph that is stored.
  `WholePathIsLinked` uses that aliases stay: when the related code of a document is resolved, the alias of
  a whole path belongs to a node that bore it from the start, hence to the file or its test node,
  and the edge that is added then is there in the end.
* `FoldProofs`. A fold of the community modules is a recursive function on the subsets of
  a set, chosen with `CHOOSE`. `FoldExists` shows that there is such a function for every
  finite set, and `FoldInherits` that what every step keeps holds of the whole; both are
  first order and rest on the least element of a set of naturals. `FlattenFacts` says
  what `FlattenSeq` returns. The lemmas about `Ranking` count: of finitely many positions exactly
  one has each rank, so that a list that is sorted or filtered has the same items and a
  filtered one has them in order.

`GateImplemented`, `ArtifactsDescribed`, `DocumentsAgree`, `DuplicatesFlagged`,
`AppendOnlyAlone`, `ChainsAlone` and `BackedAlone` have one worker as hypothesis
(`\A v, w \in Workers : v = w`), as the runs that check these properties have: with two
they are false.

Only model-checked: `HandlersEnd`, which is liveness and out of the prover's reach.

Each module also holds a few operators marked *Mutant*: plausible bugs of the code, each
of which makes the property named in `PROJECT.json` fail.

## 5. Disagreements met while modelling

* `intake_rejected`: `review_draft` accepts a decision on a promoted draft and leaves its
  file in the pack; `docs/knowledge-intake-pipeline.md:296` and `:377` say rejected and
  quarantined drafts are excluded from retrieval.
* `intake_immutable`: `parse_document` replaces a reviewed or promoted draft by a new one;
  `docs/knowledge-intake-pipeline.md:243` says the generated draft should remain immutable.
* `memory_append`: of two reviews at a time the ledger can lose one;
  `docs/memory-distillation.md:125` says review events are appended to a durable ledger.

## 6. What is not modelled, and what could come next

Left out for good: regular expressions and file formats (what the extractors and parsers tell apart is
modelled, how they do it is not), rendering and wording, network clients, the CLI's printing, the
web client, deployment. Not modelled although they are code of the program: configuration and
extensions (read once per call, no state of their own), human ratings (rows nothing else reads),
evidence cards and memory reports (read-only pages), concept detection in requests, and the
evaluation of an evaluation. `scripts/` generates data and documents and is not part of the system.

What could come next is an abstract specification of a scan's readers (index, scan and graph as
atomic snapshots) and in which sense `Workspace` implements it.
