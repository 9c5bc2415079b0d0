-------------------------- MODULE KnowledgeIntake --------------------------
(***************************************************************************)
(* Knowledge intake (dream/intake/service.py, repository.py): a source     *)
(* document is uploaded, parsed into a draft, reviewed, edited and         *)
(* promoted into a markdown file of the team's knowledge pack.             *)
(*                                                                         *)
(* A document and its draft are two JSON files, the pack file is a third,  *)
(* the audit row a fourth and the review event a fifth: every handler      *)
(* writes several of them one after the other, with no lock and no         *)
(* transaction, in a thread of the API's pool or in a CLI process.  A      *)
(* worker is one such thread or process; each file access is a step.       *)
(*                                                                         *)
(* The documents are those of one team.  An optional value is the set of   *)
(* its values: {} stands for None.                                         *)
(***************************************************************************)
EXTENDS Naturals

CONSTANTS
    Documents,   \* document ids (each has one draft, named after it)
    Titles,      \* titles, told apart by the slug they give the file
    Types,       \* document types as clients write them
    Normalized,  \* _normalize_document_type_value: Types -> Types
    PackTypes,   \* types team.yaml has a directory for ({}: no check)
    Hashes,      \* hashes of source contents
    Decisions,   \* statuses reviewers give: any text, the code's own statuses too
    Workers,     \* handler threads and CLI processes
    MaxRequests, \* bound: requests issued
    MaxAborts    \* bound: handlers that stop half-way

ASSUME ConstantsAssumption ==
    /\ Normalized \in [Types -> Types]
    /\ PackTypes \subseteq Types
    /\ "approved" \in Decisions
    /\ "none" \notin Decisions
    /\ MaxRequests \in Nat
    /\ MaxAborts \in Nat

VARIABLES
    documents, \* intake/documents/<id>.json
    drafts,    \* intake/drafts/draft-<id>/draft.json
    raw,       \* documents whose source was copied to intake/uploads
    pack,      \* markdown files of the knowledge pack, by document
    audit,     \* audit_runs: the status of the last run under each run id
    events,    \* intake/drafts/draft-<id>/review-events/*.json
    worker,    \* where each worker is in its handler, and what it holds
    requests,  \* requests issued so far
    aborts     \* handlers stopped so far

stores == <<documents, drafts, raw, pack, audit, events>>
vars == <<stores, worker, requests, aborts>>
bounds == <<requests, aborts>>

-----------------------------------------------------------------------------
(* Data *)

\* "none" stands for a file that is not there, and is no status of the code.

\* docs/<type>/<slug of title>-<document id>.md
Path == [title : Titles, type : Types]

Maybe(S) == {m \in SUBSET S : \A x, y \in m : x = y}

DraftStatus == {"none", "pending_review", "promoted"} \cup Decisions

DocumentStatus == {"none", "uploaded", "parsed", "promoted"} \cup Decisions

Document == [status   : DocumentStatus,
             hash     : SUBSET Hashes,
             title    : Maybe(Titles),
             type     : Maybe(Types),
             promoted : Maybe(Path),
             warnings : SUBSET Documents]

Draft == [status   : DraftStatus,
          title    : Maybe(Titles),
          type     : Maybe(Types),
          promoted : Maybe(Path)]

NoDocument == [status |-> "none", hash |-> {}, title |-> {}, type |-> {},
               promoted |-> {}, warnings |-> {}]

NoDraft == [status |-> "none", title |-> {}, type |-> {}, promoted |-> {}]

Uploaded(hash, title, type, duplicates) ==
    [NoDocument EXCEPT !.status = "uploaded", !.hash = {hash}, !.title = {title},
                       !.type = {type}, !.warnings = duplicates]

\* Mutant: the draft is given the status of its document.
ParsedDraftAsDocument(document) ==
    [status |-> "parsed", title |-> document.title, type |-> document.type, promoted |-> {}]

\* parse_document: a new draft, whatever there was before.
ParsedDraft(document) ==
    [status |-> "pending_review", title |-> document.title, type |-> document.type,
     promoted |-> {}]

TargetPaths(draft) == [title : draft.title, type : draft.type]

PromotedDraft(draft) ==
    LET normal == [draft EXCEPT !.type = {Normalized[t] : t \in @}]
    IN  [normal EXCEPT !.status = "promoted", !.promoted = TargetPaths(normal)]

ValidType(type) == PackTypes = {} \/ Normalized[type] \in PackTypes

\* Mutant: only documents still waiting to be parsed are compared.
DuplicatesAmongUploaded(hash) ==
    {d \in Documents : hash \in documents[d].hash /\ documents[d].status = "uploaded"}

\* find_by_source_hash returns the first match, in the order of random ids.
Duplicates(hash) == {d \in Documents : hash \in documents[d].hash}

\* IntakeRepository._with_promoted_path: a promoted document read without its
\* path takes the path of its draft.
WithPromotedPath(d) ==
    IF documents[d].status = "promoted" /\ documents[d].promoted = {}
    THEN [documents[d] EXCEPT !.promoted = drafts[d].promoted]
    ELSE documents[d]

\* Mutant: an edited type stays in the draft.
AmendedTitle(document, op, draft) ==
    CASE op = "review"   -> [document EXCEPT !.status = draft.status]
      [] op = "metadata" -> [document EXCEPT !.title = draft.title]
      [] op = "promote"  -> [document EXCEPT !.status = "promoted", !.type = draft.type,
                                             !.promoted = draft.promoted]

\* What a handler puts into the document of the draft it has changed.
Amended(document, op, draft) ==
    CASE op = "review"   -> [document EXCEPT !.status = draft.status]
      [] op = "metadata" -> [document EXCEPT !.title = draft.title, !.type = draft.type]
      [] op = "promote"  -> [document EXCEPT !.status = "promoted", !.type = draft.type,
                                             !.promoted = draft.promoted]

-----------------------------------------------------------------------------
(* Workers *)

Ops == {"upload", "parse", "review", "metadata", "promote"}

EventOps == {"review", "metadata", "promote"}

Pcs == {"copy_raw", "get_document", "write_pack", "save_document", "save_draft",
        "log", "event"}

Idle == [pc |-> "idle"]

\* previous is the review status the event will record as the one before.
Busy == [pc : Pcs, op : Ops, doc : Documents, document : Document, draft : Draft,
         previous : DraftStatus]

\* Mutant: a promotion is recorded before the pack file is written.
AfterRecordFirst(op, pc) ==
    CASE pc = "copy_raw"      -> "save_document"
      [] pc = "get_document"  -> IF op = "promote" THEN "save_draft" ELSE "save_document"
      [] pc = "write_pack"    -> "save_document"
      [] pc = "save_document" -> IF op \in {"upload", "promote"} THEN "log" ELSE "save_draft"
      [] pc = "save_draft"    -> IF op = "promote" THEN "write_pack" ELSE "log"
      [] pc = "log"           -> "event"

\* The order in which each handler touches its files.
After(op, pc) ==
    CASE pc = "copy_raw"      -> "save_document"
      [] pc = "get_document"  -> IF op = "promote" THEN "write_pack" ELSE "save_document"
      [] pc = "write_pack"    -> "save_draft"
      [] pc = "save_document" -> IF op \in {"upload", "promote"} THEN "log" ELSE "save_draft"
      [] pc = "save_draft"    -> IF op = "promote" THEN "save_document" ELSE "log"
      [] pc = "log"           -> "event"

Event == [op : EventOps, doc : Documents,
          previous : DraftStatus, new : DraftStatus]

TypeOK ==
    /\ documents \in [Documents -> Document]
    /\ drafts \in [Documents -> Draft]
    /\ raw \subseteq Documents
    /\ pack \in [Documents -> SUBSET Path]
    /\ audit \in [Ops -> [Documents -> SUBSET (DocumentStatus \cup DraftStatus)]]
    /\ events \subseteq Event
    /\ worker \in [Workers -> {Idle} \cup Busy]
    /\ requests \in Nat
    /\ aborts \in Nat

Init ==
    /\ documents = [d \in Documents |-> NoDocument]
    /\ drafts = [d \in Documents |-> NoDraft]
    /\ raw = {}
    /\ pack = [d \in Documents |-> {}]
    /\ audit = [op \in Ops |-> [d \in Documents |-> {}]]
    /\ events = {}
    /\ worker = [w \in Workers |-> Idle]
    /\ requests = 0
    /\ aborts = 0

-----------------------------------------------------------------------------
(* Requests: the first read of a handler, and the guards checked on it.  A *)
(* request that is refused changes nothing and is not a step.              *)

Serve(w, op, d, pc, document, draft) ==
    /\ worker[w] = Idle
    /\ requests < MaxRequests
    /\ requests' = requests + 1
    /\ worker' = [worker EXCEPT ![w] =
                    [pc |-> pc, op |-> op, doc |-> d, document |-> document,
                     draft |-> draft, previous |-> drafts[d].status]]
    /\ UNCHANGED <<stores, aborts>>

\* upload_local_file and upload_file_content: the look-up of duplicates comes
\* first; the id is fresh.
Upload(w, d, hash, title, type) ==
    /\ documents[d].status = "none"
    /\ \A v \in Workers : worker[v] # Idle => worker[v].doc # d
    /\ d \notin raw
    /\ \E duplicates \in SUBSET Duplicates(hash) :
          /\ \A x, y \in duplicates : x = y
          /\ duplicates = {} <=> Duplicates(hash) = {}
          /\ Serve(w, "upload", d, "copy_raw", Uploaded(hash, title, type, duplicates), NoDraft)

ParseDocument(w, d) ==
    /\ documents[d].status # "none"
    /\ Serve(w, "parse", d, "save_document",
             [WithPromotedPath(d) EXCEPT !.status = "parsed"],
             ParsedDraft(documents[d]))

\* review_draft: the status is stored as the client sent it; ReviewDecision has
\* no list of statuses, so it may be "promoted" or "pending_review".
ReviewDraft(w, d, decision) ==
    /\ drafts[d].status # "none"
    /\ Serve(w, "review", d, "get_document", NoDocument,
             [drafts[d] EXCEPT !.status = decision])

\* Mutant: promoted drafts can be edited.
UpdateAnyMetadata(w, d) ==
    /\ drafts[d].status # "none"
    /\ \E title \in {{t} : t \in Titles} :
            Serve(w, "metadata", d, "get_document", NoDocument,
                 [drafts[d] EXCEPT !.title = title])

\* update_draft_metadata: a title or a type that is not given is kept.
UpdateDraftMetadata(w, d) ==
    /\ drafts[d].status \notin {"none", "promoted"}
    /\ \E title \in {drafts[d].title} \cup {{t} : t \in Titles},
          type \in {drafts[d].type} \cup {{Normalized[t]} : t \in {u \in Types : ValidType(u)}} :
            Serve(w, "metadata", d, "get_document", NoDocument,
                 [drafts[d] EXCEPT !.title = title, !.type = type])

\* Mutant: any draft can be promoted.
PromoteUnapproved(w, d) ==
    /\ drafts[d].status # "none"
    /\ \A t \in drafts[d].type : ValidType(t)
    /\ Serve(w, "promote", d, "get_document", NoDocument, PromotedDraft(drafts[d]))

PromoteDraft(w, d) ==
    /\ drafts[d].status = "approved"
    /\ \A t \in drafts[d].type : ValidType(t)
    /\ Serve(w, "promote", d, "get_document", NoDocument, PromotedDraft(drafts[d]))

-----------------------------------------------------------------------------
(* The other steps of a handler *)

Moved(w) == [worker EXCEPT ![w].pc = After(worker[w].op, worker[w].pc)]
Return(w) == worker' = [worker EXCEPT ![w] = Idle]

CopyRaw(w) ==
    /\ worker[w].pc = "copy_raw"
    /\ raw' = raw \cup {worker[w].doc}
    /\ worker' = Moved(w)
    /\ UNCHANGED <<documents, drafts, pack, audit, events, bounds>>

\* The second read of a handler that began with the draft.
GetDocument(w) ==
    /\ worker[w].pc = "get_document"
    /\ worker' = [Moved(w) EXCEPT ![w].document =
                    Amended(WithPromotedPath(worker[w].doc), worker[w].op, worker[w].draft)]
    /\ UNCHANGED <<stores, bounds>>

\* promote_draft writes the pack file before it records that it did.
WritePack(w) ==
    /\ worker[w].pc = "write_pack"
    /\ pack' = [pack EXCEPT ![worker[w].doc] = @ \cup worker[w].draft.promoted]
    /\ worker' = Moved(w)
    /\ UNCHANGED <<documents, drafts, raw, audit, events, bounds>>

SaveDocument(w) ==
    /\ worker[w].pc = "save_document"
    /\ documents' = [documents EXCEPT ![worker[w].doc] = worker[w].document]
    /\ worker' = Moved(w)
    /\ UNCHANGED <<drafts, raw, pack, audit, events, bounds>>

SaveDraft(w) ==
    /\ worker[w].pc = "save_draft"
    /\ drafts' = [drafts EXCEPT ![worker[w].doc] = worker[w].draft]
    /\ worker' = Moved(w)
    /\ UNCHANGED <<documents, raw, pack, audit, events, bounds>>

\* Mutant: a review leaves no event.
LogReviewOnly(w) ==
    /\ worker[w].pc = "log"
    /\ audit' = [audit EXCEPT ![worker[w].op][worker[w].doc] =
                    {IF worker[w].op \in EventOps THEN worker[w].draft.status
                     ELSE worker[w].document.status}]
    /\ IF worker[w].op \in {"metadata", "promote"} THEN worker' = Moved(w) ELSE Return(w)
    /\ UNCHANGED <<documents, drafts, raw, pack, events, bounds>>

\* log_generation: INSERT OR REPLACE of the row of this operation and document.
Log(w) ==
    /\ worker[w].pc = "log"
    /\ audit' = [audit EXCEPT ![worker[w].op][worker[w].doc] =
                    {IF worker[w].op \in EventOps THEN worker[w].draft.status
                     ELSE worker[w].document.status}]
    /\ IF worker[w].op \in EventOps THEN worker' = Moved(w) ELSE Return(w)
    /\ UNCHANGED <<documents, drafts, raw, pack, events, bounds>>

SaveReviewEvent(w) ==
    /\ worker[w].pc = "event"
    /\ events' = events \cup {[op |-> worker[w].op, doc |-> worker[w].doc,
                               previous |-> worker[w].previous, new |-> worker[w].draft.status]}
    /\ Return(w)
    /\ UNCHANGED <<documents, drafts, raw, pack, audit, bounds>>

\* A file cannot be read or written, or the process is killed: the handler
\* stops where it is and what it has written stays.
Abort(w) ==
    /\ worker[w] # Idle
    /\ aborts < MaxAborts
    /\ aborts' = aborts + 1
    /\ Return(w)
    /\ UNCHANGED <<stores, requests>>

Request(w, d) ==
    \/ \E hash \in Hashes, title \in Titles, type \in Types : Upload(w, d, hash, title, type)
    \/ ParseDocument(w, d)
    \/ \E decision \in Decisions : ReviewDraft(w, d, decision)
    \/ UpdateDraftMetadata(w, d)
    \/ PromoteDraft(w, d)

Step(w) ==
    \/ CopyRaw(w) \/ GetDocument(w) \/ WritePack(w)
    \/ SaveDocument(w) \/ SaveDraft(w) \/ Log(w) \/ SaveReviewEvent(w)

Next ==
    \E w \in Workers :
        \/ \E d \in Documents : Request(w, d)
        \/ Step(w)
        \/ Abort(w)

Spec == Init /\ [][Next]_vars

-----------------------------------------------------------------------------
(* Properties *)

Idling == \A w \in Workers : worker[w] = Idle

\* The handler of w has saved its draft and has yet to save its event.
OwesEvent(w) ==
    /\ worker[w] # Idle
    /\ worker[w].op \in EventOps
    /\ \/ worker[w].pc \in {"log", "event"}
       \/ worker[w].op = "promote" /\ worker[w].pc = "save_document"

\* Decision s on document d is in the review-event ledger, or the handler that
\* took it is about to put it there.
Recorded(d, s) ==
    \/ \E e \in events : e.doc = d /\ e.new = s
    \/ \E w \in Workers : OwesEvent(w) /\ worker[w].doc = d /\ worker[w].draft.status = s

\* While no handler was stopped half-way, a draft has another status than
\* "pending_review" only when the ledger of review events says so (or is about
\* to), however reviews, edits and promotions of the draft overwrite each other.
StatusIsRecorded ==
    aborts = 0 => \A d \in Documents :
        drafts[d].status \notin {"none", "pending_review"} => Recorded(d, drafts[d].status)

\* While no handler was stopped half-way, a document is in the knowledge pack
\* only when a reviewer approved its draft at some time.
PublicationWasApproved ==
    aborts = 0 => \A d \in Documents : pack[d] # {} => Recorded(d, "approved")

\* A reviewer has sent "promoted" as the decision on d.
ReviewedAsPromoted(d) ==
    \/ \E e \in events : e.op = "review" /\ e.doc = d /\ e.new = "promoted"
    \/ \E w \in Workers : /\ worker[w] # Idle
                           /\ worker[w].op = "review" /\ worker[w].doc = d
                           /\ worker[w].draft.status = "promoted"

\* Every file a record names is there, at every point where a handler can be
\* stopped or overtaken: the source of a stored document, and in the knowledge
\* pack the promoted file a document or a draft points at.  A "promoted" record
\* that points at none got its status from a reviewer (review_draft takes any)
\* and never from a promotion; a handler that is stopped may hide who it was.
RecordedFilesExist ==
    \A d \in Documents :
        /\ documents[d].status # "none" => d \in raw
        /\ documents[d].promoted \cup drafts[d].promoted \subseteq pack[d]
        /\ \/ documents[d].status = "promoted" /\ documents[d].promoted = {}
           \/ drafts[d].status = "promoted" /\ drafts[d].promoted = {}
           => aborts > 0 \/ ReviewedAsPromoted(d)

\* With one worker and no handler stopped half-way, the document and its draft
\* tell the same story whenever no handler runs; only a draft that nobody has
\* reviewed is "pending_review" while its document is "parsed".
DocumentAgreesWithDraft ==
    (aborts = 0 /\ Idling) => \A d \in Documents :
        drafts[d].status # "none" =>
            /\ \/ documents[d].status = drafts[d].status
               \/ documents[d].status = "parsed" /\ drafts[d].status = "pending_review"
            /\ documents[d].title = drafts[d].title
            /\ documents[d].type = drafts[d].type
            /\ drafts[d].promoted \subseteq documents[d].promoted

\* With one worker, of two documents with the same source the later one names
\* an earlier one in a duplicate warning, even when its handler then stops.
DuplicatesAreFlagged ==
    \A d, e \in Documents :
        d # e /\ documents[d].hash \cap documents[e].hash # {} =>
            documents[d].warnings \cup documents[e].warnings # {}

\* One client at a time sees a publication gate: see PublicationGate.
Gate == INSTANCE PublicationGate WITH
            review <- [d \in Documents |-> drafts[d].status],
            title <- [d \in Documents |-> drafts[d].title],
            published <- [d \in Documents |-> {path.title : path \in pack[d]}]

\* With one worker the intake implements the publication gate: see above.
ImplementsGate == Gate!Spec

\* docs/knowledge-intake-pipeline.md:296 and :377 - "rejected or quarantined
\* drafts are excluded from retrieval"; retrieval reads the pack's files.
RejectedDraftsAreNotInPack ==
    \A d \in Documents :
        Idling /\ drafts[d].status \in {"rejected", "quarantined"} => pack[d] = {}

\* docs/knowledge-intake-pipeline.md:243 - reviewers edit metadata before
\* promotion; "the raw source file and generated draft should remain immutable
\* so the audit trail stays stable".
PromotedDraftsAreNotEdited ==
    [][\A d \in Documents :
        drafts[d].status = "promoted" => drafts'[d] = drafts[d]]_drafts
=============================================================================
