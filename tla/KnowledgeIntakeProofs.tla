----------------------- MODULE KnowledgeIntakeProofs -----------------------
(***************************************************************************)
(* Proofs about KnowledgeIntake, for any number of documents, handlers and *)
(* requests, in any interleaving, and then for one handler at a time.      *)
(*                                                                         *)
(* WorkerOK says where a handler of each operation can be and what it      *)
(* holds; with it the type is inductive.  FilesInv adds to the property    *)
(* RecordedFilesExist what a handler that is about to save must hold,      *)
(* MarkedInv where a record marked promoted without a file comes from, and *)
(* ApprovalInv that a promotion under way was approved.                    *)
(*                                                                         *)
(* With one worker (Alone) the document and its draft agree, duplicates    *)
(* are flagged, and the review of drafts is the gate of PublicationGate.   *)
(* Each of these follows a handler between its reads and its last save:    *)
(* RevisionInv relates the draft it will save to the stored one, AgreeInv  *)
(* and FlagsInv say what else it holds.                                    *)
(***************************************************************************)
EXTENDS KnowledgeIntake, TLAPS

LEMMA MaybeEmpty == \A S : {} \in Maybe(S)
  BY DEF Maybe

LEMMA MaybeOne == \A S : \A x \in S : {x} \in Maybe(S)
  BY DEF Maybe

\* The steps each operation has, and the status of the draft it holds.
WorkerOK ==
    \A w \in Workers : worker[w] # Idle =>
        /\ worker[w].pc = "copy_raw" => worker[w].op = "upload"
        /\ worker[w].pc \in {"get_document", "event"} => worker[w].op \in EventOps
        /\ worker[w].pc = "write_pack" => worker[w].op = "promote"
        /\ worker[w].pc = "save_draft" => worker[w].op # "upload"
        /\ worker[w].op = "upload" => worker[w].document.status = "uploaded"
        /\ worker[w].op = "parse" => worker[w].draft.status = "pending_review"
        /\ worker[w].op = "review" => worker[w].draft.status \in Decisions
        /\ worker[w].op = "metadata" => worker[w].draft.status \notin {"none", "promoted"}
        /\ worker[w].op = "promote" => worker[w].draft.status = "promoted"

TypeInv == TypeOK /\ WorkerOK

-----------------------------------------------------------------------------
(* Types of the operators *)

LEMMA NothingType == NoDocument \in Document /\ NoDraft \in Draft
  BY MaybeEmpty DEF NoDocument, NoDraft, Document, Draft, DocumentStatus, DraftStatus

LEMMA UploadedType ==
  ASSUME NEW hash \in Hashes, NEW title \in Titles, NEW type \in Types,
         NEW duplicates \in SUBSET Documents
  PROVE  /\ Uploaded(hash, title, type, duplicates) \in Document
         /\ Uploaded(hash, title, type, duplicates).status = "uploaded"
         /\ Uploaded(hash, title, type, duplicates).promoted = {}
<1>1. {title} \in Maybe(Titles) /\ {type} \in Maybe(Types) /\ {} \in Maybe(Path)
  BY MaybeOne, MaybeEmpty
<1>. QED  BY <1>1 DEF Uploaded, NoDocument, Document, DocumentStatus

LEMMA ParsedDraftType ==
  ASSUME NEW document \in Document PROVE ParsedDraft(document) \in Draft
  BY MaybeEmpty DEF ParsedDraft, Document, Draft, DraftStatus

LEMMA PromotedDraftType ==
  ASSUME NEW draft \in Draft
  PROVE  /\ PromotedDraft(draft) \in Draft
         /\ PromotedDraft(draft).status = "promoted"
         /\ draft.title # {} /\ draft.type # {} => PromotedDraft(draft).promoted # {}
<1>. DEFINE types == {Normalized[t] : t \in draft.type}
            paths == [title : draft.title, type : types]
<1>1. types \in Maybe(Types) /\ (draft.type # {} => types # {})
  BY ConstantsAssumption DEF Draft, Maybe
<1>2. draft.title \in Maybe(Titles)
  BY DEF Draft
<1>3. paths \in Maybe(Path)
  <2>. HIDE DEF types
  <2>. QED  BY <1>1, <1>2 DEF Maybe, Path
<1>4. draft.title # {} /\ draft.type # {} => paths # {}
  <2>. SUFFICES ASSUME draft.title # {}, draft.type # {} PROVE paths # {}
    OBVIOUS
  <2>1. PICK title \in draft.title, type \in types : TRUE
    BY <1>1
  <2>2. [title |-> title, type |-> type] \in paths
    OBVIOUS
  <2>. QED  BY <2>2
<1>5. PromotedDraft(draft) = [[draft EXCEPT !.type = types]
                                EXCEPT !.status = "promoted", !.promoted = paths]
  BY DEF PromotedDraft, TargetPaths, Draft
<1>. HIDE DEF types, paths
<1>. QED  BY <1>1, <1>3, <1>4, <1>5 DEF Draft, DraftStatus

LEMMA WithPromotedPathType ==
  ASSUME TypeOK, NEW d \in Documents PROVE WithPromotedPath(d) \in Document
<1>. DEFINE path == drafts[d].promoted
            document == documents[d]
<1>1. document \in Document /\ path \in Maybe(Path)
  BY DEF TypeOK, Draft
<1>2. [document EXCEPT !.promoted = path] \in Document
  <2>. HIDE DEF path, document
  <2>. QED  BY <1>1 DEF Document
<1>. QED  BY <1>1, <1>2 DEF WithPromotedPath

LEMMA AmendedType ==
  ASSUME NEW document \in Document, NEW op \in EventOps, NEW draft \in Draft,
         op = "review" => draft.status \in Decisions
  PROVE  Amended(document, op, draft) \in Document
  BY DEF Amended, EventOps, Document, Draft, DocumentStatus

LEMMA AfterType ==
  ASSUME NEW op \in Ops, NEW pc \in Pcs, pc # "event"
  PROVE  /\ After(op, pc) \in Pcs
         /\ After(op, pc) # "copy_raw" /\ After(op, pc) # "get_document"
         /\ After(op, pc) = "event" => pc = "log"
         /\ After(op, pc) = "write_pack" => pc = "get_document" /\ op = "promote"
         /\ After(op, pc) = "save_draft" => pc = "write_pack" \/ op # "upload"
  BY DEF After, Pcs

LEMMA AtPc ==
  ASSUME TypeOK, NEW w \in Workers, worker[w].pc \in Pcs
  PROVE  worker[w] # Idle /\ worker[w] \in Busy
  BY DEF TypeOK, Idle, Pcs

-----------------------------------------------------------------------------
(* Type correctness *)

\* WorkerOK of one request.
RequestOK(r) ==
    /\ r.pc = "copy_raw" => r.op = "upload"
    /\ r.pc \in {"get_document", "event"} => r.op \in EventOps
    /\ r.pc = "write_pack" => r.op = "promote"
    /\ r.pc = "save_draft" => r.op # "upload"
    /\ r.op = "upload" => r.document.status = "uploaded"
    /\ r.op = "parse" => r.draft.status = "pending_review"
    /\ r.op = "review" => r.draft.status \in Decisions
    /\ r.op = "metadata" => r.draft.status \notin {"none", "promoted"}
    /\ r.op = "promote" => r.draft.status = "promoted"

\* A step that gives one worker a proper request, or none, keeps the others'.
LEMMA WorkerFrame ==
  ASSUME TypeInv, NEW w \in Workers, NEW r \in {Idle} \cup Busy, r # Idle => RequestOK(r),
         worker' = [worker EXCEPT ![w] = r]
  PROVE  worker' \in [Workers -> {Idle} \cup Busy] /\ WorkerOK'
<1>1. worker \in [Workers -> {Idle} \cup Busy]
  BY DEF TypeInv, TypeOK
<1>2. worker' \in [Workers -> {Idle} \cup Busy]
  BY <1>1
<1>3. ASSUME NEW v \in Workers, worker'[v] # Idle PROVE RequestOK(worker'[v])
  <2>1. CASE v = w
    BY <1>1, <1>3, <2>1
  <2>2. CASE v # w
    <3>1. worker'[v] = worker[v] /\ worker[v] # Idle
      BY <1>1, <1>3, <2>2
    <3>2. RequestOK(worker[v])
      BY <3>1 DEF TypeInv, WorkerOK, RequestOK
    <3>. QED  BY <3>1, <3>2
  <2>. QED  BY <2>1, <2>2
<1>. QED  BY <1>2, <1>3 DEF WorkerOK, RequestOK

\* Moving on to the next step of the same request.
LEMMA MovedOK ==
  ASSUME TypeInv, NEW w \in Workers, worker[w].pc \in Pcs, worker[w].pc # "event",
         worker[w].pc = "log" => worker[w].op \in EventOps
  PROVE  LET r == [worker[w] EXCEPT !.pc = After(worker[w].op, worker[w].pc)]
         IN  /\ worker[w] \in Busy /\ RequestOK(worker[w])
             /\ r \in Busy /\ r # Idle /\ RequestOK(r)
             /\ Moved(w) = [worker EXCEPT ![w] = r]
<1>1. worker[w] # Idle /\ worker[w] \in Busy
  BY AtPc DEF TypeInv
<1>2. RequestOK(worker[w])
  BY <1>1 DEF TypeInv, WorkerOK, RequestOK
<1>. DEFINE pc == After(worker[w].op, worker[w].pc)
            r == [worker[w] EXCEPT !.pc = pc]
<1>3. /\ pc \in Pcs
      /\ pc # "copy_raw" /\ pc # "get_document"
      /\ pc = "event" => worker[w].op \in EventOps
      /\ pc = "write_pack" => worker[w].op = "promote"
      /\ pc = "save_draft" => worker[w].op # "upload"
  BY <1>1, <1>2, AfterType DEF Busy, RequestOK
<1>. HIDE DEF pc
<1>4. r \in Busy /\ r.pc = pc /\ r.op = worker[w].op /\ r.draft = worker[w].draft
      /\ r.document = worker[w].document
  BY <1>1, <1>3 DEF Busy
<1>5. r # Idle
  BY <1>3, <1>4 DEF Idle, Pcs
<1>6. RequestOK(r)
  <2>. HIDE DEF r
  <2>. QED  BY <1>2, <1>3, <1>4 DEF RequestOK
<1>7. Moved(w) = [worker EXCEPT ![w] = r]
  BY <1>1 DEF Moved, pc, TypeInv, TypeOK
<1>. QED  BY <1>1, <1>2, <1>4, <1>5, <1>6, <1>7 DEF pc

LEMMA InitType == Init => TypeInv
<1>. SUFFICES ASSUME Init PROVE TypeInv
  OBVIOUS
<1>1. documents \in [Documents -> Document] /\ drafts \in [Documents -> Draft]
  BY NothingType DEF Init
<1>2. audit \in [Ops -> [Documents -> SUBSET (DocumentStatus \cup DraftStatus)]]
  BY DEF Init
<1>. QED  BY <1>1, <1>2 DEF Init, TypeInv, TypeOK, WorkerOK

LEMMA ServeType ==
  ASSUME TypeInv, NEW w \in Workers, NEW op \in Ops, NEW d \in Documents, NEW pc \in Pcs,
         NEW document \in Document, NEW draft \in Draft,
         RequestOK([pc |-> pc, op |-> op, doc |-> d, document |-> document,
                    draft |-> draft, previous |-> drafts[d].status]),
         Serve(w, op, d, pc, document, draft)
  PROVE  TypeInv'
<1>. DEFINE r == [pc |-> pc, op |-> op, doc |-> d, document |-> document,
                  draft |-> draft, previous |-> drafts[d].status]
<1>1. drafts[d].status \in DraftStatus
  BY DEF TypeInv, TypeOK, Draft
<1>2. r \in Busy
  BY <1>1 DEF Busy
<1>3. worker' = [worker EXCEPT ![w] = r]
  BY DEF Serve
<1>4. worker' \in [Workers -> {Idle} \cup Busy] /\ WorkerOK'
  <2>. HIDE DEF r
  <2>. QED  BY <1>2, <1>3, WorkerFrame DEF r
<1>5. requests' \in Nat /\ aborts' = aborts
  BY DEF Serve, TypeInv, TypeOK
<1>6. /\ documents' = documents /\ drafts' = drafts /\ raw' = raw
      /\ pack' = pack /\ audit' = audit /\ events' = events
  BY DEF Serve, stores
<1>. QED  BY <1>4, <1>5, <1>6 DEF TypeInv, TypeOK

\* What each request asks a worker to serve.
LEMMA RequestForms ==
  ASSUME TypeInv, NEW w \in Workers, NEW d \in Documents, Request(w, d)
  PROVE  \/ \E hash \in Hashes, title \in Titles, type \in Types,
               duplicates \in SUBSET Documents :
               /\ documents[d].status = "none"
               /\ Serve(w, "upload", d, "copy_raw", Uploaded(hash, title, type, duplicates),
                        NoDraft)
         \/ /\ documents[d].status # "none"
            /\ Serve(w, "parse", d, "save_document",
                     [WithPromotedPath(d) EXCEPT !.status = "parsed"], ParsedDraft(documents[d]))
         \/ \E decision \in Decisions :
               /\ drafts[d].status # "none"
               /\ Serve(w, "review", d, "get_document", NoDocument,
                        [drafts[d] EXCEPT !.status = decision])
         \/ \E title \in Maybe(Titles), type \in Maybe(Types) :
               /\ drafts[d].status \notin {"none", "promoted"}
               /\ drafts[d].title # {} => title # {}
               /\ drafts[d].type # {} => type # {}
               /\ Serve(w, "metadata", d, "get_document", NoDocument,
                        [drafts[d] EXCEPT !.title = title, !.type = type])
         \/ /\ drafts[d].status = "approved"
            /\ Serve(w, "promote", d, "get_document", NoDocument, PromotedDraft(drafts[d]))
<1>1. CASE \E hash \in Hashes, title \in Titles, type \in Types : Upload(w, d, hash, title, type)
  <2>1. PICK hash \in Hashes, title \in Titles, type \in Types : Upload(w, d, hash, title, type)
    BY <1>1
  <2>2. PICK duplicates \in SUBSET Duplicates(hash) :
           /\ documents[d].status = "none"
           /\ Serve(w, "upload", d, "copy_raw", Uploaded(hash, title, type, duplicates), NoDraft)
    BY <2>1 DEF Upload
  <2>3. duplicates \in SUBSET Documents
    BY DEF Duplicates
  <2>. QED  BY <2>2, <2>3
<1>2. CASE ParseDocument(w, d)
  BY <1>2 DEF ParseDocument
<1>3. CASE \E decision \in Decisions : ReviewDraft(w, d, decision)
  BY <1>3 DEF ReviewDraft
<1>4. CASE UpdateDraftMetadata(w, d)
  <2>1. PICK title \in {drafts[d].title} \cup {{t} : t \in Titles},
             type \in {drafts[d].type} \cup {{Normalized[t]} : t \in {u \in Types : ValidType(u)}} :
               /\ drafts[d].status \notin {"none", "promoted"}
               /\ Serve(w, "metadata", d, "get_document", NoDocument,
                        [drafts[d] EXCEPT !.title = title, !.type = type])
    BY <1>4 DEF UpdateDraftMetadata
  <2>0. drafts[d].title \in Maybe(Titles) /\ drafts[d].type \in Maybe(Types)
    BY DEF TypeInv, TypeOK, Draft
  <2>2. title \in Maybe(Titles) /\ (drafts[d].title # {} => title # {})
    <3>1. CASE title = drafts[d].title
      BY <2>0, <3>1
    <3>2. CASE title \in {{t} : t \in Titles}
      <4>1. PICK t \in Titles : title = {t}
        BY <3>2
      <4>2. {t} \in Maybe(Titles)
        BY MaybeOne
      <4>. QED  BY <4>1, <4>2
    <3>. QED  BY <3>1, <3>2
  <2>3. type \in Maybe(Types) /\ (drafts[d].type # {} => type # {})
    <3>1. CASE type = drafts[d].type
      BY <2>0, <3>1
    <3>2. CASE type \in {{Normalized[t]} : t \in {u \in Types : ValidType(u)}}
      <4>1. PICK t \in Types : type = {Normalized[t]}
        BY <3>2
      <4>2. Normalized[t] \in Types
        BY ConstantsAssumption
      <4>3. {Normalized[t]} \in Maybe(Types)
        BY <4>2, MaybeOne
      <4>. QED  BY <4>1, <4>3
    <3>. QED  BY <3>1, <3>2
  <2>. QED  BY <2>1, <2>2, <2>3
<1>5. CASE PromoteDraft(w, d)
  BY <1>5 DEF PromoteDraft
<1>. QED  BY <1>1, <1>2, <1>3, <1>4, <1>5 DEF Request

LEMMA RequestType ==
  ASSUME TypeInv, NEW w \in Workers, NEW d \in Documents, Request(w, d)
  PROVE  TypeInv'
<1>. USE DEF Ops, EventOps, Pcs
<1>0. documents[d] \in Document /\ drafts[d] \in Draft
  BY DEF TypeInv, TypeOK
<1>1. ASSUME NEW hash \in Hashes, NEW title \in Titles, NEW type \in Types,
             NEW duplicates \in SUBSET Documents,
             Serve(w, "upload", d, "copy_raw", Uploaded(hash, title, type, duplicates), NoDraft)
      PROVE  TypeInv'
  <2>. DEFINE document == Uploaded(hash, title, type, duplicates)
  <2>1. document \in Document /\ document.status = "uploaded" /\ NoDraft \in Draft
    BY UploadedType, NothingType
  <2>. HIDE DEF document
  <2>2. Serve(w, "upload", d, "copy_raw", document, NoDraft)
    BY <1>1 DEF document
  <2>. QED  BY <2>1, <2>2, ServeType DEF RequestOK
<1>2. ASSUME Serve(w, "parse", d, "save_document",
                   [WithPromotedPath(d) EXCEPT !.status = "parsed"], ParsedDraft(documents[d]))
      PROVE  TypeInv'
  <2>. DEFINE document == [WithPromotedPath(d) EXCEPT !.status = "parsed"]
              draft == ParsedDraft(documents[d])
  <2>1. document \in Document
    BY WithPromotedPathType DEF TypeInv, Document, DocumentStatus
  <2>2. draft \in Draft /\ draft.status = "pending_review"
    BY <1>0, ParsedDraftType DEF ParsedDraft
  <2>. HIDE DEF document, draft
  <2>3. Serve(w, "parse", d, "save_document", document, draft)
    BY <1>2 DEF document, draft
  <2>. QED  BY <2>1, <2>2, <2>3, ServeType DEF RequestOK
<1>3. ASSUME NEW op \in EventOps, NEW draft \in Draft,
             Serve(w, op, d, "get_document", NoDocument, draft),
             op = "review" => draft.status \in Decisions,
             op = "metadata" => draft.status \notin {"none", "promoted"},
             op = "promote" => draft.status = "promoted"
      PROVE  TypeInv'
  BY <1>3, NothingType, ServeType DEF RequestOK
<1>4. ASSUME NEW decision \in Decisions
      PROVE  /\ [drafts[d] EXCEPT !.status = decision] \in Draft
             /\ [drafts[d] EXCEPT !.status = decision].status = decision
  BY <1>0 DEF Draft, DraftStatus
<1>5. ASSUME NEW title \in Maybe(Titles), NEW type \in Maybe(Types)
      PROVE  /\ [drafts[d] EXCEPT !.title = title, !.type = type] \in Draft
             /\ [drafts[d] EXCEPT !.title = title, !.type = type].status = drafts[d].status
  BY <1>0 DEF Draft
<1>6. PromotedDraft(drafts[d]) \in Draft /\ PromotedDraft(drafts[d]).status = "promoted"
  BY <1>0, PromotedDraftType
<1>7. ASSUME NEW decision \in Decisions,
             Serve(w, "review", d, "get_document", NoDocument,
                   [drafts[d] EXCEPT !.status = decision])
      PROVE  TypeInv'
  <2>. DEFINE draft == [drafts[d] EXCEPT !.status = decision]
  <2>1. draft \in Draft /\ draft.status \in Decisions
    BY <1>4
  <2>. HIDE DEF draft
  <2>2. Serve(w, "review", d, "get_document", NoDocument, draft)
    BY <1>7 DEF draft
  <2>. QED  BY <2>1, <2>2, <1>3
<1>8. ASSUME NEW title \in Maybe(Titles), NEW type \in Maybe(Types),
             drafts[d].status \notin {"none", "promoted"},
             Serve(w, "metadata", d, "get_document", NoDocument,
                   [drafts[d] EXCEPT !.title = title, !.type = type])
      PROVE  TypeInv'
  <2>. DEFINE draft == [drafts[d] EXCEPT !.title = title, !.type = type]
  <2>1. draft \in Draft /\ draft.status \notin {"none", "promoted"}
    BY <1>5, <1>8
  <2>. HIDE DEF draft
  <2>2. Serve(w, "metadata", d, "get_document", NoDocument, draft)
    BY <1>8 DEF draft
  <2>. QED  BY <2>1, <2>2, <1>3
<1>9. ASSUME Serve(w, "promote", d, "get_document", NoDocument, PromotedDraft(drafts[d]))
      PROVE  TypeInv'
  BY <1>3, <1>6, <1>9
<1>. HIDE DEF Ops, EventOps, Pcs
<1>. QED  BY <1>1, <1>2, <1>7, <1>8, <1>9, RequestForms, Zenon

LEMMA StepType ==
  ASSUME TypeInv, NEW w \in Workers, Step(w)
  PROVE  TypeInv'
<1>. DEFINE self == worker[w]
            moved == [worker[w] EXCEPT !.pc = After(worker[w].op, worker[w].pc)]
<1>0. self.pc \in Pcs /\ self \in Busy /\ RequestOK(self)
  <2>1. self.pc \in Pcs
    BY DEF Step, CopyRaw, GetDocument, WritePack, SaveDocument, SaveDraft, Log,
           SaveReviewEvent, Pcs
  <2>2. self # Idle /\ self \in Busy
    BY <2>1, AtPc DEF TypeInv
  <2>. QED  BY <2>1, <2>2 DEF TypeInv, WorkerOK, RequestOK
<1>1. /\ self.doc \in Documents /\ self.document \in Document /\ self.draft \in Draft
      /\ self.op \in Ops /\ self.previous \in DraftStatus
  BY <1>0 DEF Busy
<1>2. ASSUME self.pc # "event", self.pc = "log" => self.op \in EventOps, worker' = Moved(w)
      PROVE  worker' \in [Workers -> {Idle} \cup Busy] /\ WorkerOK'
  <2>1. moved \in Busy /\ RequestOK(moved) /\ worker' = [worker EXCEPT ![w] = moved]
    BY <1>0, <1>2, MovedOK
  <2>. HIDE DEF moved
  <2>. QED  BY <2>1, WorkerFrame
<1>3. ASSUME Return(w)
      PROVE  worker' \in [Workers -> {Idle} \cup Busy] /\ WorkerOK'
  BY <1>3, WorkerFrame DEF Return
<1>4. CASE CopyRaw(w)
  BY <1>1, <1>2, <1>4 DEF CopyRaw, TypeInv, TypeOK, bounds
<1>5. CASE GetDocument(w)
  <2>. DEFINE document == Amended(WithPromotedPath(self.doc), self.op, self.draft)
              r == [moved EXCEPT !.document = document]
  <2>1. /\ moved \in Busy /\ moved # Idle /\ RequestOK(moved) /\ moved.op = self.op
        /\ Moved(w) = [worker EXCEPT ![w] = moved]
    BY <1>0, <1>5, MovedOK DEF GetDocument, Busy
  <2>2. self.op \in EventOps
    BY <1>0, <1>5 DEF GetDocument, RequestOK
  <2>3. document \in Document
    <3>1. self.op = "review" => self.draft.status \in Decisions
      BY <1>0 DEF RequestOK
    <3>2. WithPromotedPath(self.doc) \in Document
      BY <1>1, WithPromotedPathType DEF TypeInv
    <3>. QED  BY <1>1, <2>2, <3>1, <3>2, AmendedType
  <2>. HIDE DEF document, moved
  <2>4. r \in Busy /\ RequestOK(r)
    BY <2>1, <2>2, <2>3 DEF Busy, RequestOK, EventOps
  <2>5. worker' = [worker EXCEPT ![w] = r]
    BY <1>5, <2>1 DEF GetDocument, document, TypeInv, TypeOK
  <2>6. worker' \in [Workers -> {Idle} \cup Busy] /\ WorkerOK'
    <3>. HIDE DEF r
    <3>. QED  BY <2>4, <2>5, WorkerFrame
  <2>. QED  BY <1>5, <2>6 DEF GetDocument, TypeInv, TypeOK, stores, bounds
<1>6. CASE WritePack(w)
  <2>1. self.draft.promoted \subseteq Path
    BY <1>1 DEF Draft, Maybe
  <2>2. pack' \in [Documents -> SUBSET Path]
    BY <1>1, <1>6, <2>1 DEF WritePack, TypeInv, TypeOK
  <2>. QED  BY <1>2, <1>6, <2>2 DEF WritePack, TypeInv, TypeOK, bounds
<1>7. CASE SaveDocument(w)
  BY <1>1, <1>2, <1>7 DEF SaveDocument, TypeInv, TypeOK, bounds
<1>8. CASE SaveDraft(w)
  BY <1>1, <1>2, <1>8 DEF SaveDraft, TypeInv, TypeOK, bounds
<1>9. CASE Log(w)
  <2>1. self.draft.status \in DraftStatus /\ self.document.status \in DocumentStatus
    BY <1>1 DEF Draft, Document
  <2>2. audit' \in [Ops -> [Documents -> SUBSET (DocumentStatus \cup DraftStatus)]]
    BY <1>1, <1>9, <2>1 DEF Log, TypeInv, TypeOK
  <2>3. worker' \in [Workers -> {Idle} \cup Busy] /\ WorkerOK'
    BY <1>2, <1>3, <1>9 DEF Log
  <2>. QED  BY <1>9, <2>2, <2>3 DEF Log, TypeInv, TypeOK, bounds
<1>10. CASE SaveReviewEvent(w)
  <2>1. self.op \in EventOps
    BY <1>0, <1>10 DEF SaveReviewEvent, RequestOK
  <2>2. [op |-> self.op, doc |-> self.doc, previous |-> self.previous,
         new |-> self.draft.status] \in Event
    BY <1>1, <2>1 DEF Event, Draft
  <2>. QED  BY <1>3, <1>10, <2>2 DEF SaveReviewEvent, TypeInv, TypeOK, bounds
<1>. QED  BY <1>4, <1>5, <1>6, <1>7, <1>8, <1>9, <1>10 DEF Step

LEMMA AbortType ==
  ASSUME TypeInv, NEW w \in Workers, Abort(w)
  PROVE  TypeInv'
<1>1. worker' \in [Workers -> {Idle} \cup Busy] /\ WorkerOK'
  BY WorkerFrame DEF Abort, Return
<1>2. aborts' \in Nat /\ requests' = requests
  BY DEF Abort, TypeInv, TypeOK
<1>. QED  BY <1>1, <1>2 DEF Abort, TypeInv, TypeOK, stores

LEMMA TypeAlways == Spec => []TypeInv
<1>1. TypeInv /\ UNCHANGED vars => TypeInv'
  BY DEF vars, stores, TypeInv, TypeOK, WorkerOK
<1>2. TypeInv /\ [Next]_vars => TypeInv'
  BY <1>1, RequestType, StepType, AbortType DEF Next
<1>. QED  BY InitType, <1>2, PTL DEF Spec

\* Every file, row and handler of the intake has its type, whatever interleaves.
THEOREM TypeCorrect == Spec => []TypeOK
<1>1. TypeInv => TypeOK
  BY DEF TypeInv
<1>. QED  BY <1>1, TypeAlways, PTL

-----------------------------------------------------------------------------
(* What a step leaves alone *)

\* A request takes an idle worker and changes no store.
LEMMA RequestFrame ==
  ASSUME TypeInv, NEW w \in Workers, NEW d \in Documents, Request(w, d)
  PROVE  /\ worker[w] = Idle /\ UNCHANGED <<stores, aborts>>
         /\ \A v \in Workers : v # w => worker'[v] = worker[v]
         /\ worker'[w].doc = d
         /\ worker'[w].op = "promote" => drafts[d].status = "approved"
<1>1. ASSUME NEW op, NEW pc, NEW document, NEW draft, Serve(w, op, d, pc, document, draft)
      PROVE  /\ worker[w] = Idle /\ UNCHANGED <<stores, aborts>>
             /\ \A v \in Workers : v # w => worker'[v] = worker[v]
             /\ worker'[w].doc = d /\ worker'[w].op = op
  BY <1>1 DEF Serve, TypeInv, TypeOK
<1>2. \E op, pc, document, draft : /\ Serve(w, op, d, pc, document, draft)
                                   /\ op = "promote" => drafts[d].status = "approved"
  <2>1. \A op \in {"upload", "parse", "review", "metadata"} : op # "promote"
    OBVIOUS
  <2>. QED  BY <2>1, RequestForms, ZenonT(30)
<1>. QED  BY <1>1, <1>2

\* Every other step is one worker's.
LEMMA StepFrame ==
  ASSUME TypeInv, NEW w \in Workers, Step(w)
  PROVE  /\ worker[w] \in Busy /\ RequestOK(worker[w])
         /\ events \subseteq events' /\ aborts' = aborts
         /\ \A v \in Workers : v # w => worker'[v] = worker[v]
         /\ worker'[w] # Idle =>
                /\ worker'[w].pc = After(worker[w].op, worker[w].pc)
                /\ worker'[w].op = worker[w].op /\ worker'[w].doc = worker[w].doc
                /\ worker'[w].draft = worker[w].draft
<1>1. worker[w].pc \in Pcs
  BY DEF Step, CopyRaw, GetDocument, WritePack, SaveDocument, SaveDraft, Log, SaveReviewEvent, Pcs
<1>2. worker[w] # Idle /\ worker[w] \in Busy
  BY <1>1, AtPc DEF TypeInv
<1>3. RequestOK(worker[w])
  BY <1>2 DEF TypeInv, WorkerOK, RequestOK
<1>4. worker \in [Workers -> {Idle} \cup Busy]
  BY DEF TypeInv, TypeOK
<1>5. events \subseteq events' /\ aborts' = aborts
  BY DEF Step, CopyRaw, GetDocument, WritePack, SaveDocument, SaveDraft, Log, SaveReviewEvent,
         bounds, stores
<1>6. ASSUME worker' = Moved(w)
      PROVE  /\ \A v \in Workers : v # w => worker'[v] = worker[v]
             /\ worker'[w].pc = After(worker[w].op, worker[w].pc)
             /\ worker'[w].op = worker[w].op /\ worker'[w].doc = worker[w].doc
             /\ worker'[w].draft = worker[w].draft
  BY <1>2, <1>4, <1>6 DEF Moved, Busy
<1>7. ASSUME Return(w)
      PROVE  worker'[w] = Idle /\ \A v \in Workers : v # w => worker'[v] = worker[v]
  BY <1>4, <1>7 DEF Return
<1>8. ASSUME GetDocument(w)
      PROVE  /\ \A v \in Workers : v # w => worker'[v] = worker[v]
             /\ worker'[w].pc = After(worker[w].op, worker[w].pc)
             /\ worker'[w].op = worker[w].op /\ worker'[w].doc = worker[w].doc
             /\ worker'[w].draft = worker[w].draft
  BY <1>2, <1>4, <1>8 DEF GetDocument, Moved, Busy
<1>9. worker' = Moved(w) \/ Return(w) \/ GetDocument(w)
  BY DEF Step, CopyRaw, WritePack, SaveDocument, SaveDraft, Log, SaveReviewEvent
<1>. QED  BY <1>2, <1>3, <1>5, <1>6, <1>7, <1>8, <1>9

-----------------------------------------------------------------------------
(* Decisions are recorded *)

\* Only a promotion of an approved draft is under way.
ApprovalInv ==
    /\ StatusIsRecorded
    /\ PublicationWasApproved
    /\ aborts = 0 => \A w \in Workers :
            worker[w] # Idle /\ worker[w].op = "promote" => Recorded(worker[w].doc, "approved")

\* A decision that is recorded, or owed, stays so while no handler is stopped.
LEMMA RecordedGrows ==
  ASSUME TypeInv, NEW w \in Workers, Step(w) \/ \E d \in Documents : Request(w, d),
         NEW d \in Documents, NEW s, Recorded(d, s)
  PROVE  Recorded(d, s)'
<1>1. CASE \E e \in events : e.doc = d /\ e.new = s
  <2>1. events \subseteq events'
    BY StepFrame, RequestFrame DEF stores
  <2>. QED  BY <1>1, <2>1 DEF Recorded
<1>2. ASSUME NEW v \in Workers, OwesEvent(v), worker[v].doc = d, worker[v].draft.status = s
      PROVE  Recorded(d, s)'
  <2>1. CASE v # w
    <3>1. worker'[v] = worker[v]
      BY <2>1, StepFrame, RequestFrame
    <3>. QED  BY <1>2, <3>1 DEF Recorded, OwesEvent
  <2>2. CASE v = w
    <3>1. Step(w) /\ worker[w] # Idle
      BY <1>2, <2>2, RequestFrame DEF OwesEvent
    <3>2. worker[w] \in Busy /\ RequestOK(worker[w])
      BY <3>1, StepFrame
    <3>3. CASE SaveReviewEvent(w)
      <4>. DEFINE e == [op |-> worker[w].op, doc |-> worker[w].doc,
                        previous |-> worker[w].previous, new |-> worker[w].draft.status]
      <4>1. e \in events'
        BY <3>3 DEF SaveReviewEvent
      <4>2. e.doc = d /\ e.new = s
        BY <1>2, <2>2
      <4>. QED  BY <4>1, <4>2 DEF Recorded
    <3>4. CASE ~SaveReviewEvent(w)
      <4>1. worker[w].pc = "log" \/ (worker[w].pc = "save_document" /\ worker[w].op = "promote")
        BY <1>2, <2>2, <3>1, <3>4 DEF OwesEvent, Step, CopyRaw, GetDocument, WritePack, SaveDocument,
              SaveDraft, Log, SaveReviewEvent
      <4>2. worker' = Moved(w)
        BY <1>2, <2>2, <3>1, <3>4, <4>1 DEF OwesEvent, Step, CopyRaw, GetDocument, WritePack,
              SaveDocument, SaveDraft, Log
      <4>3. After(worker[w].op, worker[w].pc) \in {"log", "event"}
        BY <4>1 DEF After
      <4>4. /\ worker'[w].pc \in {"log", "event"}
            /\ worker'[w].op = worker[w].op /\ worker'[w].doc = worker[w].doc
            /\ worker'[w].draft = worker[w].draft
        BY <3>2, <4>2, <4>3 DEF Moved, Busy, TypeInv, TypeOK
      <4>5. worker'[w] # Idle
        BY <4>4 DEF Idle
      <4>. QED  BY <1>2, <2>2, <4>4, <4>5 DEF Recorded, OwesEvent
    <3>. QED  BY <3>3, <3>4
  <2>. QED  BY <2>1, <2>2
<1>. QED  BY <1>1, <1>2 DEF Recorded

LEMMA ApprovalStep ==
  ASSUME TypeInv, ApprovalInv, NEW w \in Workers, aborts' = 0,
         Step(w) \/ \E d \in Documents : Request(w, d)
  PROVE  ApprovalInv'
<1>0. aborts = 0
  BY StepFrame, RequestFrame
<1>1. ASSUME NEW d \in Documents, NEW s, s \notin {"none", "pending_review"},
             drafts'[d].status = s
      PROVE  Recorded(d, s)'
  <2>1. CASE drafts'[d] = drafts[d]
    <3>1. Recorded(d, s)
      BY <1>0, <1>1, <2>1 DEF ApprovalInv, StatusIsRecorded
    <3>. QED  BY <3>1, RecordedGrows
  <2>2. CASE drafts'[d] # drafts[d]
    <3>1. SaveDraft(w)
      BY <2>2, RequestFrame DEF Step, CopyRaw, GetDocument, WritePack, SaveDocument, Log,
            SaveReviewEvent, stores
    <3>2. worker[w] \in Busy /\ RequestOK(worker[w]) /\ worker[w].pc = "save_draft"
      BY <3>1, StepFrame DEF Step, SaveDraft
    <3>3. worker[w].doc = d /\ drafts'[d] = worker[w].draft
      BY <2>2, <3>1, <3>2 DEF SaveDraft, TypeInv, TypeOK, Busy
    <3>4. worker[w].op \in EventOps
      BY <1>1, <3>2, <3>3 DEF RequestOK, Busy, Ops, EventOps
    <3>5. /\ worker'[w].pc = After(worker[w].op, "save_draft")
          /\ worker'[w].op = worker[w].op /\ worker'[w].doc = worker[w].doc
          /\ worker'[w].draft = worker[w].draft
      BY <3>1, <3>2 DEF SaveDraft, Moved, Busy, TypeInv, TypeOK
    <3>6. worker'[w] # Idle
      BY <3>4, <3>5 DEF Idle, After
    <3>7. OwesEvent(w)'
      BY <3>4, <3>5, <3>6 DEF OwesEvent, After, EventOps
    <3>. QED  BY <1>1, <3>3, <3>5, <3>7 DEF Recorded
  <2>. QED  BY <2>1, <2>2
<1>2. ASSUME NEW v \in Workers, worker'[v] # Idle, worker'[v].op = "promote",
             NEW d \in Documents, worker'[v].doc = d
      PROVE  Recorded(d, "approved")'
  <2>1. CASE worker[v] # Idle
    <3>1. worker'[v].op = worker[v].op /\ worker'[v].doc = worker[v].doc
      BY <1>2, <2>1, StepFrame, RequestFrame
    <3>2. Recorded(d, "approved")
      BY <1>0, <1>2, <2>1, <3>1 DEF ApprovalInv
    <3>. QED  BY <3>2, RecordedGrows
  <2>2. CASE worker[v] = Idle
    <3>1. v = w /\ ~Step(w)
      <4>1. v = w
        BY <1>2, <2>2, StepFrame, RequestFrame
      <4>2. worker[w].pc \notin Pcs
        BY <2>2, <4>1 DEF Idle, Pcs
      <4>. QED  BY <4>1, <4>2 DEF Step, CopyRaw, GetDocument, WritePack, SaveDocument, SaveDraft,
              Log, SaveReviewEvent, Pcs
    <3>2. PICK x \in Documents : Request(w, x)
      BY <3>1
    <3>3. x = d /\ drafts[d].status = "approved"
      BY <1>2, <3>1, <3>2, RequestFrame
    <3>4. Recorded(d, "approved")
      BY <1>0, <3>3 DEF ApprovalInv, StatusIsRecorded
    <3>. QED  BY <3>4, RecordedGrows
  <2>. QED  BY <2>1, <2>2
<1>3. ASSUME NEW d \in Documents, pack'[d] # {}
      PROVE  Recorded(d, "approved")'
  <2>1. CASE pack'[d] = pack[d]
    BY <1>0, <1>3, <2>1, RecordedGrows DEF ApprovalInv, PublicationWasApproved
  <2>2. CASE pack'[d] # pack[d]
    <3>1. WritePack(w)
      BY <2>2, RequestFrame DEF Step, CopyRaw, GetDocument, SaveDocument, SaveDraft, Log,
            SaveReviewEvent, stores
    <3>2. worker[w] \in Busy /\ RequestOK(worker[w]) /\ worker[w].pc = "write_pack"
      BY <3>1, StepFrame DEF Step, WritePack
    <3>3. worker[w].doc = d /\ worker[w].op = "promote"
      BY <2>2, <3>1, <3>2 DEF WritePack, TypeInv, TypeOK, RequestOK
    <3>4. worker[w] # Idle
      BY <3>2 DEF Idle
    <3>5. Recorded(d, "approved")
      BY <1>0, <3>3, <3>4 DEF ApprovalInv
    <3>. QED  BY <3>5, RecordedGrows
  <2>. QED  BY <2>1, <2>2
<1>4. StatusIsRecorded'
  BY <1>1 DEF StatusIsRecorded, Recorded, OwesEvent
<1>5. PublicationWasApproved'
  BY <1>3 DEF PublicationWasApproved, Recorded, OwesEvent
<1>6. \A v \in Workers : worker'[v] # Idle => worker'[v].doc \in Documents
  BY StepFrame, RequestFrame DEF Busy, TypeInv, TypeOK
<1>. QED  BY <1>2, <1>4, <1>5, <1>6 DEF ApprovalInv, Recorded, OwesEvent

LEMMA ApprovalAlways == Spec => [](TypeInv /\ ApprovalInv)
<1>1. Init => ApprovalInv
  BY DEF Init, ApprovalInv, StatusIsRecorded, PublicationWasApproved, NoDraft, Idle
<1>2. ASSUME TypeInv, ApprovalInv, [Next]_vars PROVE ApprovalInv'
  <2>1. CASE UNCHANGED vars
    BY <1>2, <2>1 DEF vars, stores, ApprovalInv, StatusIsRecorded, PublicationWasApproved,
          Recorded, OwesEvent
  <2>2. ASSUME NEW w \in Workers, Step(w) \/ \E d \in Documents : Request(w, d) PROVE ApprovalInv'
    <3>1. CASE aborts' = 0
      BY <1>2, <2>2, <3>1, ApprovalStep
    <3>2. CASE aborts' # 0
      BY <3>2 DEF ApprovalInv, StatusIsRecorded, PublicationWasApproved
    <3>. QED  BY <3>1, <3>2
  <2>3. ASSUME NEW w \in Workers, Abort(w) PROVE ApprovalInv'
    <3>1. aborts' # 0
      BY <1>2, <2>3 DEF Abort, TypeInv, TypeOK
    <3>. QED  BY <3>1 DEF ApprovalInv, StatusIsRecorded, PublicationWasApproved
  <2>. QED  BY <1>2, <2>1, <2>2, <2>3 DEF Next
<1>. QED  BY TypeAlways, <1>1, <1>2, PTL DEF Spec

\* A draft's decision is in the ledger of review events or owed to it, for any
\* number of handlers that overwrite each other's drafts.
THEOREM StatusRecorded == Spec => []StatusIsRecorded
<1>1. ApprovalInv => StatusIsRecorded
  BY DEF ApprovalInv
<1>. QED  BY <1>1, ApprovalAlways, PTL

\* No interleaving of handlers publishes a document nobody approved.
THEOREM PublicationApproved == Spec => []PublicationWasApproved
<1>1. ApprovalInv => PublicationWasApproved
  BY DEF ApprovalInv
<1>. QED  BY <1>1, ApprovalAlways, PTL

-----------------------------------------------------------------------------
(* Recorded files exist *)

Stored == {d \in Documents : documents[d].status # "none"}

\* What a stored draft or document has.
Filled(x) == x.status # "none" /\ x.title # {} /\ x.type # {}

\* A record that was reviewed as "promoted" and never promoted.
Unfiled(x) == x.status = "promoted" /\ x.promoted = {}

\* What a handler holds, when the sources R are copied, the files P are in the
\* pack and the documents S are stored: anything it may save is backed already.
Held(r, R, P, S) ==
    /\ r.op = "upload" /\ r.pc # "copy_raw" => r.doc \in R
    /\ r.op # "upload" => r.doc \in S /\ Filled(r.draft)
    /\ r.op = "upload" => r.draft = NoDraft
    /\ r.op = "promote" => r.draft.promoted # {}
    /\ r.pc # "get_document" => Filled(r.document)
    /\ r.op # "promote" \/ r.pc \notin {"get_document", "write_pack"} =>
            r.draft.promoted \subseteq P[r.doc]
    /\ r.pc \notin {"get_document", "write_pack"} => r.document.promoted \subseteq P[r.doc]
    /\ r.pc = "write_pack" => r.document.promoted = r.draft.promoted

StoresOK ==
    \A d \in Documents :
        /\ documents[d].status # "none" => d \in raw /\ Filled(documents[d])
        /\ drafts[d].status # "none" => documents[d].status # "none" /\ Filled(drafts[d])
        /\ documents[d].promoted \cup drafts[d].promoted \subseteq pack[d]

HandlersOK == \A w \in Workers : worker[w] # Idle => Held(worker[w], raw, pack, Stored)

FilesInv == StoresOK /\ HandlersOK

\* A promoted record without a file, stored or about to be, comes from a review.
MarkedInv ==
    aborts = 0 =>
        /\ \A d \in Documents :
              Unfiled(documents[d]) \/ Unfiled(drafts[d]) => ReviewedAsPromoted(d)
        /\ \A w \in Workers :
              worker[w] # Idle /\ worker[w].pc # "get_document" /\ Unfiled(worker[w].document)
              => ReviewedAsPromoted(worker[w].doc)

LEMMA FilesInvImplies == TypeInv /\ FilesInv /\ MarkedInv => RecordedFilesExist
<1>. SUFFICES ASSUME TypeInv, FilesInv, MarkedInv, NEW d \in Documents
              PROVE  /\ documents[d].status # "none" => d \in raw
                     /\ documents[d].promoted \cup drafts[d].promoted \subseteq pack[d]
                     /\ Unfiled(documents[d]) \/ Unfiled(drafts[d])
                        => aborts > 0 \/ ReviewedAsPromoted(d)
  BY DEF RecordedFilesExist, Unfiled
<1>1. aborts = 0 \/ aborts > 0
  BY DEF TypeInv, TypeOK
<1>. QED  BY <1>1 DEF FilesInv, StoresOK, MarkedInv

\* Files and records are only added.
LEMMA HeldGrows ==
  ASSUME NEW r \in Busy, NEW R1, NEW R2, NEW P1, NEW P2, NEW S1, NEW S2, Held(r, R1, P1, S1),
         R1 \subseteq R2, S1 \subseteq S2, \A d \in Documents : P1[d] \subseteq P2[d]
  PROVE  Held(r, R2, P2, S2)
<1>1. r.doc \in Documents
  BY DEF Busy
<1>2. P1[r.doc] \subseteq P2[r.doc]
  BY <1>1
<1>. HIDE DEF Filled
<1>. QED  BY <1>2 DEF Held

\* A step that gives worker w what it may hold keeps what the others hold.
LEMMA HandlersFrame ==
  ASSUME TypeInv, HandlersOK, NEW w \in Workers, raw \subseteq raw', Stored \subseteq Stored',
         \A d \in Documents : pack[d] \subseteq pack'[d],
         \A v \in Workers : v # w => worker'[v] = worker[v],
         worker'[w] # Idle => Held(worker'[w], raw', pack', Stored')
  PROVE  HandlersOK'
<1>1. ASSUME NEW v \in Workers, worker'[v] # Idle, v # w
      PROVE  Held(worker'[v], raw', pack', Stored')
  <2>1. worker'[v] = worker[v] /\ worker[v] \in Busy /\ Held(worker[v], raw, pack, Stored)
    BY <1>1 DEF TypeInv, TypeOK, HandlersOK
  <2>2. Held(worker[v], raw', pack', Stored')
    BY <2>1, HeldGrows
  <2>. QED  BY <2>1, <2>2
<1>2. \A v \in Workers : worker'[v] # Idle => Held(worker'[v], raw', pack', Stored')
  BY <1>1
<1>. QED  BY <1>2 DEF HandlersOK, Held, Filled, Stored

\* A document is read as it is stored, its path perhaps with its draft's.
LEMMA ReadDocument ==
  ASSUME TypeInv, NEW d \in Documents
  PROVE  LET read == WithPromotedPath(d)
         IN  /\ read \in Document
             /\ read.status = documents[d].status /\ read.hash = documents[d].hash
             /\ read.title = documents[d].title /\ read.type = documents[d].type
             /\ read.warnings = documents[d].warnings
             /\ \/ read.promoted = documents[d].promoted
                \/ read.promoted = drafts[d].promoted /\ documents[d].promoted = {}
             /\ Filled(documents[d]) => Filled(read)
             /\ Unfiled(read) => Unfiled(documents[d])
<1>1. documents[d] \in Document /\ WithPromotedPath(d) \in Document
  BY WithPromotedPathType DEF TypeInv, TypeOK
<1>2. CASE documents[d].status = "promoted" /\ documents[d].promoted = {}
  <2>1. WithPromotedPath(d) = [documents[d] EXCEPT !.promoted = drafts[d].promoted]
    BY <1>2 DEF WithPromotedPath
  <2>. QED  BY <1>1, <1>2, <2>1 DEF Document, Filled, Unfiled
<1>3. CASE ~(documents[d].status = "promoted" /\ documents[d].promoted = {})
  <2>1. WithPromotedPath(d) = documents[d]
    BY <1>3 DEF WithPromotedPath
  <2>. QED  BY <1>1, <2>1
<1>. QED  BY <1>2, <1>3

LEMMA RequestFiles ==
  ASSUME TypeInv, FilesInv, NEW w \in Workers, NEW d \in Documents, Request(w, d)
  PROVE  FilesInv'
<1>0. documents[d] \in Document /\ drafts[d] \in Draft
  BY DEF TypeInv, TypeOK
<1>1. UNCHANGED stores
  BY RequestFrame
<1>2. StoresOK' /\ raw' = raw /\ pack' = pack /\ Stored' = Stored
  BY <1>1 DEF stores, FilesInv, StoresOK, Filled, Stored
<1>3. ASSUME NEW op, NEW pc, NEW document, NEW draft, Serve(w, op, d, pc, document, draft),
             Held([pc |-> pc, op |-> op, doc |-> d, document |-> document, draft |-> draft,
                   previous |-> drafts[d].status], raw, pack, Stored)
      PROVE  Held(worker'[w], raw, pack, Stored)
  BY <1>3 DEF Serve, TypeInv, TypeOK
<1>4. ASSUME NEW hash \in Hashes, NEW title \in Titles, NEW type \in Types,
             NEW duplicates \in SUBSET Documents,
             Serve(w, "upload", d, "copy_raw", Uploaded(hash, title, type, duplicates), NoDraft)
      PROVE  Held(worker'[w], raw, pack, Stored)
  <2>. DEFINE document == Uploaded(hash, title, type, duplicates)
              r == [pc |-> "copy_raw", op |-> "upload", doc |-> d, document |-> document,
                    draft |-> NoDraft, previous |-> drafts[d].status]
  <2>1. Filled(document) /\ document.promoted = {}
    BY DEF Uploaded, NoDocument, Filled
  <2>. HIDE DEF document
  <2>2. Held(r, raw, pack, Stored)
    BY <2>1 DEF Held, NoDraft
  <2>. QED  BY <1>3, <1>4, <2>2 DEF document
<1>5. ASSUME documents[d].status # "none",
             Serve(w, "parse", d, "save_document",
                   [WithPromotedPath(d) EXCEPT !.status = "parsed"], ParsedDraft(documents[d]))
      PROVE  Held(worker'[w], raw, pack, Stored)
  <2>. DEFINE document == [WithPromotedPath(d) EXCEPT !.status = "parsed"]
              draft == ParsedDraft(documents[d])
              r == [pc |-> "save_document", op |-> "parse", doc |-> d, document |-> document,
                    draft |-> draft, previous |-> drafts[d].status]
  <2>1. Filled(documents[d]) /\ d \in Stored
        /\ documents[d].promoted \cup drafts[d].promoted \subseteq pack[d]
    BY <1>5 DEF FilesInv, StoresOK, Stored
  <2>2. /\ WithPromotedPath(d) \in Document /\ Filled(WithPromotedPath(d))
        /\ WithPromotedPath(d).promoted \subseteq pack[d]
    BY <2>1, ReadDocument
  <2>3. Filled(document) /\ document.promoted \subseteq pack[d]
    BY <2>2 DEF Filled, Document
  <2>4. Filled(draft) /\ draft.promoted = {}
    BY <2>1 DEF Filled, ParsedDraft
  <2>. HIDE DEF document, draft
  <2>5. Held(r, raw, pack, Stored)
    BY <2>1, <2>3, <2>4 DEF Held
  <2>. QED  BY <1>3, <1>5, <2>5 DEF document, draft
<1>6. ASSUME NEW op \in {"review", "metadata"}, NEW draft, drafts[d].status # "none", Filled(draft),
             draft.promoted = drafts[d].promoted,
             Serve(w, op, d, "get_document", NoDocument, draft)
      PROVE  Held(worker'[w], raw, pack, Stored)
  <2>. DEFINE r == [pc |-> "get_document", op |-> op, doc |-> d, document |-> NoDocument,
                    draft |-> draft, previous |-> drafts[d].status]
  <2>1. d \in Stored /\ drafts[d].promoted \subseteq pack[d]
    BY <1>6 DEF FilesInv, StoresOK, Stored
  <2>2. Held(r, raw, pack, Stored)
    BY <1>6, <2>1 DEF Held
  <2>. QED  BY <1>3, <1>6, <2>2
<1>7. ASSUME drafts[d].status = "approved",
             Serve(w, "promote", d, "get_document", NoDocument, PromotedDraft(drafts[d]))
      PROVE  Held(worker'[w], raw, pack, Stored)
  <2>. DEFINE draft == PromotedDraft(drafts[d])
              r == [pc |-> "get_document", op |-> "promote", doc |-> d, document |-> NoDocument,
                    draft |-> draft, previous |-> drafts[d].status]
  <2>1. d \in Stored /\ Filled(drafts[d])
    BY <1>7 DEF FilesInv, StoresOK, Stored
  <2>2. draft.status = "promoted" /\ draft.promoted # {}
    BY <1>0, <2>1, PromotedDraftType DEF Filled
  <2>3. draft.title # {} /\ draft.type # {}
    <3>1. draft.title = drafts[d].title /\ draft.type = {Normalized[t] : t \in drafts[d].type}
      BY <1>0 DEF PromotedDraft, Draft
    <3>. HIDE DEF draft
    <3>. QED  BY <2>1, <3>1 DEF Filled
  <2>. HIDE DEF draft
  <2>4. Held(r, raw, pack, Stored)
    BY <2>1, <2>2, <2>3 DEF Held, Filled
  <2>. QED  BY <1>3, <1>7, <2>4 DEF draft
<1>8. ASSUME NEW decision \in Decisions, drafts[d].status # "none"
      PROVE  /\ Filled([drafts[d] EXCEPT !.status = decision])
             /\ [drafts[d] EXCEPT !.status = decision].promoted = drafts[d].promoted
  <2>1. Filled(drafts[d])
    BY <1>8 DEF FilesInv, StoresOK
  <2>2. decision # "none"
    BY ConstantsAssumption
  <2>. QED  BY <1>0, <2>1, <2>2 DEF Filled, Draft
<1>9. ASSUME NEW title, NEW type, drafts[d].status # "none",
             drafts[d].title # {} => title # {}, drafts[d].type # {} => type # {}
      PROVE  /\ Filled([drafts[d] EXCEPT !.title = title, !.type = type])
             /\ [drafts[d] EXCEPT !.title = title, !.type = type].promoted = drafts[d].promoted
  <2>1. Filled(drafts[d])
    BY <1>9 DEF FilesInv, StoresOK
  <2>. QED  BY <1>0, <1>9, <2>1 DEF Filled, Draft
<1>10. Held(worker'[w], raw, pack, Stored)
  BY <1>4, <1>5, <1>6, <1>7, <1>8, <1>9, RequestForms
<1>11. HandlersOK'
  BY <1>2, <1>10, RequestFrame, HandlersFrame DEF FilesInv
<1>. QED  BY <1>2, <1>11 DEF FilesInv

LEMMA StepFiles ==
  ASSUME TypeInv, FilesInv, NEW w \in Workers, Step(w)
  PROVE  FilesInv'
<1>. DEFINE self == worker[w]
            d == self.doc
            next == worker'[w]
<1>0. self \in Busy /\ RequestOK(self) /\ self.pc \in Pcs /\ self # Idle
  BY StepFrame DEF Busy, Idle, Pcs
<1>1. d \in Documents /\ self.document \in Document /\ self.draft \in Draft /\ self.op \in Ops
  BY <1>0 DEF Busy
<1>2. Held(self, raw, pack, Stored) /\ (self.op = "promote" => self.draft.promoted # {})
  BY <1>0 DEF FilesInv, HandlersOK, Held
<1>3. /\ \A v \in Workers : v # w => worker'[v] = worker[v]
      /\ next # Idle => /\ next.pc = After(self.op, self.pc)
                        /\ next.op = self.op /\ next.doc = d /\ next.draft = self.draft
  BY StepFrame
<1>4. ASSUME worker' = Moved(w) PROVE next.document = self.document
  BY <1>0, <1>4 DEF Moved, Busy, TypeInv, TypeOK
<1>5. ASSUME raw \subseteq raw', Stored \subseteq Stored',
             \A x \in Documents : pack[x] \subseteq pack'[x],
             next # Idle => Held(next, raw', pack', Stored')
      PROVE  HandlersOK'
  BY <1>3, <1>5, HandlersFrame DEF FilesInv
<1>. HIDE DEF next, self, d
<1>6. CASE CopyRaw(w)
  <2>1. /\ self.pc = "copy_raw" /\ self.op = "upload"
        /\ next # Idle => next.pc = "save_document"
    BY <1>0, <1>3, <1>6 DEF CopyRaw, RequestOK, After, self
  <2>2. raw' = raw \cup {d} /\ documents' = documents /\ drafts' = drafts /\ pack' = pack
        /\ next.document = self.document
    BY <1>4, <1>6 DEF CopyRaw, d, self
  <2>3. next # Idle => Held(next, raw', pack', Stored)
    BY <1>2, <1>3, <2>1, <2>2 DEF Held, d
  <2>4. StoresOK' /\ Stored' = Stored
    BY <2>2 DEF FilesInv, StoresOK, Filled, Stored
  <2>. QED  BY <1>5, <2>2, <2>3, <2>4 DEF FilesInv
<1>7. CASE GetDocument(w)
  <2>1. UNCHANGED stores /\ self.pc = "get_document" /\ self.op \in EventOps
    BY <1>0, <1>7 DEF GetDocument, RequestOK, self
  <2>2. d \in Stored /\ Filled(self.draft)
    BY <1>2, <2>1 DEF Held, d, EventOps
  <2>. DEFINE read == WithPromotedPath(d)
  <2>3. Filled(read) /\ read.promoted \subseteq pack[d] /\ read \in Document
    <3>1. Filled(documents[d]) /\ documents[d].promoted \cup drafts[d].promoted \subseteq pack[d]
      BY <1>1, <2>2 DEF FilesInv, StoresOK, Stored
    <3>. QED  BY <1>1, <3>1, ReadDocument
  <2>4. next.document = Amended(read, self.op, self.draft)
    BY <1>0, <1>7 DEF GetDocument, Moved, Busy, TypeInv, TypeOK, next, self, d
  <2>. HIDE DEF read
  <2>5. self.op = "review" => self.draft.status \in Decisions
    BY <1>0 DEF RequestOK
  <2>6. self.op = "promote" => self.draft.status = "promoted"
    BY <1>0 DEF RequestOK
  <2>7. Filled(next.document)
    BY <1>1, <2>1, <2>2, <2>3, <2>4, <2>5, <2>6, ConstantsAssumption
       DEF Filled, Amended, EventOps, Document
  <2>8. IF self.op = "promote" THEN next.document.promoted = self.draft.promoted
                               ELSE next.document.promoted = read.promoted
    BY <2>1, <2>3, <2>4 DEF Amended, EventOps, Document
  <2>9. ASSUME next # Idle PROVE Held(next, raw, pack, Stored)
    <3>1. next.pc = IF self.op = "promote" THEN "write_pack" ELSE "save_document"
      BY <1>3, <2>1, <2>9 DEF After
    <3>2. next.op = self.op /\ next.doc = d /\ next.draft = self.draft /\ self.op # "upload"
      BY <1>3, <2>1, <2>9 DEF EventOps
    <3>3. self.op # "promote" => self.draft.promoted \subseteq pack[d]
      BY <1>2, <2>1 DEF Held, d
    <3>. HIDE DEF Filled
    <3>. QED  BY <1>2, <2>2, <2>3, <2>7, <2>8, <3>1, <3>2, <3>3 DEF Held
  <2>10. StoresOK' /\ raw' = raw /\ pack' = pack /\ Stored' = Stored
    BY <2>1 DEF stores, FilesInv, StoresOK, Filled, Stored
  <2>. QED  BY <1>5, <2>9, <2>10 DEF FilesInv
<1>8. CASE WritePack(w)
  <2>1. self.pc = "write_pack" /\ self.op = "promote" /\ documents' = documents
        /\ drafts' = drafts /\ raw' = raw /\ worker' = Moved(w)
    BY <1>0, <1>8 DEF WritePack, RequestOK, self
  <2>2. /\ \A x \in Documents : pack[x] \subseteq pack'[x]
        /\ self.draft.promoted \subseteq pack'[d]
    BY <1>1, <1>8 DEF WritePack, TypeInv, TypeOK, self, d
  <2>3. ASSUME next # Idle PROVE Held(next, raw, pack', Stored)
    <3>1. next.pc = "save_draft" /\ next.op = self.op /\ next.doc = d /\ next.draft = self.draft
          /\ next.document = self.document
      BY <1>3, <1>4, <2>1, <2>3 DEF After
    <3>2. d \in Stored /\ Filled(self.draft) /\ Filled(self.document)
          /\ self.document.promoted = self.draft.promoted
      BY <1>2, <2>1 DEF Held, d
    <3>. HIDE DEF Filled
    <3>. QED  BY <1>2, <2>1, <2>2, <3>1, <3>2 DEF Held
  <2>4. StoresOK' /\ Stored' = Stored
    BY <2>1, <2>2 DEF FilesInv, StoresOK, Filled, Stored
  <2>. QED  BY <1>5, <2>1, <2>2, <2>3, <2>4 DEF FilesInv
<1>9. CASE SaveDocument(w)
  <2>1. self.pc = "save_document" /\ drafts' = drafts /\ raw' = raw /\ pack' = pack
        /\ worker' = Moved(w)
    BY <1>9 DEF SaveDocument, self
  <2>2. /\ documents'[d] = self.document
        /\ \A x \in Documents : x # d => documents'[x] = documents[x]
    BY <1>1, <1>9 DEF SaveDocument, TypeInv, TypeOK, self, d
  <2>3. Filled(self.document) /\ self.document.promoted \subseteq pack[d] /\ d \in raw
    BY <1>2, <2>1 DEF Held, FilesInv, StoresOK, Stored, d
  <2>4. Stored \subseteq Stored'
    BY <2>2, <2>3 DEF Stored, Filled
  <2>5. StoresOK'
    BY <1>1, <2>1, <2>2, <2>3 DEF FilesInv, StoresOK, Filled
  <2>6. ASSUME next # Idle PROVE Held(next, raw, pack, Stored)
    <3>1. next.pc \in {"log", "save_draft"} /\ next.op = self.op /\ next.doc = d
          /\ next.draft = self.draft /\ next.document = self.document
      BY <1>3, <1>4, <2>1, <2>6 DEF After
    <3>. HIDE DEF Filled
    <3>. QED  BY <1>2, <2>1, <2>3, <3>1 DEF Held, d
  <2>7. next # Idle => Held(next, raw', pack', Stored')
    BY <2>1, <2>4, <2>6 DEF Held
  <2>. QED  BY <1>5, <2>1, <2>4, <2>5, <2>7 DEF FilesInv
<1>10. CASE SaveDraft(w)
  <2>1. self.pc = "save_draft" /\ documents' = documents /\ raw' = raw /\ pack' = pack
        /\ worker' = Moved(w) /\ self.op # "upload"
    BY <1>0, <1>10 DEF SaveDraft, RequestOK, self
  <2>2. /\ drafts'[d] = self.draft
        /\ \A x \in Documents : x # d => drafts'[x] = drafts[x]
    BY <1>1, <1>10 DEF SaveDraft, TypeInv, TypeOK, self, d
  <2>3. d \in Stored /\ Filled(self.draft) /\ Filled(self.document)
        /\ self.draft.promoted \subseteq pack[d] /\ self.document.promoted \subseteq pack[d]
    BY <1>2, <2>1 DEF Held, d
  <2>4. StoresOK' /\ Stored' = Stored
    BY <1>1, <2>1, <2>2, <2>3 DEF FilesInv, StoresOK, Filled, Stored
  <2>5. ASSUME next # Idle PROVE Held(next, raw, pack, Stored)
    <3>1. next.pc \in {"log", "save_document"} /\ next.op = self.op /\ next.doc = d
          /\ next.draft = self.draft /\ next.document = self.document
      BY <1>3, <1>4, <2>1, <2>5 DEF After
    <3>. HIDE DEF Filled
    <3>. QED  BY <1>2, <2>1, <2>3, <3>1 DEF Held
  <2>. QED  BY <1>5, <2>1, <2>4, <2>5 DEF FilesInv
<1>11. CASE Log(w) \/ SaveReviewEvent(w)
  <2>1. documents' = documents /\ drafts' = drafts /\ raw' = raw /\ pack' = pack
        /\ self.pc \in {"log", "event"} /\ (worker' = Moved(w) \/ Return(w))
    BY <1>11 DEF Log, SaveReviewEvent, self
  <2>2. StoresOK' /\ Stored' = Stored
    BY <2>1 DEF FilesInv, StoresOK, Filled, Stored
  <2>3. ASSUME next # Idle PROVE Held(next, raw, pack, Stored)
    <3>1. worker' = Moved(w) /\ self.pc = "log"
      BY <1>11, <2>1, <2>3 DEF Return, Log, SaveReviewEvent, next, self, TypeInv, TypeOK
    <3>2. next.pc = "event" /\ next.op = self.op /\ next.doc = d
          /\ next.draft = self.draft /\ next.document = self.document
      BY <1>3, <1>4, <2>3, <3>1 DEF After
    <3>. HIDE DEF Filled
    <3>. QED  BY <1>2, <3>1, <3>2 DEF Held, d
  <2>. QED  BY <1>5, <2>1, <2>2, <2>3 DEF FilesInv
<1>. QED  BY <1>6, <1>7, <1>8, <1>9, <1>10, <1>11 DEF Step

LEMMA FilesAlways == Spec => [](TypeInv /\ FilesInv)
<1>1. Init => FilesInv
  BY DEF Init, FilesInv, StoresOK, HandlersOK, NoDocument, NoDraft
<1>2. ASSUME TypeInv, FilesInv, [Next]_vars PROVE FilesInv'
  <2>1. CASE UNCHANGED vars
    BY <1>2, <2>1 DEF vars, stores, FilesInv, StoresOK, HandlersOK, Held, Filled, Stored
  <2>2. ASSUME NEW w \in Workers, Abort(w) PROVE FilesInv'
    <3>1. /\ UNCHANGED stores /\ worker'[w] = Idle
          /\ \A v \in Workers : v # w => worker'[v] = worker[v]
      BY <1>2, <2>2 DEF Abort, Return, TypeInv, TypeOK
    <3>2. StoresOK' /\ raw' = raw /\ pack' = pack /\ Stored' = Stored
      BY <1>2, <3>1 DEF stores, FilesInv, StoresOK, Filled, Stored
    <3>3. raw \subseteq raw' /\ Stored \subseteq Stored'
          /\ \A d \in Documents : pack[d] \subseteq pack'[d]
      BY <3>2
    <3>4. HandlersOK'
      BY <1>2, <3>1, <3>3, HandlersFrame DEF FilesInv
    <3>. QED  BY <3>2, <3>4 DEF FilesInv
  <2>. QED  BY <1>2, <2>1, <2>2, RequestFiles, StepFiles DEF Next
<1>. QED  BY TypeAlways, <1>1, <1>2, PTL DEF Spec

-----------------------------------------------------------------------------
(* What each request and each step does *)

\* A step saves what its handler holds, and only to its own document.
LEMMA StepStores ==
  ASSUME TypeInv, FilesInv, NEW w \in Workers, Step(w)
  PROVE  LET r == worker[w]
             d == r.doc
         IN  /\ \/ documents' = documents /\ r.pc # "save_document"
                \/ /\ r.pc = "save_document" /\ documents'[d] = r.document
                   /\ \A e \in Documents \ {d} : documents'[e] = documents[e]
             /\ \/ drafts' = drafts /\ r.pc # "save_draft"
                \/ r.pc = "save_draft" /\ drafts' = [drafts EXCEPT ![d] = r.draft]
             /\ \/ pack' = pack /\ r.pc # "write_pack"
                \/ /\ r.pc = "write_pack"
                   /\ pack' = [pack EXCEPT ![d] = @ \cup r.draft.promoted]
             /\ worker'[w] # Idle => r.pc # "event"
             /\ worker'[w] # Idle =>
                   IF r.pc = "get_document"
                   THEN worker'[w].document = Amended(WithPromotedPath(d), r.op, r.draft)
                   ELSE worker'[w].document = r.document
<1>1. worker[w] \in Busy /\ worker[w].doc \in Documents /\ TypeOK
  BY StepFrame DEF Busy, TypeInv
<1>2. documents \in [Documents -> Document] /\ worker \in [Workers -> {Idle} \cup Busy]
  BY <1>1 DEF TypeOK
<1>3. worker' = Moved(w) => worker'[w].document = worker[w].document
  BY <1>1, <1>2 DEF Moved, Busy
<1>4. Return(w) => worker'[w] = Idle
  BY <1>2 DEF Return
<1>5. CASE GetDocument(w)
  <2>1. worker'[w].document =
            Amended(WithPromotedPath(worker[w].doc), worker[w].op, worker[w].draft)
    BY <1>1, <1>2, <1>5 DEF GetDocument, Moved, Busy
  <2>. QED  BY <1>5, <2>1 DEF GetDocument, stores
<1>6. CASE CopyRaw(w)
  BY <1>3, <1>6 DEF CopyRaw
<1>7. CASE WritePack(w)
  BY <1>3, <1>7 DEF WritePack
<1>8. CASE SaveDocument(w)
  BY <1>1, <1>2, <1>3, <1>8 DEF SaveDocument
<1>9. CASE SaveDraft(w)
  BY <1>3, <1>9 DEF SaveDraft
<1>10. CASE Log(w)
  BY <1>3, <1>4, <1>10 DEF Log
<1>11. CASE SaveReviewEvent(w)
  BY <1>3, <1>4, <1>11 DEF SaveReviewEvent
<1>. QED  BY <1>5, <1>6, <1>7, <1>8, <1>9, <1>10, <1>11 DEF Step

MovedRecord(r) == [r EXCEPT !.pc = After(r.op, r.pc)]

\* Only the last two steps can end a handler.
LEMMA StepGoesOn ==
  ASSUME TypeInv, NEW w \in Workers, Step(w), worker[w].pc \notin {"log", "event"}
  PROVE  worker'[w] # Idle
<1>1. worker[w].pc \in Pcs \ {"log", "event"} /\ worker[w] \in Busy
  BY StepFrame DEF Busy
<1>2. /\ MovedRecord(worker[w]) # Idle
      /\ Moved(w) = [worker EXCEPT ![w] = MovedRecord(worker[w])]
  BY <1>1, MovedOK DEF MovedRecord
<1>3. worker'[w].pc = MovedRecord(worker[w]).pc
  BY <1>1, <1>2 DEF Step, CopyRaw, GetDocument, WritePack, SaveDocument, SaveDraft, Log,
     SaveReviewEvent, TypeInv, TypeOK, MovedRecord, Moved, Busy
<1>4. worker'[w].pc \in Pcs
  BY <1>1, <1>3, AfterType DEF MovedRecord, Busy
<1>. QED  BY <1>4 DEF Idle, Pcs

\* The record a request gives its worker.
Asked(op, d, pc, document, draft) ==
    [pc |-> pc, op |-> op, doc |-> d, document |-> document, draft |-> draft,
     previous |-> drafts[d].status]

LEMMA AskedForm ==
  ASSUME TypeInv, NEW w \in Workers, NEW d \in Documents, NEW op, NEW pc, NEW document, NEW draft,
         Serve(w, op, d, pc, document, draft)
  PROVE  /\ worker'[w].op = op /\ worker'[w].pc = pc /\ worker'[w].doc = d
         /\ worker'[w].document = document /\ worker'[w].draft = draft
<1>1. worker'[w] = Asked(op, d, pc, document, draft)
  BY DEF Serve, Asked, TypeInv, TypeOK
<1>. QED  BY <1>1 DEF Asked

LEMMA RequestResults ==
  ASSUME TypeInv, NEW w \in Workers, NEW d \in Documents, Request(w, d)
  PROVE  \/ /\ worker'[w].op = "upload" /\ worker'[w].pc = "copy_raw" /\ worker'[w].draft = NoDraft
            /\ documents[d].status = "none"
            /\ \E hash \in Hashes, title \in Titles, type \in Types :
               \E duplicates \in SUBSET Duplicates(hash) :
                  /\ worker'[w].document = Uploaded(hash, title, type, duplicates)
                  /\ duplicates = {} <=> Duplicates(hash) = {}
         \/ /\ worker'[w].op = "parse" /\ worker'[w].pc = "save_document"
            /\ documents[d].status # "none"
            /\ worker'[w].document = [WithPromotedPath(d) EXCEPT !.status = "parsed"]
            /\ worker'[w].draft = ParsedDraft(documents[d])
         \/ /\ worker'[w].op = "review" /\ worker'[w].pc = "get_document" /\ drafts[d].status # "none"
            /\ \E decision \in Decisions : worker'[w].draft = [drafts[d] EXCEPT !.status = decision]
         \/ /\ worker'[w].op = "metadata" /\ worker'[w].pc = "get_document"
            /\ drafts[d].status \notin {"none", "promoted"}
            /\ \E title, type : worker'[w].draft = [drafts[d] EXCEPT !.title = title, !.type = type]
         \/ /\ worker'[w].op = "promote" /\ worker'[w].pc = "get_document"
            /\ drafts[d].status = "approved" /\ worker'[w].draft = PromotedDraft(drafts[d])
<1>1. \A op, pc, document, draft : Serve(w, op, d, pc, document, draft) =>
          /\ worker'[w].op = op /\ worker'[w].pc = pc
          /\ worker'[w].document = document /\ worker'[w].draft = draft
  BY AskedForm
<1>2. CASE \E hash \in Hashes, title \in Titles, type \in Types : Upload(w, d, hash, title, type)
  <2>1. PICK hash \in Hashes, title \in Titles, type \in Types : Upload(w, d, hash, title, type)
    BY <1>2
  <2>2. documents[d].status = "none"
    BY <2>1 DEF Upload
  <2>3. PICK duplicates \in SUBSET Duplicates(hash) :
            /\ duplicates = {} <=> Duplicates(hash) = {}
            /\ Serve(w, "upload", d, "copy_raw", Uploaded(hash, title, type, duplicates), NoDraft)
    BY <2>1 DEF Upload
  <2>4. /\ worker'[w].op = "upload" /\ worker'[w].pc = "copy_raw" /\ worker'[w].draft = NoDraft
        /\ worker'[w].document = Uploaded(hash, title, type, duplicates)
    BY <1>1, <2>3
  <2>. QED  BY <2>2, <2>3, <2>4
<1>3. CASE ParseDocument(w, d)
  BY <1>1, <1>3 DEF ParseDocument
<1>4. CASE \E decision \in Decisions : ReviewDraft(w, d, decision)
  BY <1>1, <1>4 DEF ReviewDraft
<1>5. CASE UpdateDraftMetadata(w, d)
  <2>1. PICK title, type :
            /\ drafts[d].status \notin {"none", "promoted"}
            /\ Serve(w, "metadata", d, "get_document", NoDocument,
                     [drafts[d] EXCEPT !.title = title, !.type = type])
    BY <1>5 DEF UpdateDraftMetadata
  <2>2. /\ worker'[w].op = "metadata" /\ worker'[w].pc = "get_document"
        /\ worker'[w].draft = [drafts[d] EXCEPT !.title = title, !.type = type]
    BY <1>1, <2>1
  <2>. QED  BY <2>1, <2>2
<1>6. CASE PromoteDraft(w, d)
  BY <1>1, <1>6 DEF PromoteDraft
<1>. QED  BY <1>2, <1>3, <1>4, <1>5, <1>6 DEF Request

-----------------------------------------------------------------------------
(* Promoted records without a file *)

\* A reviewer's "promoted" stays on record while no handler is stopped.
LEMMA MarkStays ==
  ASSUME TypeInv, NEW w \in Workers, Step(w) \/ \E d \in Documents : Request(w, d),
         NEW d \in Documents, ReviewedAsPromoted(d)
  PROVE  ReviewedAsPromoted(d)'
<1>1. CASE \E e \in events : e.op = "review" /\ e.doc = d /\ e.new = "promoted"
  <2>1. events \subseteq events'
    BY StepFrame, RequestFrame DEF stores
  <2>. QED  BY <1>1, <2>1 DEF ReviewedAsPromoted
<1>2. ASSUME NEW v \in Workers, worker[v] # Idle, worker[v].op = "review", worker[v].doc = d,
             worker[v].draft.status = "promoted"
      PROVE  ReviewedAsPromoted(d)'
  <2>1. CASE worker'[v] = worker[v]
    BY <1>2, <2>1 DEF ReviewedAsPromoted
  <2>2. CASE worker'[v] # worker[v]
    <3>1. v = w /\ Step(w) /\ worker[w] \in Busy
      BY <1>2, <2>2, StepFrame, RequestFrame
    <3>2. CASE SaveReviewEvent(w)
      <4>. DEFINE e == [op |-> worker[w].op, doc |-> worker[w].doc,
                        previous |-> worker[w].previous, new |-> worker[w].draft.status]
      <4>1. e \in events'
        BY <3>2 DEF SaveReviewEvent
      <4>2. e.op = "review" /\ e.doc = d /\ e.new = "promoted"
        BY <1>2, <3>1
      <4>. QED  BY <4>1, <4>2 DEF ReviewedAsPromoted
    <3>3. CASE Log(w)
      <4>1. worker[w].pc = "log" /\ worker' = Moved(w)
        BY <1>2, <3>1, <3>3 DEF Log, EventOps
      <4>2. worker'[w].pc = "event"
        BY <3>1, <4>1 DEF Moved, After, Busy, TypeInv, TypeOK
      <4>3. worker'[w] # Idle
        BY <4>2 DEF Idle
      <4>. QED  BY <1>2, <3>1, <4>3, StepFrame DEF ReviewedAsPromoted
    <3>4. CASE ~SaveReviewEvent(w) /\ ~Log(w)
      <4>1. worker[w].pc \notin {"log", "event"}
        BY <3>1, <3>4 DEF Step, CopyRaw, GetDocument, WritePack, SaveDocument, SaveDraft
      <4>2. worker'[w] # Idle
        BY <3>1, <4>1, StepGoesOn
      <4>. QED  BY <1>2, <3>1, <4>2, StepFrame DEF ReviewedAsPromoted
    <3>. QED  BY <3>2, <3>3, <3>4
  <2>. QED  BY <2>1, <2>2
<1>. QED  BY <1>1, <1>2 DEF ReviewedAsPromoted

\* Only a review holds a draft marked promoted that has no file.
LEMMA HeldDraftMarked ==
  ASSUME TypeInv, FilesInv, NEW w \in Workers, worker[w] # Idle, Unfiled(worker[w].draft)
  PROVE  ReviewedAsPromoted(worker[w].doc)
<1>1. worker[w] \in Busy /\ RequestOK(worker[w]) /\ Held(worker[w], raw, pack, Stored)
  BY DEF TypeInv, TypeOK, WorkerOK, RequestOK, FilesInv, HandlersOK
<1>2. worker[w].op = "review"
  BY <1>1 DEF Busy, Ops, RequestOK, Held, Unfiled, NoDraft
<1>. QED  BY <1>2 DEF ReviewedAsPromoted, Unfiled

LEMMA MarkedRequest ==
  ASSUME TypeInv, FilesInv, MarkedInv, aborts = 0,
         NEW w \in Workers, NEW d \in Documents, Request(w, d)
  PROVE  MarkedInv'
<1>1. /\ documents' = documents /\ drafts' = drafts /\ worker[w] = Idle
      /\ \A v \in Workers : v # w => worker'[v] = worker[v]
  BY RequestFrame DEF stores
<1>2. ASSUME NEW e \in Documents, Unfiled(documents'[e]) \/ Unfiled(drafts'[e])
      PROVE  ReviewedAsPromoted(e)'
  BY <1>1, <1>2, MarkStays DEF MarkedInv
<1>3. ASSUME NEW v \in Workers, worker'[v] # Idle, worker'[v].pc # "get_document",
             Unfiled(worker'[v].document), NEW e \in Documents, e = worker'[v].doc
      PROVE  ReviewedAsPromoted(e)'
  <2>1. v # w
    <3>1. worker'[w].pc = "get_document" \/ ~Unfiled(worker'[w].document)
      <4>1. CASE worker'[w].op = "upload"
        BY <4>1, RequestResults DEF Unfiled, Uploaded, NoDocument
      <4>2. CASE worker'[w].op = "parse"
        <5>1. worker'[w].document = [WithPromotedPath(d) EXCEPT !.status = "parsed"]
          BY <4>2, RequestResults
        <5>2. WithPromotedPath(d) \in Document
          BY ReadDocument
        <5>. QED  BY <5>1, <5>2 DEF Unfiled, Document
      <4>. QED  BY <4>1, <4>2, RequestResults
    <3>. QED  BY <1>3, <3>1
  <2>2. ReviewedAsPromoted(e)
    BY <1>1, <1>3, <2>1 DEF MarkedInv
  <2>. QED  BY <2>2, MarkStays
<1>4. \A v \in Workers : worker'[v] # Idle => worker'[v].doc \in Documents
  BY RequestType DEF TypeInv, TypeOK, Busy
<1>. QED  BY <1>2, <1>3, <1>4 DEF MarkedInv, Unfiled, ReviewedAsPromoted

LEMMA MarkedStep ==
  ASSUME TypeInv, FilesInv, MarkedInv, aborts = 0, NEW w \in Workers, Step(w)
  PROVE  MarkedInv'
<1>. DEFINE r == worker[w]
            next == worker'[w]
<1>0. PICK d \in Documents : d = r.doc
  BY StepFrame DEF Busy
<1>1. /\ r \in Busy /\ RequestOK(r) /\ r # Idle /\ Held(r, raw, pack, Stored)
      /\ \A v \in Workers : v # w => worker'[v] = worker[v]
      /\ next # Idle => next.op = r.op /\ next.doc = d /\ next.draft = r.draft
  BY <1>0, StepFrame DEF Busy, Idle, Pcs, FilesInv, HandlersOK
<1>2. Unfiled(r.draft) => ReviewedAsPromoted(d)
  BY <1>0, <1>1, HeldDraftMarked
<1>3. r.pc # "get_document" /\ Unfiled(r.document) => ReviewedAsPromoted(d)
  BY <1>0, <1>1 DEF MarkedInv
<1>4. ASSUME NEW e \in Documents, Unfiled(documents'[e]) \/ Unfiled(drafts'[e])
      PROVE  ReviewedAsPromoted(e)'
  <2>1. \/ documents'[e] = documents[e]
        \/ e = d /\ documents'[e] = r.document /\ r.pc = "save_document"
    BY <1>0, StepStores
  <2>2. drafts'[e] = drafts[e] \/ (e = d /\ drafts'[e] = r.draft)
    <3>1. CASE drafts' = drafts
      BY <3>1
    <3>2. CASE drafts' = [drafts EXCEPT ![d] = r.draft]
      BY <3>2 DEF TypeInv, TypeOK
    <3>. QED  BY <1>0, <3>1, <3>2, StepStores
  <2>3. ReviewedAsPromoted(e)
    BY <1>2, <1>3, <1>4, <2>1, <2>2 DEF MarkedInv
  <2>. QED  BY <2>3, MarkStays
<1>5. ASSUME next # Idle, Unfiled(next.document) PROVE ReviewedAsPromoted(d)
  <2>1. CASE r.pc = "get_document"
    <3>. DEFINE read == WithPromotedPath(d)
    <3>1. next.document = Amended(read, r.op, r.draft)
      BY <1>0, <1>5, <2>1, StepStores
    <3>2. read \in Document /\ (Unfiled(read) => ReviewedAsPromoted(d))
      BY ReadDocument DEF MarkedInv
    <3>. HIDE DEF read
    <3>3. CASE r.op = "review"
      <4>1. r.draft.status = "promoted"
        BY <1>5, <3>1, <3>2, <3>3 DEF Amended, Unfiled, Document
      <4>. QED  BY <1>0, <1>1, <3>3, <4>1 DEF ReviewedAsPromoted
    <3>4. CASE r.op = "metadata"
      BY <1>5, <3>1, <3>2, <3>4 DEF Amended, Unfiled, Document
    <3>5. CASE r.op = "promote"
      BY <1>1, <1>5, <3>1, <3>2, <3>5 DEF Amended, Unfiled, Document, Held
    <3>. QED  BY <1>1, <2>1, <3>3, <3>4, <3>5 DEF RequestOK, EventOps
  <2>2. CASE r.pc # "get_document"
    BY <1>3, <1>5, <2>2, StepStores
  <2>. QED  BY <2>1, <2>2
<1>6. ASSUME NEW v \in Workers, worker'[v] # Idle, worker'[v].pc # "get_document",
             Unfiled(worker'[v].document), NEW e \in Documents, e = worker'[v].doc
      PROVE  ReviewedAsPromoted(e)'
  <2>1. ReviewedAsPromoted(e)
    BY <1>1, <1>5, <1>6 DEF MarkedInv
  <2>. QED  BY <2>1, MarkStays
<1>7. \A v \in Workers : worker'[v] # Idle => worker'[v].doc \in Documents
  BY StepType DEF TypeInv, TypeOK, Busy
<1>. QED  BY <1>4, <1>6, <1>7 DEF MarkedInv, Unfiled, ReviewedAsPromoted

LEMMA MarkedAlways == Spec => [](TypeInv /\ FilesInv /\ MarkedInv)
<1>1. Init => MarkedInv
  BY DEF Init, MarkedInv, Unfiled, NoDocument, NoDraft
<1>2. ASSUME TypeInv, FilesInv, MarkedInv, [Next]_vars PROVE MarkedInv'
  <2>1. CASE UNCHANGED vars
    BY <1>2, <2>1 DEF vars, stores, MarkedInv, Unfiled, ReviewedAsPromoted
  <2>2. ASSUME NEW w \in Workers, Step(w) \/ \E d \in Documents : Request(w, d)
        PROVE  MarkedInv'
    <3>1. aborts' = aborts
      BY <1>2, <2>2, StepFrame, RequestFrame
    <3>2. CASE aborts = 0
      BY <1>2, <2>2, <3>2, MarkedRequest, MarkedStep
    <3>3. CASE aborts # 0
      BY <3>1, <3>3 DEF MarkedInv
    <3>. QED  BY <3>2, <3>3
  <2>3. ASSUME NEW w \in Workers, Abort(w) PROVE MarkedInv'
    <3>1. aborts' # 0
      BY <1>2, <2>3 DEF Abort, TypeInv, TypeOK
    <3>. QED  BY <3>1 DEF MarkedInv
  <2>. QED  BY <1>2, <2>1, <2>2, <2>3 DEF Next
<1>. QED  BY FilesAlways, <1>1, <1>2, PTL DEF Spec

\* Wherever a handler is stopped or overtaken, the files that documents and
\* drafts name exist; and while none was stopped, a record is promoted without
\* naming a file only where a reviewer sent that very status.
THEOREM RecordedFiles == Spec => []RecordedFilesExist
  BY MarkedAlways, FilesInvImplies, PTL

-----------------------------------------------------------------------------
(* One handler at a time *)

Alone == \A v, w \in Workers : v = w

LEMMA PromotionPaths ==
  ASSUME NEW draft \in Draft, draft.type # {}
  PROVE  /\ PromotedDraft(draft).title = draft.title
         /\ PromotedDraft(draft).status = "promoted"
         /\ {path.title : path \in PromotedDraft(draft).promoted} = draft.title
<1>. DEFINE types == {Normalized[t] : t \in draft.type}
            paths == [title : draft.title, type : types]
<1>1. PromotedDraft(draft) = [[draft EXCEPT !.type = types]
                                EXCEPT !.status = "promoted", !.promoted = paths]
  BY DEF PromotedDraft, TargetPaths, Draft
<1>2. types # {}
  OBVIOUS
<1>3. {path.title : path \in paths} = draft.title
  <2>. HIDE DEF types
  <2>1. PICK type : type \in types
    BY <1>2
  <2>2. \A title \in draft.title : \E path \in paths : path.title = title
    <3>1. ASSUME NEW title \in draft.title
          PROVE  \E path \in paths : path.title = title
      <4>1. [title |-> title, type |-> type] \in paths
        BY <2>1
      <4>. QED  BY <4>1
    <3>. QED  BY <3>1
  <2>3. \A path \in paths : path.title \in draft.title
    OBVIOUS
  <2>. QED  BY <2>2, <2>3
<1>. HIDE DEF types, paths
<1>. QED  BY <1>1, <1>3 DEF Draft

-----------------------------------------------------------------------------
(* The draft a handler is about to save *)

\* The handler has yet to save the draft it holds.
Drafting(r) ==
    /\ r.op # "upload"
    /\ \/ r.pc \in {"get_document", "write_pack", "save_draft"}
       \/ r.pc = "save_document" /\ r.op # "promote"

\* How the draft a handler will save differs from the one that is stored.
Revises(r, draft) ==
    /\ r.op = "review" => /\ draft.status # "none"
                          /\ r.draft.title = draft.title
                          /\ r.draft.type = draft.type
                          /\ r.draft.promoted = draft.promoted
    /\ r.op = "metadata" => r.draft.status = draft.status /\ r.draft.promoted = draft.promoted
    /\ r.op = "promote" => /\ draft.status = "approved"
                           /\ r.draft.title = draft.title
                           /\ {path.title : path \in r.draft.promoted} = draft.title

RevisionInv ==
    \A w \in Workers : worker[w] # Idle /\ Drafting(worker[w]) =>
        Revises(worker[w], drafts[worker[w].doc])

LEMMA RevisionRequest ==
  ASSUME Alone, TypeInv, FilesInv, NEW w \in Workers, NEW d \in Documents, Request(w, d)
  PROVE  RevisionInv'
<1>1. drafts' = drafts /\ worker'[w].doc = d /\ drafts[d] \in Draft
  BY RequestFrame DEF stores, TypeInv, TypeOK
<1>2. worker'[w].op \in {"upload", "parse", "review", "metadata", "promote"}
  BY RequestResults
<1>3. CASE worker'[w].op \in {"upload", "parse"}
  BY <1>1, <1>3 DEF Alone, RevisionInv, Revises
<1>4. CASE worker'[w].op = "review"
  <2>1. PICK decision \in Decisions :
            drafts[d].status # "none" /\ worker'[w].draft = [drafts[d] EXCEPT !.status = decision]
    BY <1>4, RequestResults
  <2>2. Revises(worker'[w], drafts[d])
    BY <1>1, <1>4, <2>1 DEF Revises, Draft
  <2>. QED  BY <1>1, <2>2 DEF Alone, RevisionInv
<1>5. CASE worker'[w].op = "metadata"
  <2>1. PICK title, type : worker'[w].draft = [drafts[d] EXCEPT !.title = title, !.type = type]
    BY <1>5, RequestResults
  <2>2. Revises(worker'[w], drafts[d])
    BY <1>1, <1>5, <2>1 DEF Revises, Draft
  <2>. QED  BY <1>1, <2>2 DEF Alone, RevisionInv
<1>6. CASE worker'[w].op = "promote"
  <2>1. drafts[d].status = "approved" /\ worker'[w].draft = PromotedDraft(drafts[d])
    BY <1>6, RequestResults
  <2>2. drafts[d].type # {}
    BY <2>1 DEF FilesInv, StoresOK, Filled
  <2>3. Revises(worker'[w], drafts[d])
    BY <1>1, <1>6, <2>1, <2>2, PromotionPaths DEF Revises
  <2>. QED  BY <1>1, <2>3 DEF Alone, RevisionInv
<1>. QED  BY <1>2, <1>3, <1>4, <1>5, <1>6

LEMMA RevisionStep ==
  ASSUME Alone, TypeInv, FilesInv, RevisionInv, NEW w \in Workers, Step(w)
  PROVE  RevisionInv'
<1>. DEFINE r == worker[w]
            next == worker'[w]
<1>1. /\ r \in Busy /\ RequestOK(r) /\ r # Idle
      /\ next # Idle => /\ next.pc = After(r.op, r.pc) /\ next.op = r.op
                        /\ next.doc = r.doc /\ next.draft = r.draft
  BY StepFrame DEF Busy, Idle, Pcs
<1>2. SUFFICES ASSUME next # Idle, Drafting(next) PROVE Revises(next, drafts'[r.doc])
  BY <1>1 DEF Alone, RevisionInv
<1>3. Drafting(r) /\ r.pc # "save_draft"
  <2>1. r.pc \in Pcs \ {"event"} /\ r.op \in Ops
    BY <1>1, <1>2, StepStores DEF Busy
  <2>. QED  BY <1>1, <1>2, <2>1 DEF Drafting, After, Pcs, Ops, RequestOK, EventOps
<1>4. drafts' = drafts
  BY <1>3, StepStores
<1>5. Revises(r, drafts[r.doc])
  BY <1>1, <1>3 DEF RevisionInv
<1>. QED  BY <1>1, <1>2, <1>4, <1>5 DEF Revises

LEMMA RevisionAlways ==
  ASSUME Alone
  PROVE  Spec => [](TypeInv /\ FilesInv /\ RevisionInv)
<1>1. Init => RevisionInv
  BY DEF Init, RevisionInv
<1>2. ASSUME TypeInv, FilesInv, RevisionInv, [Next]_vars PROVE RevisionInv'
  <2>1. CASE UNCHANGED vars
    BY <1>2, <2>1 DEF vars, stores, RevisionInv
  <2>2. ASSUME NEW w \in Workers, Abort(w) PROVE RevisionInv'
    <3>1. worker'[w] = Idle
      BY <1>2, <2>2 DEF Abort, Return, TypeInv, TypeOK
    <3>. QED  BY <3>1 DEF Alone, RevisionInv
  <2>. QED  BY <1>2, <2>1, <2>2, RevisionRequest, RevisionStep DEF Next
<1>. QED  BY FilesAlways, <1>1, <1>2, PTL DEF Spec

-----------------------------------------------------------------------------
(* The document and its draft *)

Agree(document, draft) ==
    draft.status # "none" =>
        /\ \/ document.status = draft.status
           \/ document.status = "parsed" /\ draft.status = "pending_review"
        /\ document.title = draft.title
        /\ document.type = draft.type
        /\ draft.promoted \subseteq document.promoted

\* A handler has saved the one file and not yet the other.
Between(r) ==
    \/ r.op \in {"parse", "review", "metadata"} /\ r.pc = "save_draft"
    \/ r.op = "promote" /\ r.pc = "save_document"

\* A handler saves a document and a draft that agree, the second as the first.
Pairs(r, document, draft) ==
    /\ r.op = "upload" => draft.status = "none"
    /\ r.op # "upload" /\ r.pc # "get_document" => Agree(r.document, r.draft)
    /\ Between(r) /\ r.op # "promote" => document = r.document
    /\ Between(r) /\ r.op = "promote" => draft = r.draft

AgreeInv ==
    aborts = 0 =>
        /\ \A d \in Documents :
              \/ Agree(documents[d], drafts[d])
              \/ \E w \in Workers : worker[w] # Idle /\ worker[w].doc = d /\ Between(worker[w])
        /\ \A w \in Workers : worker[w] # Idle =>
              Pairs(worker[w], documents[worker[w].doc], drafts[worker[w].doc])

\* The document a handler has just read, with its change, agrees with the draft.
LEMMA AmendedAgrees ==
  ASSUME NEW document \in Document, NEW draft \in Draft, NEW r \in Busy,
         r.op \in EventOps, RequestOK(r), Revises(r, draft), Agree(document, draft)
  PROVE  Agree(Amended(document, r.op, r.draft), r.draft)
<1>1. CASE r.op = "review"
  <2>1. Amended(document, r.op, r.draft) = [document EXCEPT !.status = r.draft.status]
    BY <1>1 DEF Amended
  <2>. QED  BY <1>1, <2>1 DEF Agree, Revises, Document
<1>2. CASE r.op = "metadata"
  <2>1. Amended(document, r.op, r.draft) =
            [document EXCEPT !.title = r.draft.title, !.type = r.draft.type]
    BY <1>2 DEF Amended
  <2>. QED  BY <1>2, <2>1 DEF Agree, Revises, RequestOK, Document
<1>3. CASE r.op = "promote"
  <2>1. Amended(document, r.op, r.draft) =
            [document EXCEPT !.status = "promoted", !.type = r.draft.type,
                             !.promoted = r.draft.promoted]
    BY <1>3 DEF Amended
  <2>. QED  BY <1>3, <2>1 DEF Agree, Revises, RequestOK, Document
<1>. QED  BY <1>1, <1>2, <1>3 DEF EventOps

LEMMA AgreeRequest ==
  ASSUME Alone, TypeInv, FilesInv, AgreeInv, NEW w \in Workers, NEW d \in Documents, Request(w, d)
  PROVE  AgreeInv'
<1>. SUFFICES ASSUME aborts' = 0 PROVE AgreeInv'
  BY DEF AgreeInv
<1>1. /\ documents' = documents /\ drafts' = drafts /\ aborts' = aborts
      /\ worker[w] = Idle /\ worker'[w].doc = d
      /\ documents[d] \in Document /\ drafts[d] \in Draft
  BY RequestFrame DEF stores, TypeInv, TypeOK
<1>2. \A e \in Documents : Agree(documents[e], drafts[e])
  BY <1>1 DEF Alone, AgreeInv
<1>3. Pairs(worker'[w], documents[d], drafts[d])
  <2>1. worker'[w].op \in {"upload", "parse", "review", "metadata", "promote"}
    BY RequestResults
  <2>2. CASE worker'[w].op = "upload"
    <3>1. documents[d].status = "none" /\ worker'[w].pc = "copy_raw"
      BY <2>2, RequestResults
    <3>2. drafts[d].status = "none"
      BY <3>1 DEF FilesInv, StoresOK
    <3>. QED  BY <2>2, <3>1, <3>2 DEF Pairs, Between
  <2>3. CASE worker'[w].op = "parse"
    <3>1. /\ worker'[w].pc = "save_document"
          /\ worker'[w].document = [WithPromotedPath(d) EXCEPT !.status = "parsed"]
          /\ worker'[w].draft = ParsedDraft(documents[d])
      BY <2>3, RequestResults
    <3>2. Agree(worker'[w].document, worker'[w].draft)
      BY <1>1, <3>1, ReadDocument DEF Agree, ParsedDraft, Document
    <3>. QED  BY <2>3, <3>1, <3>2 DEF Pairs, Between
  <2>4. CASE worker'[w].op \in EventOps
    <3>1. worker'[w].pc = "get_document"
      BY <2>4, RequestResults DEF EventOps
    <3>. QED  BY <2>4, <3>1 DEF Pairs, Between, EventOps
  <2>. QED  BY <2>1, <2>2, <2>3, <2>4 DEF EventOps
<1>. QED  BY <1>1, <1>2, <1>3 DEF Alone, AgreeInv

LEMMA AgreeStep ==
  ASSUME Alone, TypeInv, FilesInv, RevisionInv, AgreeInv, NEW w \in Workers, Step(w)
  PROVE  AgreeInv'
<1>. SUFFICES ASSUME aborts' = 0 PROVE AgreeInv'
  BY DEF AgreeInv
<1>. DEFINE r == worker[w]
            d == worker[w].doc
            next == worker'[w]
<1>1. /\ r \in Busy /\ RequestOK(r) /\ r # Idle /\ aborts = 0 /\ d \in Documents
      /\ documents[d] \in Document /\ drafts[d] \in Draft
  BY StepFrame DEF Busy, Idle, Pcs, TypeInv, TypeOK
<1>2. next # Idle => /\ next.pc = After(r.op, r.pc) /\ next.op = r.op
                     /\ next.doc = d /\ next.draft = r.draft /\ r.pc # "event"
  BY StepFrame, StepStores
<1>3. next # Idle => next.document = IF r.pc = "get_document"
                                     THEN Amended(WithPromotedPath(d), r.op, r.draft)
                                     ELSE r.document
  BY StepStores
<1>4. /\ \/ documents' = documents /\ r.pc # "save_document"
         \/ /\ r.pc = "save_document" /\ documents'[d] = r.document
            /\ \A e \in Documents \ {d} : documents'[e] = documents[e]
      /\ \/ drafts' = drafts /\ r.pc # "save_draft"
         \/ r.pc = "save_draft" /\ drafts' = [drafts EXCEPT ![d] = r.draft]
  BY StepStores
<1>5. /\ Between(r) \/ Agree(documents[d], drafts[d])
      /\ \A e \in Documents \ {d} : Agree(documents[e], drafts[e])
      /\ Pairs(r, documents[d], drafts[d])
  BY <1>1 DEF Alone, AgreeInv
<1>6. \A e \in Documents \ {d} : Agree(documents'[e], drafts'[e])
  BY <1>1, <1>4, <1>5 DEF TypeInv, TypeOK
<1>7. drafts'[d] = IF r.pc = "save_draft" THEN r.draft ELSE drafts[d]
  BY <1>1, <1>4 DEF TypeInv, TypeOK
<1>8. documents'[d] = IF r.pc = "save_document" THEN r.document ELSE documents[d]
  BY <1>4
<1>9. r.op \in Ops /\ r.pc \in Pcs
  BY <1>1 DEF Busy
<1>10. CASE r.pc \in {"save_document", "save_draft"}
  <2>1. next # Idle
    BY <1>1, <1>10, StepGoesOn
  <2>2. CASE r.pc = "save_document" /\ r.op \notin {"upload", "promote"}
    <3>1. next.pc = "save_draft" /\ Between(next) /\ next.document = r.document
      BY <1>2, <1>3, <1>9, <2>1, <2>2 DEF After, Between, Ops
    <3>2. Agree(r.document, r.draft)
      BY <1>5, <2>2 DEF Pairs
    <3>. QED  BY <1>2, <1>8, <2>1, <2>2, <3>1, <3>2, <1>6, <1>1 DEF Pairs, Alone, AgreeInv
  <2>3. CASE r.pc = "save_document" /\ r.op = "upload"
    <3>1. drafts'[d].status = "none" /\ ~Between(next)
      BY <1>2, <1>5, <1>7, <2>1, <2>3 DEF Pairs, Between
    <3>. QED  BY <1>1, <1>2, <1>6, <2>1, <2>3, <3>1 DEF Pairs, Agree, Alone, AgreeInv
  <2>4. CASE r.pc = "save_document" /\ r.op = "promote"
    <3>1. next.pc = "log" /\ ~Between(next) /\ next.document = r.document
      BY <1>2, <1>3, <2>1, <2>4 DEF After, Between
    <3>2. Agree(r.document, r.draft) /\ drafts[d] = r.draft
      BY <1>5, <2>4 DEF Pairs, Between
    <3>. QED
      BY <1>1, <1>2, <1>6, <1>7, <1>8, <2>1, <2>4, <3>1, <3>2 DEF Pairs, Alone, AgreeInv
  <2>5. CASE r.pc = "save_draft" /\ r.op = "promote"
    <3>1. next.pc = "save_document" /\ Between(next) /\ next.document = r.document
      BY <1>2, <1>3, <2>1, <2>5 DEF After, Between
    <3>2. Agree(r.document, r.draft)
      BY <1>5, <2>5 DEF Pairs
    <3>. QED
      BY <1>1, <1>2, <1>6, <1>7, <2>1, <2>5, <3>1, <3>2 DEF Pairs, Alone, AgreeInv
  <2>6. CASE r.pc = "save_draft" /\ r.op # "promote"
    <3>1. next.pc = "log" /\ ~Between(next) /\ next.document = r.document /\ r.op # "upload"
      BY <1>1, <1>2, <1>3, <2>1, <2>6 DEF After, Between, RequestOK
    <3>2. Agree(r.document, r.draft) /\ documents[d] = r.document
      BY <1>5, <1>9, <2>6, <3>1 DEF Pairs, Between, Ops
    <3>. QED
      BY <1>1, <1>2, <1>6, <1>7, <1>8, <2>1, <2>6, <3>1, <3>2 DEF Pairs, Alone, AgreeInv
  <2>. QED  BY <1>10, <2>2, <2>3, <2>4, <2>5, <2>6
<1>11. CASE r.pc \notin {"save_document", "save_draft"}
  <2>1. documents'[d] = documents[d] /\ drafts'[d] = drafts[d]
    BY <1>7, <1>8, <1>11
  <2>2. Agree(documents[d], drafts[d])
    BY <1>5, <1>11 DEF Between
  <2>3. ASSUME next # Idle
        PROVE  Pairs(next, documents[d], drafts[d])
    <3>1. ~Between(next) /\ next.op = r.op
      BY <1>1, <1>2, <1>9, <1>11, <2>3 DEF After, Between, Ops, Pcs, RequestOK, EventOps
    <3>2. CASE r.pc = "get_document"
      <4>1. Agree(next.document, next.draft) /\ r.op # "upload"
        <5>1. r.op \in EventOps /\ Revises(r, drafts[d])
          BY <1>1, <3>2 DEF RequestOK, RevisionInv, Drafting, EventOps
        <5>2. WithPromotedPath(d) \in Document /\ Agree(WithPromotedPath(d), drafts[d])
          BY <1>1, <2>2, ReadDocument DEF Agree
        <5>. QED  BY <1>1, <1>2, <1>3, <2>3, <3>2, <5>1, <5>2, AmendedAgrees DEF EventOps
      <4>. QED  BY <3>1, <4>1 DEF Pairs
    <3>3. CASE r.pc # "get_document"
      BY <1>2, <1>3, <1>5, <2>3, <3>1, <3>3 DEF Pairs
    <3>. QED  BY <3>2, <3>3
  <2>. QED  BY <1>1, <1>2, <1>6, <2>1, <2>2, <2>3 DEF Alone, AgreeInv
<1>. QED  BY <1>10, <1>11

\* A client that waits for each handler finds the document and the draft telling
\* the same story, whatever it reviewed, edited, promoted and parsed again.
THEOREM DocumentsAgree ==
  ASSUME Alone
  PROVE  Spec => []DocumentAgreesWithDraft
<1>1. Init => AgreeInv
  BY DEF Init, AgreeInv, NoDraft, Agree
<1>2. ASSUME TypeInv, FilesInv, RevisionInv, AgreeInv, [Next]_vars PROVE AgreeInv'
  <2>1. CASE UNCHANGED vars
    BY <1>2, <2>1 DEF vars, stores, bounds, AgreeInv
  <2>2. ASSUME NEW w \in Workers, Abort(w) PROVE AgreeInv'
    <3>1. aborts' # 0
      BY <1>2, <2>2 DEF Abort, TypeInv, TypeOK
    <3>. QED  BY <3>1 DEF AgreeInv
  <2>. QED  BY <1>2, <2>1, <2>2, AgreeRequest, AgreeStep DEF Next
<1>3. AgreeInv => DocumentAgreesWithDraft
  BY DEF AgreeInv, Agree, DocumentAgreesWithDraft, Idling
<1>. QED  BY RevisionAlways, <1>1, <1>2, <1>3, PTL DEF Spec

-----------------------------------------------------------------------------
(* Duplicates *)

\* What an upload will save names an earlier document of the same source, and
\* the other handlers keep the source and the warnings.
Flags(r, stored) ==
    /\ r.op = "upload" /\ r.pc \in {"copy_raw", "save_document"} =>
            \A e \in Documents : r.document.hash \cap stored[e].hash # {} =>
                r.document.warnings # {}
    /\ r.op # "upload" /\ r.pc # "get_document" =>
            /\ r.document.hash = stored[r.doc].hash
            /\ r.document.warnings = stored[r.doc].warnings

FlagsInv ==
    /\ DuplicatesAreFlagged
    /\ \A w \in Workers : worker[w] # Idle => Flags(worker[w], documents)

LEMMA AmendedKeeps ==
  ASSUME NEW document \in Document, NEW op \in EventOps, NEW draft
  PROVE  /\ Amended(document, op, draft).hash = document.hash
         /\ Amended(document, op, draft).warnings = document.warnings
  BY DEF Amended, EventOps, Document

LEMMA FlagsRequest ==
  ASSUME Alone, TypeInv, FilesInv, FlagsInv, NEW w \in Workers, NEW d \in Documents, Request(w, d)
  PROVE  FlagsInv'
<1>1. /\ documents' = documents /\ worker'[w].doc = d
      /\ documents \in [Documents -> Document]
  BY RequestFrame DEF stores, TypeInv, TypeOK
<1>2. Flags(worker'[w], documents)
  <2>1. worker'[w].op \in {"upload", "parse", "review", "metadata", "promote"}
    BY RequestResults
  <2>2. CASE worker'[w].op = "upload"
    <3>1. PICK hash \in Hashes, title \in Titles, type \in Types :
              \E duplicates \in SUBSET Duplicates(hash) :
                 /\ worker'[w].document = Uploaded(hash, title, type, duplicates)
                 /\ duplicates = {} <=> Duplicates(hash) = {}
      BY <2>2, RequestResults
    <3>2. PICK duplicates \in SUBSET Duplicates(hash) :
              /\ worker'[w].document = Uploaded(hash, title, type, duplicates)
              /\ duplicates = {} <=> Duplicates(hash) = {}
      BY <3>1
    <3>3. worker'[w].document.hash = {hash} /\ worker'[w].document.warnings = duplicates
      BY <3>2 DEF Uploaded, NoDocument
    <3>4. ASSUME NEW e \in Documents, {hash} \cap documents[e].hash # {}
          PROVE  duplicates # {}
      BY <3>2, <3>4 DEF Duplicates
    <3>. QED  BY <2>2, <3>3, <3>4 DEF Flags
  <2>3. CASE worker'[w].op = "parse"
    <3>1. worker'[w].document = [WithPromotedPath(d) EXCEPT !.status = "parsed"]
      BY <2>3, RequestResults
    <3>. QED  BY <1>1, <2>3, <3>1, ReadDocument DEF Flags, Document
  <2>4. CASE worker'[w].op \in EventOps
    <3>1. worker'[w].pc = "get_document"
      BY <2>4, RequestResults DEF EventOps
    <3>. QED  BY <2>4, <3>1 DEF Flags, EventOps
  <2>. QED  BY <2>1, <2>2, <2>3, <2>4 DEF EventOps
<1>. QED  BY <1>1, <1>2 DEF Alone, FlagsInv, DuplicatesAreFlagged

LEMMA FlagsStep ==
  ASSUME Alone, TypeInv, FlagsInv, FilesInv, NEW w \in Workers, Step(w)
  PROVE  FlagsInv'
<1>. DEFINE r == worker[w]
            d == worker[w].doc
            next == worker'[w]
<1>1. /\ r \in Busy /\ RequestOK(r) /\ r # Idle /\ d \in Documents
      /\ documents \in [Documents -> Document] /\ documents[d] \in Document
  BY StepFrame DEF Busy, Idle, Pcs, TypeInv, TypeOK
<1>2. next # Idle => /\ next.pc = After(r.op, r.pc) /\ next.op = r.op
                     /\ next.doc = d /\ r.pc # "event"
  BY StepFrame, StepStores
<1>3. next # Idle => next.document = IF r.pc = "get_document"
                                     THEN Amended(WithPromotedPath(d), r.op, r.draft)
                                     ELSE r.document
  BY StepStores
<1>4. Flags(r, documents) /\ DuplicatesAreFlagged
  BY <1>1 DEF FlagsInv
<1>5. r.op \in Ops /\ r.pc \in Pcs
  BY <1>1 DEF Busy
<1>6. CASE r.pc = "save_document"
  <2>1. /\ documents'[d] = r.document
        /\ \A e \in Documents \ {d} : documents'[e] = documents[e]
    BY <1>6, StepStores
  <2>2. next # Idle => Flags(next, documents')
    BY <1>2, <1>3, <1>6, <2>1 DEF Flags, After
  <2>3. ASSUME NEW e \in Documents \ {d}, r.document.hash \cap documents[e].hash # {}
        PROVE  r.document.warnings \cup documents[e].warnings # {}
    <3>1. CASE r.op = "upload"
      BY <1>4, <1>6, <2>3, <3>1 DEF Flags
    <3>2. CASE r.op # "upload"
      <4>1. r.document.hash = documents[d].hash /\ r.document.warnings = documents[d].warnings
        BY <1>4, <1>6, <3>2 DEF Flags
      <4>. QED  BY <1>1, <1>4, <2>3, <4>1 DEF DuplicatesAreFlagged
    <3>. QED  BY <3>1, <3>2
  <2>4. ASSUME NEW e \in Documents, NEW f \in Documents, e # f,
               documents'[e].hash \cap documents'[f].hash # {}
        PROVE  documents'[e].warnings \cup documents'[f].warnings # {}
    <3>1. CASE e = d
      BY <2>1, <2>3, <2>4, <3>1
    <3>2. CASE f = d
      BY <2>1, <2>3, <2>4, <3>2
    <3>3. CASE e # d /\ f # d
      BY <1>4, <2>1, <2>4, <3>3 DEF DuplicatesAreFlagged
    <3>. QED  BY <3>1, <3>2, <3>3
  <2>5. DuplicatesAreFlagged'
    BY <2>4 DEF DuplicatesAreFlagged
  <2>. QED  BY <1>1, <2>2, <2>5 DEF Alone, FlagsInv
<1>7. CASE r.pc # "save_document"
  <2>1. documents' = documents
    BY <1>7, StepStores
  <2>2. ASSUME next # Idle
        PROVE  Flags(next, documents)
    <3>1. CASE r.pc = "get_document"
      <4>1. r.op \in EventOps
        BY <1>1, <3>1 DEF RequestOK
      <4>2. next.document.hash = documents[d].hash /\ next.document.warnings = documents[d].warnings
        BY <1>1, <1>3, <2>2, <3>1, <4>1, ReadDocument, AmendedKeeps
      <4>. QED  BY <1>2, <2>2, <4>1, <4>2 DEF Flags, EventOps
    <3>2. CASE r.pc # "get_document" /\ r.op = "upload"
      BY <1>1, <1>2, <1>3, <1>4, <1>5, <1>7, <2>2, <3>2 DEF Flags, After, Pcs, RequestOK
    <3>3. CASE r.pc # "get_document" /\ r.op # "upload"
      BY <1>2, <1>3, <1>4, <2>2, <3>3 DEF Flags
    <3>. QED  BY <3>1, <3>2, <3>3
  <2>. QED  BY <1>1, <1>4, <2>1, <2>2 DEF Alone, FlagsInv, DuplicatesAreFlagged
<1>. QED  BY <1>6, <1>7

\* One upload after the other, none hides the copy of a source that an earlier
\* one has stored, and no later handler drops its warning.
THEOREM DuplicatesFlagged ==
  ASSUME Alone
  PROVE  Spec => []DuplicatesAreFlagged
<1>1. Init => FlagsInv
  BY DEF Init, FlagsInv, DuplicatesAreFlagged, NoDocument
<1>2. ASSUME TypeInv, FilesInv, FlagsInv, [Next]_vars PROVE FlagsInv'
  <2>1. CASE UNCHANGED vars
    BY <1>2, <2>1 DEF vars, stores, FlagsInv, DuplicatesAreFlagged
  <2>2. ASSUME NEW w \in Workers, Abort(w) PROVE FlagsInv'
    <3>1. worker'[w] = Idle /\ documents' = documents
      BY <1>2, <2>2 DEF Abort, Return, TypeInv, TypeOK, stores
    <3>. QED  BY <1>2, <3>1 DEF Alone, FlagsInv, DuplicatesAreFlagged
  <2>. QED  BY <1>2, <2>1, <2>2, FlagsRequest, FlagsStep DEF Next
<1>3. FlagsInv => DuplicatesAreFlagged
  BY DEF FlagsInv
<1>. QED  BY FilesAlways, <1>1, <1>2, <1>3, PTL DEF Spec

-----------------------------------------------------------------------------
(* The publication gate *)

GateReview == [d \in Documents |-> drafts[d].status]
GateTitle == [d \in Documents |-> drafts[d].title]
GatePublished == [d \in Documents |-> {path.title : path \in pack[d]}]

LEMMA GateFrame ==
  ASSUME TypeInv, NEW d \in Documents, NEW draft, drafts' = [drafts EXCEPT ![d] = draft]
  PROVE  /\ GateReview' = [GateReview EXCEPT ![d] = draft.status]
         /\ GateTitle' = [GateTitle EXCEPT ![d] = draft.title]
  BY DEF GateReview, GateTitle, TypeInv, TypeOK

LEMMA TitleIsOne ==
  ASSUME NEW draft \in Draft, draft.title # {}
  PROVE  \E t \in Titles : draft.title = {t}
<1>1. PICK t : t \in draft.title
  OBVIOUS
<1>2. t \in Titles /\ draft.title = {t}
  BY <1>1 DEF Draft, Maybe
<1>. QED  BY <1>2

\* Saving a draft proposes it, decides it, edits it or concludes its promotion.
LEMMA SavedIsGateStep ==
  ASSUME TypeInv, FilesInv, RevisionInv, NEW w \in Workers, SaveDraft(w)
  PROVE  Gate!Next
<1>. DEFINE r == worker[w]
<1>1. /\ r \in Busy /\ RequestOK(r) /\ r # Idle /\ r.pc = "save_draft"
      /\ Held(r, raw, pack, Stored) /\ Revises(r, drafts[r.doc])
  <2>1. r \in Busy /\ RequestOK(r) /\ r.pc = "save_draft"
    BY StepFrame DEF Step, SaveDraft
  <2>2. r # Idle /\ Drafting(r)
    BY <2>1 DEF Idle, Drafting, RequestOK
  <2>. QED  BY <2>1, <2>2 DEF FilesInv, HandlersOK, RevisionInv
<1>2. PICK d \in Documents : d = r.doc
  BY <1>1 DEF Busy
<1>3. PICK draft \in Draft : draft = r.draft
  BY <1>1 DEF Busy
<1>4. /\ GateReview' = [GateReview EXCEPT ![d] = draft.status]
      /\ GateTitle' = [GateTitle EXCEPT ![d] = draft.title]
      /\ GatePublished' = GatePublished
  <2>1. drafts' = [drafts EXCEPT ![d] = draft] /\ pack' = pack
    BY <1>2, <1>3 DEF SaveDraft
  <2>. QED  BY <2>1, GateFrame DEF GatePublished
<1>5. /\ GateReview[d] = drafts[d].status /\ GateTitle[d] = drafts[d].title
      /\ GateReview \in [Documents -> DraftStatus] /\ GateTitle \in [Documents -> SUBSET Titles]
  BY DEF GateReview, GateTitle, TypeInv, TypeOK, Draft, Maybe
<1>6. PICK t \in Titles : draft.title = {t}
  <2>1. draft.title # {}
    BY <1>1, <1>3 DEF Held, Filled, RequestOK
  <2>. QED  BY <2>1, TitleIsOne
<1>7. CASE r.op = "parse"
  <2>1. draft.status = "pending_review"
    BY <1>1, <1>3, <1>7 DEF RequestOK
  <2>2. Gate!Propose(d, t)
    BY <1>4, <1>6, <2>1 DEF Gate!Propose, GateReview, GateTitle, GatePublished
  <2>. QED  BY <2>2 DEF Gate!Next
<1>8. CASE r.op = "review"
  <2>1. PICK decision \in Decisions : decision = draft.status
    BY <1>1, <1>3, <1>8 DEF RequestOK
  <2>2. GateReview[d] # "none" /\ draft.title = GateTitle[d]
    BY <1>1, <1>2, <1>3, <1>5, <1>8 DEF Revises
  <2>3. GateReview' = [GateReview EXCEPT ![d] = decision] /\ GateTitle' = GateTitle
    BY <1>4, <1>5, <2>1, <2>2
  <2>4. Gate!Decide(d, decision)
    BY <1>4, <2>2, <2>3 DEF Gate!Decide, GateReview, GateTitle, GatePublished
  <2>. QED  BY <2>4 DEF Gate!Next
<1>9. CASE r.op = "metadata"
  <2>1. draft.status = GateReview[d] /\ draft.status \notin {"none", "promoted"}
    BY <1>1, <1>2, <1>3, <1>5, <1>9 DEF Revises, RequestOK
  <2>2. GateReview' = GateReview /\ GateTitle' = [GateTitle EXCEPT ![d] = {t}]
    BY <1>4, <1>5, <1>6, <2>1
  <2>3. Gate!Edit(d, t)
    BY <1>4, <2>1, <2>2 DEF Gate!Edit, GateReview, GateTitle, GatePublished
  <2>. QED  BY <2>3 DEF Gate!Next
<1>10. CASE r.op = "promote"
  <2>1. /\ GateReview[d] = "approved" /\ draft.title = GateTitle[d] /\ draft.status = "promoted"
        /\ {path.title : path \in draft.promoted} = GateTitle[d]
        /\ draft.promoted \subseteq pack[d]
    BY <1>1, <1>2, <1>3, <1>5, <1>10 DEF Revises, RequestOK, Held
  <2>2. GateTitle[d] \subseteq GatePublished[d]
    BY <2>1 DEF GatePublished
  <2>3. GateReview' = [GateReview EXCEPT ![d] = "promoted"] /\ GateTitle' = GateTitle
    BY <1>4, <1>5, <2>1
  <2>4. Gate!Conclude(d)
    BY <1>4, <2>1, <2>2, <2>3 DEF Gate!Conclude, GateReview, GateTitle, GatePublished
  <2>. QED  BY <2>4 DEF Gate!Next
<1>. QED  BY <1>1, <1>7, <1>8, <1>9, <1>10 DEF Busy, Ops, RequestOK

LEMMA WrittenIsGateStep ==
  ASSUME TypeInv, RevisionInv, NEW w \in Workers, WritePack(w)
  PROVE  Gate!Next
<1>. DEFINE r == worker[w]
<1>1. /\ r \in Busy /\ r # Idle /\ r.pc = "write_pack" /\ r.op = "promote"
      /\ Revises(r, drafts[r.doc])
  BY StepFrame DEF Step, WritePack, Busy, Idle, RevisionInv, Drafting, RequestOK
<1>2. PICK d \in Documents : d = r.doc
  BY <1>1 DEF Busy
<1>3. PICK paths \in SUBSET Path : paths = r.draft.promoted
  BY <1>1 DEF Busy, Draft, Maybe
<1>4. /\ GateReview[d] = "approved"
      /\ {path.title : path \in paths} = GateTitle[d]
  BY <1>1, <1>2, <1>3 DEF Revises, GateReview, GateTitle
<1>5. pack' = [pack EXCEPT ![d] = @ \cup paths] /\ drafts' = drafts
  BY <1>2, <1>3 DEF WritePack
<1>6. /\ GatePublished'[d] = GatePublished[d] \cup GateTitle[d]
      /\ \A e \in Documents \ {d} : GatePublished'[e] = GatePublished[e]
  BY <1>4, <1>5 DEF GatePublished, TypeInv, TypeOK
<1>7. GatePublished' = [GatePublished EXCEPT ![d] = @ \cup GateTitle[d]]
  BY <1>6 DEF GatePublished
<1>8. Gate!Publish(d)
  BY <1>4, <1>5, <1>7 DEF Gate!Publish, GateReview, GateTitle, GatePublished
<1>. QED  BY <1>8 DEF Gate!Next

\* A file is published only while its draft stands approved, under the title
\* the draft has then, and a draft marked promoted is not edited: one handler at
\* a time, stopped wherever it may be, the intake is the publication gate.
THEOREM GateImplemented ==
  ASSUME Alone
  PROVE  Spec => ImplementsGate
<1>1. ASSUME Init PROVE Gate!Init
  <2>1. \A d \in Documents : /\ drafts[d].status = "none" /\ drafts[d].title = {}
                             /\ {path.title : path \in pack[d]} = {}
    BY <1>1 DEF Init, NoDraft
  <2>. QED  BY <2>1, Zenon DEF Gate!Init
<1>2. ASSUME drafts' = drafts, pack' = pack PROVE UNCHANGED Gate!gateVars
  BY <1>2 DEF Gate!gateVars
<1>3. ASSUME TypeInv, FilesInv, RevisionInv, [Next]_vars PROVE [Gate!Next]_(Gate!gateVars)
  <2>1. CASE UNCHANGED vars
    BY <1>2, <2>1 DEF vars, stores
  <2>2. ASSUME NEW w \in Workers, Abort(w) PROVE UNCHANGED Gate!gateVars
    BY <1>2, <2>2 DEF Abort, stores
  <2>3. ASSUME NEW w \in Workers, NEW d \in Documents, Request(w, d)
        PROVE  UNCHANGED Gate!gateVars
    BY <1>2, <1>3, <2>3, RequestFrame DEF stores
  <2>4. ASSUME NEW w \in Workers, Step(w) PROVE Gate!Next \/ UNCHANGED Gate!gateVars
    <3>1. CASE WritePack(w) \/ SaveDraft(w)
      BY <1>3, <3>1, WrittenIsGateStep, SavedIsGateStep
    <3>2. CASE ~(WritePack(w) \/ SaveDraft(w))
      <4>1. drafts' = drafts /\ pack' = pack
        BY <2>4, <3>2 DEF Step, CopyRaw, GetDocument, SaveDocument, Log, SaveReviewEvent, stores
      <4>. QED  BY <1>2, <4>1
    <3>. QED  BY <3>1, <3>2
  <2>. QED  BY <1>3, <2>1, <2>2, <2>3, <2>4 DEF Next
<1>. QED  BY RevisionAlways, <1>1, <1>3, PTL DEF Spec, ImplementsGate, Gate!Spec
=============================================================================
