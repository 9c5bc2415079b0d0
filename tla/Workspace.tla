------------------------------ MODULE Workspace ------------------------------
(***************************************************************************)
(* A team's repository and documents, and what the API keeps about them:   *)
(* the codebase index, the evidence graph, the memory scans with their     *)
(* evaluations, and the ledger (dream/codebase, dream/graph, dream/memory).*)
(*                                                                         *)
(* Files and documents are edited while handlers run.  Indexing lists the  *)
(* directory and then reads file after file; a scan indexes first and then *)
(* reads every file again.  A handler is a thread of the API's pool or a   *)
(* CLI process; each file access is a step, but for the documents, which   *)
(* are read in one.  A store holds what its content was made from: what an *)
(* index, a graph or a scan says is Index, Graph or Claims of that.        *)
(***************************************************************************)
EXTENDS MemoryScan, KnowledgeSearch

CONSTANTS
    Text,        \* file text ids and their texts
    Versions,    \* the text ids that each file may have, the first one to begin with
    Doc,         \* document ids and their documents; one path may have several
    DocOrder,    \* document ids in the order of their paths
    Shelf,       \* the documents to begin with
    Intakes,     \* intake records, in the order the repository lists them
    Reviewed,    \* entity types of the claims reviewers decide about
    Decisions,   \* statuses reviewers give
    Searches,    \* searches of documents, code and graph
    Workers,     \* handler threads and CLI processes
    MaxRequests, \* bound: requests issued
    MaxEdits,    \* bound: edits and commits while the system runs
    MaxAborts    \* bound: handlers that stop half-way

ASSUME ConstantsAssumption ==
    /\ \A p \in Paths : Versions[p] # <<>> /\ Versions[p] \in Seq(DOMAIN Text)
    /\ PathOrder \in Seq(Paths)
    /\ \A t \in DOMAIN Text : Text[t].lines \in Seq(Range(Text[t].lines))
    /\ DocOrder \in Seq(DOMAIN Doc) /\ Range(DocOrder) = DOMAIN Doc /\ Shelf \subseteq DOMAIN Doc
    /\ \A d \in DOMAIN Doc :
        IsFiniteSet(Doc[d].concepts) /\ Doc[d].relatedCode \in Seq(Range(Doc[d].relatedCode))
    /\ \A d, e \in Shelf : Doc[d].path = Doc[e].path => d = e
    /\ Decisions \subseteq {"candidate", "approved", "rejected", "quarantined"}
    /\ MaxRequests \in Nat /\ MaxEdits \in Nat /\ MaxAborts \in Nat

\* Documents, queries and what the indexes and graphs give are lists; a score is a number.
IsSearch(ask) ==
    /\ ask.k \in Nat
    /\ ask.pack \in Seq(Range(ask.pack))
    /\ ask.docs \in Seq(Range(ask.docs))
    /\ \A doc \in Range(ask.docs) :
        /\ doc.text.lines \in Seq(Range(doc.text.lines))
        /\ \A line \in Range(doc.text.lines) : line.name \in Seq(Range(line.name))
    /\ ask.query \in Seq(Range(ask.query))
    /\ \A i \in DOMAIN CodeQueries(ask.query) :
        ask.code[i] \in Seq(Range(ask.code[i])) /\ \A r \in Range(ask.code[i]) : r.score \in Int
    /\ ask.graph \in Seq(Range(ask.graph)) /\ \A r \in Range(ask.graph) : r.score \in Int

ASSUME SearchesAssumption == \A ask \in Searches : IsSearch(ask)

VARIABLES
    tree,        \* the repository: the text id of each path there is
    shelf,       \* the pack's directory: document ids
    head,        \* git HEAD
    savedIndex,  \* codebase-indexes/<team>/<repo>.json: {} or what it was made from
    savedGraph,  \* evidence-graphs/<team>/<repo>.json: {} or what it was made of
    savedScans,  \* memory-scans/<team>/<scan>.json: what they were made of
    latest,      \* memory-scans/<team>/latest.json: {} or the id of one scan
    ledger,      \* memory-ledgers/<team>.json
    evals,       \* memory-evals/<team>/: scan ids and whether they passed
    audit,       \* audit rows: requests that are logged
    worker,      \* where each worker is in its handler, and what it holds
    requests,    \* requests issued so far
    edits,       \* edits so far
    aborts       \* handlers stopped so far

sources == <<tree, shelf, head>>
stores == <<savedIndex, savedGraph, savedScans, latest, ledger, evals, audit>>
bounds == <<requests, edits, aborts>>
vars == <<sources, stores, worker, bounds>>

-----------------------------------------------------------------------------
(* Data *)

\* A file of another language is listed but not read.
Unread == "unread"

TextOf(id) == IF id = Unread THEN Nothing ELSE Text[id]

Texts(ids) == [p \in DOMAIN ids |-> TextOf(ids[p])]

Put(ids, path, id) == [p \in DOMAIN ids \cup {path} |-> IF p = path THEN id ELSE ids[p]]

TextIds == DOMAIN Text \cup {Unread}

IsReading(ids) == \A p \in DOMAIN ids : p \in Paths /\ ids[p] \in TextIds

DocsOf(ids) ==
    FlattenSeq([i \in DOMAIN DocOrder |-> IF DocOrder[i] \in ids THEN <<Doc[DocOrder[i]]>> ELSE <<>>])

\* What may be read: a file of another language is not.
Readings ==
    UNION {{ids \in [S -> DOMAIN Text \cup {Unread}] :
              \A p \in S : ids[p] \in IF IsParsed(p) THEN Range(Versions[p]) ELSE {Unread}} :
           S \in SUBSET Paths}

GraphInputs == [docs : SUBSET DOMAIN Doc, index : {{}} \cup {{parsed} : parsed \in Readings}]

GraphOf(g) == Graph(DocsOf(g.docs), {Index(Texts(parsed)) : parsed \in g.index})

\* TLC works a function out once it is compared, and not again at each application.
GraphTable == CHOOSE table \in {[g \in GraphInputs |-> GraphOf(g)]} : table = table

ScanInputs ==
    {made \in [parsed : Readings, read : UNION {[S -> DOMAIN Text] : S \in SUBSET Paths},
               docs : SUBSET DOMAIN Doc, commit : 0..MaxEdits] :
        /\ DOMAIN made.parsed = DOMAIN made.read
        /\ \A p \in DOMAIN made.read : made.read[p] \in Range(Versions[p])}

ScanOf(made) ==
    [parsed |-> Texts(made.parsed), read |-> Texts(made.read), docs |-> {Doc[d] : d \in made.docs},
     commit |-> made.commit, intakes |-> Intakes]

SavedOf(made) == [claims |-> Claims(ScanOf(made)), spans |-> Spans(ScanOf(made))]

\* The claims of a scan and the spans of its sources.
ScanTable == CHOOSE table \in {[made \in ScanInputs |-> SavedOf(made)]} : table = table

\* The scans whose evaluation passes.
PassingScans == {made \in ScanInputs : Passes(ScanTable[made])}

\* An event has the text the reviewer was shown and the signals about the claim.
EventOf(claims, claim, new) ==
    [claim |-> ClaimId(claim), new |-> new, shown |-> claim.span.source.content,
     signals |-> RiskSignals(claim) \cup ConflictSignals(claims, claim)]

\* A later event of a claim overrides an earlier one and the scan.
Effective(claim) ==
    LET about == {i \in DOMAIN ledger : ledger[i].claim = ClaimId(claim)}
    IN  IF about = {} THEN claim.status
        ELSE ledger[CHOOSE i \in about : \A j \in about : j <= i].new

-----------------------------------------------------------------------------
(* Workers *)

Idle == [pc |-> "idle"]

None == [p \in {} |-> Unread]

Ops == {"index", "scan", "graph"}

Pcs == {"list", "extract", "save_index", "log", "read", "load_docs", "save_scan", "save_latest",
        "load_index", "load_pack", "save_graph"}

\* parsed and read are what was read so far of the paths listed, index what
\* was loaded from the store.
IsBusy(v) ==
    /\ v.pc \in Pcs /\ v.op \in Ops /\ v.id \in 1..requests /\ v.commit \in Nat
    /\ v.paths \subseteq Paths /\ v.docs \subseteq DOMAIN Doc
    /\ IsReading(v.parsed) /\ IsReading(v.read) /\ \A parsed \in v.index : IsReading(parsed)

TypeOK ==
    /\ IsReading(tree) /\ shelf \subseteq DOMAIN Doc /\ head \in Nat
    /\ \A parsed \in savedIndex : IsReading(parsed)
    /\ savedGraph \subseteq GraphInputs
    /\ \A s \in savedScans : s.id \in 1..requests /\ s.made \in ScanInputs
    /\ latest \subseteq {s.id : s \in savedScans} /\ audit \subseteq 1..requests
    /\ evals \subseteq (1..requests) \X BOOLEAN
    /\ \A w \in Workers : worker[w] = Idle \/ IsBusy(worker[w])
    /\ requests \in Nat /\ edits \in Nat /\ aborts \in Nat

Init ==
    /\ tree = [p \in Paths |-> Versions[p][1]]
    /\ shelf = Shelf /\ head = 0
    /\ savedIndex = {} /\ savedGraph = {} /\ savedScans = {} /\ latest = {}
    /\ ledger = <<>> /\ evals = {} /\ audit = {}
    /\ worker = [w \in Workers |-> Idle]
    /\ requests = 0 /\ edits = 0 /\ aborts = 0

-----------------------------------------------------------------------------
(* Edits *)

Edit ==
    /\ edits < MaxEdits
    /\ edits' = edits + 1
    /\ UNCHANGED <<stores, worker, requests, aborts>>

WriteFile(path, id) ==
    /\ tree # Put(tree, path, id)
    /\ tree' = Put(tree, path, id)
    /\ Edit
    /\ UNCHANGED <<shelf, head>>

DeleteFile(path) ==
    /\ path \in DOMAIN tree
    /\ tree' = Restrict(tree, DOMAIN tree \ {path})
    /\ Edit
    /\ UNCHANGED <<shelf, head>>

\* A document replaces the one at its path.
WriteDoc(id) ==
    /\ id \notin shelf
    /\ shelf' = {d \in shelf : Doc[d].path # Doc[id].path} \cup {id}
    /\ Edit
    /\ UNCHANGED <<tree, head>>

Commit ==
    /\ head' = head + 1
    /\ Edit
    /\ UNCHANGED <<tree, shelf>>

-----------------------------------------------------------------------------
(* Requests *)

\* A scan takes its time and its commit before anything else.
Serve(w, op, pc) ==
    /\ worker[w] = Idle
    /\ requests < MaxRequests
    /\ requests' = requests + 1
    /\ worker' = [worker EXCEPT ![w] =
                    [pc |-> pc, op |-> op, id |-> requests + 1, commit |-> head, paths |-> {},
                     parsed |-> None, read |-> None, docs |-> {}, index |-> {}]]
    /\ UNCHANGED <<sources, stores, edits, aborts>>

IndexCodebase(w) == Serve(w, "index", "list")

ScanMemory(w) == Serve(w, "scan", "list")

BuildGraph(w) == Serve(w, "graph", "load_index")

\* Reviews and evaluations take one step here: MemoryGovernance has the
\* interleavings of reviews.
ReviewScan(scan) ==
    /\ requests < MaxRequests
    /\ requests' = requests + 1
    /\ LET claims == ScanTable[scan.made].claims
       IN  \E claim \in {c \in claims : c.entity[1] \in Reviewed}, new \in Decisions :
            ledger' = Append(ledger, EventOf(claims, claim, new))
    /\ UNCHANGED <<sources, savedIndex, savedGraph, savedScans, latest, evals, audit, worker, edits, aborts>>

EvaluateScan(scan) ==
    /\ requests < MaxRequests
    /\ requests' = requests + 1
    /\ evals' = evals \cup {<<scan.id, scan.made \in PassingScans>>}
    /\ UNCHANGED <<sources, savedIndex, savedGraph, savedScans, latest, ledger, audit, worker, edits, aborts>>

-----------------------------------------------------------------------------
(* The other steps of a handler *)

At(w, pc) == worker[w].pc = pc
GoTo(w, pc) == worker' = [worker EXCEPT ![w].pc = pc]
Return(w) == worker' = [worker EXCEPT ![w] = Idle]
Local(w, step) == worker' = [worker EXCEPT ![w] = step] /\ UNCHANGED <<sources, stores, bounds>>
Fail(w) == Return(w) /\ UNCHANGED <<sources, stores, bounds>>

\* CodebaseScanner.scan: the paths, and of each file its length.
List(w) ==
    /\ At(w, "list")
    /\ Local(w, [worker[w] EXCEPT !.paths = DOMAIN tree,
                                  !.pc = IF tree = None THEN "save_index" ELSE "extract"])

\* Mutant: the directory is listed again for each file.
ExtractAgain(w) ==
    LET self == worker[w]
        path == First(DOMAIN tree)
    IN  /\ At(w, "extract")
        /\ IF DOMAIN tree = {} THEN Fail(w)
           ELSE Local(w, [self EXCEPT !.parsed = Put(@, path, tree[path]),
                                      !.pc = IF DOMAIN self.parsed \cup {path} = DOMAIN tree
                                             THEN "save_index" ELSE "extract"])

\* One file of the list; one that is gone by now ends the request.
Extract(w) ==
    LET self == worker[w]
        path == First(self.paths \ DOMAIN self.parsed)
    IN  /\ At(w, "extract")
        /\ IF IsParsed(path) /\ path \notin DOMAIN tree THEN Fail(w)
           ELSE Local(w, [self EXCEPT
                    !.parsed = Put(@, path, IF IsParsed(path) THEN tree[path] ELSE Unread),
                    !.pc = IF DOMAIN self.parsed \cup {path} = self.paths THEN "save_index" ELSE "extract"])

SaveIndex(w) ==
    /\ At(w, "save_index")
    /\ savedIndex' = {worker[w].parsed}
    /\ GoTo(w, "log")
    /\ UNCHANGED <<sources, savedGraph, savedScans, latest, ledger, evals, audit, bounds>>

\* The audit row of an index or a graph; after that of its index a scan goes on.
Log(w) ==
    /\ At(w, "log")
    /\ audit' = audit \cup {worker[w].id}
    /\ IF worker[w].op # "scan" THEN Return(w)
       ELSE GoTo(w, IF worker[w].paths = {} THEN "load_docs" ELSE "read")
    /\ UNCHANGED <<sources, savedIndex, savedGraph, savedScans, latest, ledger, evals, bounds>>

\* Mutant: a file that is gone is passed over.
ReadPresent(w) ==
    LET self == worker[w]
        path == First(self.paths \ DOMAIN self.read)
        paths == self.paths \ ({path} \ DOMAIN tree)
        read == Put(self.read, path, tree[path])
    IN  /\ At(w, "read")
        /\ IF path \notin DOMAIN tree
           THEN Local(w, [self EXCEPT !.paths = paths,
                                      !.pc = IF DOMAIN self.read = paths THEN "load_docs" ELSE "read"])
           ELSE Local(w, [self EXCEPT !.read = read,
                                      !.pc = IF DOMAIN read = paths THEN "load_docs" ELSE "read"])

\* The scan reads each file of its index again; _read_text takes what cannot
\* be decoded, not what is gone.
Read(w) ==
    LET self == worker[w]
        path == First(self.paths \ DOMAIN self.read)
    IN  /\ At(w, "read")
        /\ IF path \notin DOMAIN tree THEN Fail(w)
           ELSE Local(w, [self EXCEPT
                    !.read = Put(@, path, tree[path]),
                    !.pc = IF DOMAIN self.read \cup {path} = self.paths THEN "load_docs" ELSE "read"])

LoadDocs(w) ==
    /\ At(w, "load_docs")
    /\ Local(w, [worker[w] EXCEPT !.docs = shelf, !.pc = "save_scan"])

SaveScan(w) ==
    LET self == worker[w]
        made == [parsed |-> self.parsed, read |-> self.read, docs |-> self.docs, commit |-> self.commit]
    IN  /\ At(w, "save_scan")
        /\ savedScans' = savedScans \cup {[id |-> self.id, made |-> made]}
        /\ GoTo(w, "save_latest")
        /\ UNCHANGED <<sources, savedIndex, savedGraph, latest, ledger, evals, audit, bounds>>

SaveLatest(w) ==
    /\ At(w, "save_latest")
    /\ latest' = {worker[w].id}
    /\ Return(w)
    /\ UNCHANGED <<sources, savedIndex, savedGraph, savedScans, ledger, evals, audit, bounds>>

\* EvidenceGraphBuilder.build
LoadIndex(w) ==
    /\ At(w, "load_index")
    /\ Local(w, [worker[w] EXCEPT !.index = savedIndex, !.pc = "load_pack"])

LoadPack(w) ==
    /\ At(w, "load_pack")
    /\ Local(w, [worker[w] EXCEPT !.docs = shelf, !.pc = "save_graph"])

SaveGraph(w) ==
    /\ At(w, "save_graph")
    /\ savedGraph' = {[docs |-> worker[w].docs, index |-> worker[w].index]}
    /\ GoTo(w, "log")
    /\ UNCHANGED <<sources, savedIndex, savedScans, latest, ledger, evals, audit, bounds>>

\* A file cannot be read or written, or the process is killed.
Abort(w) ==
    /\ worker[w] # Idle
    /\ aborts < MaxAborts
    /\ aborts' = aborts + 1
    /\ Return(w)
    /\ UNCHANGED <<sources, stores, requests, edits>>

Environment ==
    \/ \E path \in Paths : DeleteFile(path) \/ \E id \in Range(Versions[path]) : WriteFile(path, id)
    \/ \E id \in DOMAIN Doc : WriteDoc(id)
    \/ Commit

Request ==
    \/ \E w \in Workers : IndexCodebase(w) \/ ScanMemory(w) \/ BuildGraph(w)
    \/ \E scan \in savedScans : EvaluateScan(scan) \/ ReviewScan(scan)

Step(w) ==
    \/ List(w) \/ Extract(w) \/ SaveIndex(w) \/ Log(w) \/ Read(w)
    \/ LoadDocs(w) \/ SaveScan(w) \/ SaveLatest(w)
    \/ LoadIndex(w) \/ LoadPack(w) \/ SaveGraph(w)

Next == Environment \/ Request \/ \E w \in Workers : Step(w) \/ Abort(w)

\* A handler that runs goes on; nothing else has to happen.
Fairness == \A w \in Workers : WF_vars(Step(w))

Spec == Init /\ [][Next]_vars /\ Fairness

-----------------------------------------------------------------------------
(* Properties *)

\* Every handler ends, whatever is edited or deleted under it: again and
\* again its worker is free.
HandlersEnd == \A w \in Workers : []<>(worker[w] = Idle)

\* docs/memory-distillation.md - the guardrails hold of every scan that is
\* stored, one whose files were edited between its two readings too: every
\* citation is of a span the scan holds, and nothing semantic is approved.
GuardrailsHold == \A scan \in savedScans : scan.made \in PassingScans

TextIn(made, path) == Content(Doc[CHOOSE d \in made.docs : Doc[d].path = path].text)

\* A search serves of any scan, not only of the one that was reviewed, what
\* code says, and else only what a reviewer approved who was shown the text
\* that this scan cites: an edit takes the approval away.
ServedIsReviewed ==
    \A made \in {s.made : s \in savedScans} :
        \A c \in ServedClaims(ScanTable[made].claims, {}, Effective) :
            \/ c.method = "structural"
            \/ \E i \in DOMAIN ledger : /\ ledger[i].claim = ClaimId(c)
                                         /\ ledger[i].new = "approved"
                                         /\ ledger[i].shown = TextIn(made, c.span.source.path)

DocTexts(made) == {<<Doc[d].path, Content(Doc[d].text)>> : d \in made.docs}

\* A difference without an added or removed claim is between scans that saw
\* the same files with the same texts, and the same documents.
DiffShowsEveryEdit ==
    \A s, t \in {x.made : x \in savedScans} :
        LET diff == Diff(ScanTable[s].claims, ScanTable[t].claims)
        IN  s # t /\ diff.added = {} /\ diff.removed = {} =>
                /\ DOMAIN s.read = DOMAIN t.read
                /\ \A p \in DOMAIN s.read : Content(TextOf(s.read[p])) = Content(TextOf(t.read[p]))
                /\ DocTexts(s) = DocTexts(t)

ClosedGraphs ==
    {g \in GraphInputs :
        LET graph == GraphTable[g]
            ids == {n.id : n \in graph.nodes}
        IN  /\ Cardinality(ids) = Cardinality(graph.nodes)
            /\ \A e \in graph.edges : e.from # e.to /\ e.from \in ids /\ e.to \in ids}

\* An edge joins two nodes of the graph, whatever the documents refer to and
\* whatever was indexed when.
GraphIsClosed == savedGraph \subseteq ClosedGraphs

LinkedGraphs ==
    {g \in GraphInputs :
        LET edges == GraphTable[g].edges
        IN  \A d \in g.docs, p \in UNION {DOMAIN parsed : parsed \in g.index} :
                p \in Range(Doc[d].relatedCode) =>
                    \E e \in edges :
                        /\ e.type = "AFFECTS" /\ e.from = DocNode(Doc[d]).id
                        /\ e.to \in {<<"code_file", PathText(p)>>, <<"test_file", PathText(p)>>}}

\* No document, concept or other file bears the path of a file that a document names.
PathsAreUnique ==
    \A d \in DOMAIN Doc : \A p \in Paths \cap Range(Doc[d].relatedCode) :
        /\ \A e \in DOMAIN Doc :
            PathText(p) \notin DocNode(Doc[e]).aliases \cup {ConceptText(c) : c \in Doc[e].concepts}
        /\ \A q \in Paths : PathText(p) \in PathAliases(q) => PathText(q) = PathText(p)

\* A document that names a file by its full path is linked to that file, not
\* to one of the same name elsewhere or to a document.
RelatedCodeIsLinked == savedGraph \subseteq LinkedGraphs

IsBalanced(found, chosen, k) ==
    LET Count(category) == Cardinality({i \in DOMAIN chosen : Category(chosen[i]) = category /\ ~IsGraph(chosen[i])})
        Places(category) == Cardinality({i \in DOMAIN Categories : Categories[i] = category})
        HasGraph(items) == \E item \in Range(items) : IsGraph(item)
        Missing == {Category(i) : i \in Range(found)} \ {Category(i) : i \in Range(chosen)}
    IN  /\ Len(chosen) = (IF Len(found) < k THEN Len(found) ELSE k)
        /\ IsInjective(chosen) /\ Range(chosen) \subseteq Range(found)
        /\ k >= 4 /\ HasGraph(found) => HasGraph(chosen)
        /\ (\E category \in Missing : Places(category) > 0) =>
                \A item \in Range(chosen) : IsGraph(item) \/ Count(Category(item)) <= Places(Category(item))

\* The unified search returns as many items as it may, none twice, keeps a
\* place for the graph, and gives no category more than its places while
\* another one has nothing.  That depends on no variable: one state will do.
SelectionIsBalanced ==
    requests = 0 /\ edits = 0 => \A ask \in Searches : IsBalanced(Evidence(ask), Search(ask), ask.k)
=============================================================================
