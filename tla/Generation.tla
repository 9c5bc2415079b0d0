----------------------------- MODULE Generation -----------------------------
(***************************************************************************)
(* What requirement drafts and pull-request reviews are made of            *)
(* (dream/requirements, dream/review), and the context pack that keeps it  *)
(* (dream/context/service.py).                                             *)
(*                                                                         *)
(* A diff is a sequence of lines: of a file, added, removed or other ones. *)
(* A result is what the index or the graph found, with its score; of equal *)
(* ones, which the code orders by path and title, the first found is first.*)
(* A concept has no path and is no source here.  That a diff's content is  *)
(* cut at 4000 characters is left out.                                     *)
(***************************************************************************)
EXTENDS KnowledgeSearch

-----------------------------------------------------------------------------
(* Documents: asked with the filters, and without them if nothing is found *)

Retrieve(chunks, query, ask) ==
    LET filtered == SearchScored(chunks, query, ask.app, ask.component, ask.k)
    IN  IF filtered = <<>> /\ (ask.app # <<>> \/ ask.component # <<>>)
        THEN SearchScored(chunks, query, <<>>, <<>>, ask.k)
        ELSE filtered

ChunksOf(docs) == FlattenSeq([i \in DOMAIN docs |-> Chunks(docs[i])])

DraftSources(ask) ==
    LET found == Retrieve(ChunksOf(LoadForPack(ask.pack, ask.docs)), ask.query, ask)
    IN  {r.chunk.doc.path : r \in Range(found)}

-----------------------------------------------------------------------------
(* A diff *)

OfKind(diff, kinds) == Filtered(diff, {n \in DOMAIN diff : diff[n].kind \in kinds})

\* dict.fromkeys, sorted.
FilesChanged(diff) ==
    LET named == {line.path : line \in Range(OfKind(diff, {"file"}))}
    IN  Filtered(PathOrder, {i \in DOMAIN PathOrder : PathOrder[i] \in named})

ChangedContent(diff) ==
    LET lines == OfKind(diff, {"added", "removed"})
    IN  FlattenSeq([i \in DOMAIN lines |-> lines[i].words])

-----------------------------------------------------------------------------
(* What a review takes from the index and the graph *)

\* Whatever else was found, a changed file has score 100.
ChangedFile(node) == [type |-> "changed_file", paths |-> {node.path}, name |-> {}, score |-> 100]

\* A node of the graph without a path is kept by its title.
GraphResult(node, score) ==
    [type |-> GraphType(node.type), paths |-> node.path,
     name |-> IF node.path = {} THEN Range(node.title) ELSE {}, score |-> score]

MergeKey(result) == <<result.type, result.paths, IF result.paths = {} THEN result.name ELSE {}>>

Merge(results) ==
    LET sorted == Sorted(results, [i \in DOMAIN results |-> results[i].score])
    IN  FirstOfEach(sorted, [i \in DOMAIN sorted |-> MergeKey(sorted[i])])

\* What the graph finds for the query, and the nodes next to a changed file.
GraphContext(graph, files, ask) ==
    LET Near(file) ==
            LET targets == ResolveNode(graph, PathText(file))
            IN  IF targets = {} THEN {}
                ELSE CHOOSE nodes \in ConnectedNodes(graph, CHOOSE n \in targets : TRUE, 8) : TRUE
        Others(file) == {n \in Near(file) : file \notin n.path}
    IN  [i \in DOMAIN ask.graph |-> GraphResult(ask.graph[i].node, ask.graph[i].score)]
            \o FlattenSeq([i \in DOMAIN files |->
                    SetToSeq({GraphResult(n, 20) : n \in Others(files[i])})])

\* Mutant: the changed files do not extend the limit.
CodebaseContextOfK(index, graph, ask) ==
    LET files == FilesChanged(ask.diff)
        nodes == FlattenSeq([i \in DOMAIN files |-> SetToSeq(FindFile(index, files[i]))])
        first == [i \in DOMAIN nodes |-> ChangedFile(nodes[i])]
        merged == Merge(Merge(first \o ask.found)
                            \o FlattenSeq([g \in DOMAIN graph |-> GraphContext(graph[g], files, ask)]))
    IN  [results |-> Top(merged, ask.k),
         tests |-> UNION {FindTestsForSource(index, n.path) : n \in Range(nodes)}]

\* graph is <<>> or <<the saved graph>>.
CodebaseContext(index, graph, ask) ==
    LET files == FilesChanged(ask.diff)
        nodes == FlattenSeq([i \in DOMAIN files |-> SetToSeq(FindFile(index, files[i]))])
        first == [i \in DOMAIN nodes |-> ChangedFile(nodes[i])]
        merged == Merge(Merge(first \o ask.found)
                            \o FlattenSeq([g \in DOMAIN graph |-> GraphContext(graph[g], files, ask)]))
    IN  [results |-> Top(merged, ask.k + Len(first) + 6),
         tests |-> UNION {FindTestsForSource(index, n.path) : n \in Range(nodes)}]

NoContext == [results |-> <<>>, tests |-> {}]

\* jira: the words of the ticket and of the pack's review rules.
ReviewQuery(ask) == ChangedContent(ask.diff) \o ask.jira

\* Without a repository or an index a review has the documents and the diff only.
ReviewContext(index, graph, ask) ==
    LET found == Retrieve(ChunksOf(LoadForPack(ask.pack, ask.docs)), ReviewQuery(ask), ask)
        code == IF index = <<>> \/ ~ask.repo THEN NoContext ELSE CodebaseContext(index[1], graph, ask)
    IN  [chunks |-> [i \in DOMAIN found |-> found[i].chunk], results |-> code.results, tests |-> code.tests]

ReviewSources(context) ==
    {c.doc.path : c \in Range(context.chunks)} \cup (UNION {r.paths : r \in Range(context.results)})
        \cup {m.test : m \in context.tests}

-----------------------------------------------------------------------------
(* The context pack *)

PathTypes ==
    [incidents |-> "incident", testing |-> "testing_doc", architecture |-> "architecture_doc",
     domain |-> "domain_doc", runbooks |-> "runbook"]
        @@ ("historical-jira" :> "historical_jira") @@ ("historical-pr" :> "historical_pr")

NormalizeSourceType(type, paths) ==
    LET directories == {d \in DOMAIN PathTypes : \E p \in paths : In(p, d)}
    IN  IF directories = {} THEN type ELSE PathTypes[CHOOSE d \in directories : TRUE]

Candidate(type, paths) == [type |-> NormalizeSourceType(type, paths), paths |-> paths]

Candidates(context) ==
    {Candidate(IF c.doc.type = "" THEN "knowledge_doc" ELSE c.doc.type, {c.doc.path}) : c \in Range(context.chunks)}
        \cup {Candidate(r.type, r.paths) : r \in Range(context.results)}
        \cup {[type |-> "test_file", paths |-> {m.test}] : m \in context.tests}

\* The groups of a pack: the types they take, and the words of a path that do too.
Groups ==
    {[types |-> {"knowledge_doc", "domain_doc", "architecture_doc", "runbook"}, words |-> {"runbook", "runbooks"}],
     [types |-> {"code_file", "code_symbol", "concept"}, words |-> {"concept", "concepts"}],
     [types |-> {"test_file", "testing_doc"}, words |-> {}],
     [types |-> {"incident", "graph_incident"}, words |-> {"incident", "incidents"}],
     [types |-> {"historical_jira", "graph_historical_jira"}, words |-> {}],
     [types |-> {"historical_pr", "graph_historical_pr"}, words |-> {}]}

Filter(candidates, group) ==
    {c \in candidates : c.type \in group.types \/ \E p \in c.paths : group.words \cap PathWords(p) # {}}

\* A changed file is in no group: unless its path has such a word, it is in
\* the trail but not in the pack.
PackEvidencePaths(candidates) == UNION {c.paths : c \in UNION {Filter(candidates, g) : g \in Groups}}
=============================================================================
