--------------------------- MODULE KnowledgeSearch ---------------------------
(***************************************************************************)
(* Searching the knowledge of a team (dream/knowledge) and the unified     *)
(* search over documents, code and graph (dream/memory/retriever.py).      *)
(*                                                                         *)
(* A query and a title are sequences of words without stop words, a pack   *)
(* the sequence of its document directories.  An item of evidence has the  *)
(* type and the title of what was found, its path ({} if it has none) and  *)
(* its relevance in hundredths.  Among equals, which the code orders by    *)
(* path and title, the order they were found in stands.                    *)
(***************************************************************************)
EXTENDS EvidenceGraph, Ranking, TLC

-----------------------------------------------------------------------------
(* Documents and their chunks *)

\* A path below the pack's directory, or PathTraversalError for the whole pack.
Loadable(pack) == \A i \in DOMAIN pack : pack[i] = <<>> \/ Head(pack[i]) # ".."

\* docs are in the order of their paths; one below two directories comes twice.
LoadForPack(pack, docs) ==
    FlattenSeq([i \in DOMAIN pack |-> Filtered(docs, {d \in DOMAIN docs : IsPrefix(pack[i], docs[d].path.dirs)})])

LineWords(lines) == FlattenSeq([n \in DOMAIN lines |-> lines[n].name])

\* A section goes from its heading to the next one; what stands before the
\* first heading is in no section.
Chunks(doc) ==
    LET lines == doc.text.lines
        starts == Filtered([n \in DOMAIN lines |-> n], {n \in DOMAIN lines : lines[n].kind = "heading"})
        End(i) == IF i = Len(starts) THEN Len(lines) ELSE starts[i + 1] - 1
    IN  IF starts = <<>>
        THEN <<[doc |-> doc, title |-> <<"untitled">>, words |-> LineWords(lines)]>>
        ELSE [i \in DOMAIN starts |->
                [doc |-> doc, title |-> lines[starts[i]].name,
                 words |-> LineWords(SubSeq(lines, starts[i], End(i)))]]

Occurrences(text, term) == Cardinality({i \in DOMAIN text : text[i] = term})

\* SimpleRetriever._score
ChunkScore(chunk, query) ==
    FoldFunction(+, 0, [i \in DOMAIN query |-> 3 * Occurrences(chunk.title, query[i])
                                                  + Occurrences(chunk.words, query[i])])

\* A filter is <<>> or one value.
MetadataMatches(doc, app, component) == app \in {<<>>, <<doc.app>>} /\ component \in {<<>>, <<doc.component>>}

SearchScored(chunks, query, app, component, k) ==
    LET score == [i \in DOMAIN chunks |-> ChunkScore(chunks[i], query)]
        found == {i \in DOMAIN chunks : score[i] > 0 /\ MetadataMatches(chunks[i].doc, app, component)}
        results == [i \in found |-> [chunk |-> chunks[i], score |-> score[i]]]
    IN  Top(Arrange(results, Ranked(found, score)), k)

-----------------------------------------------------------------------------
(* Queries *)

JobWords == {"job", "execution", "status", "async"}

\* What a query about jobs is also searched as, in documents and in code.
JobKnowledgeQueries ==
    <<<<"execution", "status", "async", "tracking", "polling", "status", "stuck", "running">>,
      <<"inc", "103", "dfp", "101", "dfp", "109", "pr", "502", "pr", "505", "status", "tracker", "persistence">>,
      <<"job", "lifecycle", "execution", "model", "status", "tracking", "design">>,
      <<"status", "transition", "test", "plan", "execution", "monitor", "auto", "refresh">>>>

JobCodeQueries ==
    <<<<"job", "execution", "controller", "service", "test", "status">>,
      <<"statustracker", "executionservice", "executioncontroller", "batchjobadapter",
        "executionservicetest", "statustrackertest", "execution", "monitor", "polling">>>>

Expanded(query, more) == <<query>> \o (IF Range(query) \cap JobWords = {} THEN <<>> ELSE more)

KnowledgeQueries(query) == Expanded(query, JobKnowledgeQueries)

CodeQueries(query) == Expanded(query, JobCodeQueries)

\* The first query is the one that was asked.
Weight(i) == IF i = 1 THEN 100 ELSE IF 75 - 5 * i > 40 THEN 75 - 5 * i ELSE 40

-----------------------------------------------------------------------------
(* Evidence *)

Item(type, path, title, words, relevance) ==
    [type |-> type, path |-> path, title |-> title, words |-> words, relevance |-> relevance]

\* retrieved: what SearchScored gave for the i-th query.
KnowledgeEvidence(retrieved, i) ==
    [r \in DOMAIN retrieved |->
        LET chunk == retrieved[r].chunk
        IN  Item("knowledge_doc", {chunk.doc.path}, chunk.title, Range(chunk.words),
                 100 * (Weight(i) + retrieved[r].score) - (r - 1))]

\* results: what the index gave for the i-th query, each with its score.
CodeEvidence(results, i) ==
    [r \in DOMAIN results |->
        Item(results[r].type, results[r].paths, SetToSeq(results[r].name), results[r].name,
             100 * (Weight(i) + results[r].score))]

GraphType(nodeType) == "graph_" \o nodeType

\* The score of a graph node does not count beyond 25: graph evidence comes last.
GraphEvidence(results) ==
    [r \in DOMAIN results |->
        LET node == results[r].node
        IN  Item(GraphType(node.type), node.path, node.title, {},
                 100 * (IF results[r].score > 25 THEN 25 ELSE results[r].score))]

IsGraph(item) == item.type \in {GraphType(t) : t \in Range(Priority) \cup {"knowledge_doc"}}

SortByRelevance(evidence) == Sorted(evidence, [i \in DOMAIN evidence |-> evidence[i].relevance])

\* A file, its symbols and the test it is count as one.
DedupeKey(item) ==
    IF item.type \in {"code_file", "code_symbol", "test_file"} THEN <<"codebase", item.path>>
    ELSE <<item.type, item.path, item.title>>

Dedupe(evidence) == FirstOfEach(evidence, [i \in DOMAIN evidence |-> DedupeKey(evidence[i])])

-----------------------------------------------------------------------------
(* The balanced selection *)

DocumentCategories ==
    {"incidents", "historical-jira", "historical-pr", "architecture", "domain", "testing", "concepts"}

\* Graph evidence about a document has the category of the document.
Category(item) ==
    IF \E p \in item.path, d \in DocumentCategories : In(p, d)
    THEN CHOOSE d \in DocumentCategories : \E p \in item.path : In(p, d)
    ELSE IF item.type = "concept" THEN "code_concept"
    ELSE item.type

\* Two places each for tests and files.
Categories ==
    <<"incidents", "historical-jira", "historical-pr", "architecture", "domain", "testing", "concepts",
      "graph_evidence", GraphType("incident"), GraphType("historical_jira"), GraphType("historical_pr"),
      GraphType("concept_memory"), "test_file", "test_file", "code_file", "code_file", "code_symbol",
      "code_concept">>

\* A term is the set of its words: that they stand side by side is left out.
PreferredTerms ==
    {{"inc", "103"}, {"dfp", "109"}, {"dfp", "101"}, {"pr", "502"}, {"pr", "505"}, {"status", "tracking"},
     {"execution", "status"}, {"execution", "service"}, {"status", "tracker"}, {"batch", "job", "adapter"},
     {"execution", "monitor"}, {"status", "transition"}, {"polling"}}

\* The words of an item's path, title and excerpt.
ItemWords(item) == (UNION {PathWords(p) : p \in item.path}) \cup Words(item.title) \cup item.words

\* focus: the query asks for the progress or the status of something running.
Urgency(item, focus) ==
    item.relevance
        + IF focus /\ \E term \in PreferredTerms : term \subseteq ItemWords(item) THEN 3000 ELSE 0

Foremost(items, focus) == CHOOSE i \in items : \A j \in items : Urgency(i, focus) >= Urgency(j, focus)

\* The graph evidence that has a place whatever else was found.
Reserved(evidence, k, focus) ==
    LET candidates == {item \in Range(evidence) : IsGraph(item)}
    IN  IF k >= 4 /\ candidates # {} THEN <<Foremost(candidates, focus)>> ELSE <<>>

\* Mutant: the reserved item is taken a second time.
SelectAnyway(evidence, limit, reserved, focus) ==
    LET Take(selected, category) ==
            LET candidates == {i \in Range(evidence) \ Range(selected) : Category(i) = category}
            IN  IF Len(selected) >= limit \/ candidates = {} THEN selected
                ELSE Append(selected, Foremost(candidates, focus))
        balanced == FoldLeft(Take, <<>>, Categories)
        rest == Filtered(evidence, {i \in DOMAIN evidence : evidence[i] \notin Range(balanced)})
    IN  balanced \o Top(rest, limit - Len(balanced))

\* One item of each category in turn, and then whatever is left.
Select(evidence, limit, reserved, focus) ==
    LET Take(selected, category) ==
            LET candidates == {i \in Range(evidence) \ Range(selected \o reserved) : Category(i) = category}
            IN  IF Len(selected) >= limit \/ candidates = {} THEN selected
                ELSE Append(selected, Foremost(candidates, focus))
        balanced == FoldLeft(Take, <<>>, Categories)
        rest == Filtered(evidence, {i \in DOMAIN evidence : evidence[i] \notin Range(balanced \o reserved)})
    IN  balanced \o Top(rest, limit - Len(balanced))

BalancedTopK(evidence, k, focus) ==
    LET reserved == Reserved(evidence, k, focus)
    IN  IF Len(evidence) <= k THEN evidence
        ELSE Select(evidence, k - Len(reserved), reserved, focus) \o reserved

-----------------------------------------------------------------------------
(* EngineeringMemoryRetriever.search *)

\* ask has the pack and its docs, the query, the filters, focus and k; code
\* is what the indexes give for each code query, graph what the graphs give.
\* With a filter each query is also asked without it.
Knowledge(ask) ==
    LET docs == LoadForPack(ask.pack, ask.docs)
        chunks == FlattenSeq([i \in DOMAIN docs |-> Chunks(docs[i])])
        queries == KnowledgeQueries(ask.query)
        Asked(i, app, component) ==
            KnowledgeEvidence(SearchScored(chunks, queries[i], app, component, ask.k), i)
        Both(i) ==
            Asked(i, ask.app, ask.component)
               \o (IF ask.app = <<>> /\ ask.component = <<>> THEN <<>> ELSE Asked(i, <<>>, <<>>))
    IN  FlattenSeq([i \in DOMAIN queries |-> Both(i)])

Evidence(ask) ==
    LET code == FlattenSeq([i \in DOMAIN CodeQueries(ask.query) |-> CodeEvidence(ask.code[i], i)])
    IN  Dedupe(SortByRelevance(Knowledge(ask) \o code \o GraphEvidence(ask.graph)))

Search(ask) == BalancedTopK(Evidence(ask), ask.k, ask.focus)
=============================================================================
