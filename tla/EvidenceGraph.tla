---------------------------- MODULE EvidenceGraph ----------------------------
(***************************************************************************)
(* Graph memory (dream/graph): the graph that is built from the documents  *)
(* of a knowledge pack and a codebase index, and what is found in it.      *)
(*                                                                         *)
(* A document is its path below the pack's directory, and of its front     *)
(* matter and text: the title, the type, the app and the component, the    *)
(* concepts, the code and the documents, tickets, pull requests and        *)
(* incidents it relates to, and the text, whose lines are headings and     *)
(* prose.  A reference is a path; an identifier is one without directory   *)
(* and extension.                                                          *)
(***************************************************************************)
EXTENDS CodebaseIndex

-----------------------------------------------------------------------------
(* Documents *)

In(path, directory) == Len(path.dirs) > 1 /\ path.dirs[1] = "docs" /\ path.dirs[2] = directory

\* The type the front matter gives, or the directory.
DocType(doc) ==
    IF doc.type # "" THEN doc.type
    ELSE IF Len(doc.path.dirs) > 1 THEN doc.path.dirs[2]
    ELSE Last(doc.path.stem)

\* A type, the directory that stands for it, and the type of its node; the first that fits.
DocKinds ==
    <<<<"incident", "incidents", "incident">>,
      <<"historical-jira", "historical-jira", "historical_jira">>,
      <<"historical-pr", "historical-pr", "historical_pr">>,
      <<"concept", "concepts", "concept_memory">>,
      <<"testing", "testing", "testing_doc">>,
      <<"runbook", "runbooks", "runbook">>,
      <<"architecture", "architecture", "architecture_doc">>,
      <<"domain", "domain", "domain_doc">>>>

DocNodeType(doc) ==
    LET Fits(kind) == DocType(doc) = kind[1] \/ In(doc.path, kind[2])
        kind == SelectInSeq(DocKinds, Fits)
    IN  IF kind = 0 THEN "knowledge_doc" ELSE DocKinds[kind][3]

-----------------------------------------------------------------------------
(* Nodes: names, keys and titles are sequences of words; about is what the *)
(* metadata adds to them.  The team, a signature and what every summary    *)
(* says alike are left out: the rest of a summary is words of concepts.    *)

FileName(path) == IF path.ext = "" THEN path.stem ELSE Append(path.stem, path.ext)

PathText(path) ==
    FlattenSeq([i \in DOMAIN path.dirs |-> <<path.dirs[i], "/">>]) \o FileName(path)

ConceptText(concept) == SetToSeq(concept)

PathAliases(path) == {PathText(path), FileName(path), path.stem}

Node(type, key, title, path, aliases, concepts, about) ==
    [id |-> <<type, key>>, type |-> type, title |-> title, path |-> path, about |-> about,
     aliases |-> aliases \cup {key, title} \cup {PathText(p) : p \in path}, concepts |-> concepts]

DocNode(doc) ==
    LET type == DocNodeType(doc)
    IN  Node(type, PathText(doc.path), doc.title, {doc.path}, PathAliases(doc.path), doc.concepts,
             {DocType(doc)} \cup Words(doc.app) \cup Words(doc.component))

ConceptNode(concept) ==
    LET name == ConceptText(concept) IN Node("concept", name, name, {}, {}, {concept}, {})

FileNodeOf(node) ==
    Node(IF node.role = "test" THEN "test_file" ELSE "code_file", PathText(node.path),
         PathText(node.path), {node.path}, PathAliases(node.path), node.concepts,
         {node.language, node.role})

\* What a path alone says; words of three letters and less are left out of the model.
StubNode(path, type) ==
    LET words == PathWords(path)
    IN  Node(type, PathText(path), PathText(path), {path}, PathAliases(path),
             {{word} : word \in words}
               \cup (IF "status" \in words THEN {{"execution", "status"}} ELSE {})
               \cup (IF {"output", "collector"} \subseteq words THEN {{"output", "collection"}} ELSE {}),
         {})

SymbolKey(symbol) == PathText(symbol.file) \o <<"#">> \o symbol.name

SymbolNode(symbol) ==
    Node("code_symbol", SymbolKey(symbol), Append(symbol.name, symbol.kind), {symbol.file},
         {symbol.name}, symbol.concepts, {symbol.kind})

Edge(from, type, to) == [from |-> from.id, type |-> type, to |-> to.id]

-----------------------------------------------------------------------------
(* Building *)

Empty == [nodes |-> {}, aliases |-> [name \in {} |-> {}], edges |-> {}]

\* A node that is there already gets the new one's aliases, concepts and
\* metadata, of which a stub has none; an alias stays with the node that had
\* it first.
AddNode(node, g) ==
    LET old == {n \in g.nodes : n.id = node.id}
        Merged(n) == [n EXCEPT !.aliases = @ \cup node.aliases, !.concepts = @ \cup node.concepts,
                               !.path = IF @ = {} THEN node.path ELSE @,
                               !.about = IF node.about = {} THEN @ ELSE node.about]
        new == IF old = {} THEN node ELSE Merged(CHOOSE n \in old : TRUE)
        names == new.aliases \ DOMAIN g.aliases
    IN  [g EXCEPT !.nodes = (@ \ old) \cup {new},
                  !.aliases = [name \in DOMAIN @ \cup names |->
                                  IF name \in names THEN node.id ELSE @[name]]]

AddNodes(nodes, g) == FoldSet(AddNode, g, nodes)

AddEdges(edges, g) == [g EXCEPT !.edges = @ \cup {e \in edges : e.from # e.to}]

ConceptNodes(concepts) == {ConceptNode(c) : c \in concepts}

AddDocument(g, doc) ==
    AddEdges({Edge(ConceptNode(c), "MENTIONED_IN", DocNode(doc)) : c \in doc.concepts},
             AddNodes(ConceptNodes(doc.concepts), AddNode(DocNode(doc), g)))

AddFile(g, path, index) ==
    AddNodes({FileNodeOf(n) : n \in {m \in index.files : m.path = path}}, g)

AddFiles(g, index) == FoldLeft(LAMBDA h, path : AddFile(h, path, index), g, PathOrder)

\* The file of a symbol is a test when a directory says so, whatever its role.
SymbolFile(symbol) ==
    StubNode(symbol.file, IF Below(symbol.file, {"test"}) THEN "test_file" ELSE "code_file")

AddSymbol(g, symbol) ==
    LET node == SymbolNode(symbol)
    IN  AddEdges({Edge(node, "DEFINED_IN", SymbolFile(symbol))}
                   \cup {Edge(ConceptNode(c), "IMPLEMENTED_BY", node) : c \in symbol.concepts},
                 AddNodes(ConceptNodes(symbol.concepts), AddNode(SymbolFile(symbol), AddNode(node, g))))

AddTest(mapping, g) ==
    LET source == StubNode(mapping.source, "code_file")
        test == StubNode(mapping.test, "test_file")
    IN  AddEdges({Edge(source, "TESTED_BY", test)}, AddNode(test, AddNode(source, g)))

ConceptEdges(mapping) ==
    {Edge(ConceptNode(mapping.concept), "IMPLEMENTED_BY", StubNode(p, "code_file")) : p \in mapping.files}
    \cup {Edge(ConceptNode(mapping.concept), "TESTED_BY", StubNode(p, "test_file")) : p \in mapping.tests}

\* Mutant: a related file is taken to have its node already.
AddConceptTests(mapping, g) ==
    AddEdges(ConceptEdges(mapping),
             AddNodes({StubNode(p, "test_file") : p \in mapping.tests}, AddNode(ConceptNode(mapping.concept), g)))

\* Every related file becomes a code_file, a test among them too.
AddConcept(mapping, g) ==
    AddEdges(ConceptEdges(mapping),
             AddNodes({StubNode(p, "test_file") : p \in mapping.tests},
                AddNodes({StubNode(p, "code_file") : p \in mapping.files},
                    AddNode(ConceptNode(mapping.concept), g))))

AddCodebase(index, g) ==
    LET withSymbols == FoldLeft(AddSymbol, AddFiles(g, index), index.symbols)
    IN  FoldSet(AddConcept, FoldSet(AddTest, withSymbols, index.tests), index.concepts)

\* Mutant: the file name is looked up before the path.
ResolveByName(g, path) ==
    IF FileName(path) \in DOMAIN g.aliases THEN {g.aliases[FileName(path)]}
    ELSE IF PathText(path) \in DOMAIN g.aliases THEN {g.aliases[PathText(path)]}
    ELSE {}

\* The node of an alias, or of the last part of a path, if there is one.
Resolve(g, path) ==
    IF PathText(path) \in DOMAIN g.aliases THEN {g.aliases[PathText(path)]}
    ELSE IF FileName(path) \in DOMAIN g.aliases THEN {g.aliases[FileName(path)]}
    ELSE {}

LooksLikeTest(path) ==
    \/ Below(path, {"test"})
    \/ path.dirs # <<>> /\ path.dirs[1] = "tests"
    \/ path.ext = ".java" /\ Last(path.stem) = "test"

\* Code a document names is found, or else taken to exist.
LinkCode(g, doc, path) ==
    LET stub == StubNode(path, IF LooksLikeTest(path) THEN "test_file" ELSE "code_file")
        held == IF Resolve(g, path) = {} THEN AddNode(stub, g) ELSE g
        to == CHOOSE id \in Resolve(held, path) : TRUE
    IN  AddEdges({[from |-> DocNode(doc).id, type |-> "AFFECTS", to |-> to]}
                   \cup {[from |-> ConceptNode(c).id, type |-> "IMPLEMENTED_BY", to |-> to] : c \in doc.concepts},
                 held)

AddRelatedCode(g, doc) == FoldLeft(LAMBDA h, path : LinkCode(h, doc, path), g, doc.relatedCode)

\* A reference that resolves to nothing is dropped.
AddRelated(g, doc) ==
    LET from == {DocNode(doc).id} \cup {g.aliases[ConceptText(c)] : c \in doc.concepts}
    IN  AddEdges(UNION {{[from |-> f, type |-> r.type, to |-> to] : f \in from, to \in Resolve(g, r.ref)} :
                            r \in doc.related}, g)

Relate(g, doc) == AddRelated(AddRelatedCode(g, doc), doc)

\* docs is the sequence of the documents loaded, index {} or one index.
Graph(docs, index) ==
    LET withDocs == FoldLeft(AddDocument, Empty, docs)
        withCode == FoldSet(AddCodebase, withDocs, index)
        g == FoldLeft(Relate, withCode, docs)
    IN  [nodes |-> g.nodes, edges |-> g.edges, warnings |-> index = {}]

-----------------------------------------------------------------------------
(* Retrieval *)

\* A query that is a part of the text as it stands counts more; its words are
\* words of the text then, as no word contains another one.
NodeMatches(node, terms) ==
    terms \cap ((UNION {Words(name) : name \in node.aliases}) \cup (UNION node.concepts) \cup node.about) # {}

Neighbours(graph, node) ==
    {n \in graph.nodes : \E e \in graph.edges : {e.from, e.to} = {node.id, n.id}}

Priority ==
    <<"incident", "historical_jira", "historical_pr", "concept_memory", "architecture_doc",
      "domain_doc", "code_file", "code_symbol", "test_file", "testing_doc", "runbook", "concept">>

NodePriority(node) ==
    LET place == SelectInSeq(Priority, LAMBDA type : type = node.type)
    IN  IF place = 0 THEN 20 ELSE place - 1

\* One hop, the first limit by priority; among equals any.
ConnectedNodes(graph, node, limit) ==
    {chosen \in Best(Neighbours(graph, node), limit) :
        \A n \in chosen, m \in Neighbours(graph, node) \ chosen : NodePriority(n) <= NodePriority(m)}

\* What a search may find: any top_k of it, as how words are counted is left open.
GraphMatches(graph, terms) == {n \in graph.nodes : NodeMatches(n, terms)}

\* The nodes with that alias, and without one those with it in their title,
\* path or key; the code takes the first of them.
ResolveNode(graph, name) ==
    LET named == {n \in graph.nodes : name \in n.aliases}
        Texts(n) == {n.title, n.id[2]} \cup {PathText(p) : p \in n.path}
    IN  IF named # {} THEN named
        ELSE {n \in graph.nodes : \E text \in Texts(n) : name \in SubSeqs(text)}
=============================================================================
