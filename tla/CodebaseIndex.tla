---------------------------- MODULE CodebaseIndex ----------------------------
(***************************************************************************)
(* The codebase index (dream/codebase): what indexing derives from the     *)
(* files of a repository, and what searching an index finds.               *)
(*                                                                         *)
(* A path is the words of its directories and of its stem, and its         *)
(* extension; a file's text is whether it can be decoded, whether it holds *)
(* something secret-like, and its lines, a line being what the extractors  *)
(* see in it.  Names are in lower case, and no word contains another one.  *)
(* Of the lists of an index the symbols are in the order of the files and  *)
(* of their lines; the others are sets.                                    *)
(***************************************************************************)
EXTENDS Naturals, FiniteSets, SequencesExt

CONSTANT PathOrder  \* the paths files may have, in the order of their names

Paths == Range(PathOrder)

Before(p, q) ==
    \E i, j \in DOMAIN PathOrder : i < j /\ PathOrder[i] = p /\ PathOrder[j] = q

First(S) == CHOOSE p \in S : \A q \in S : p = q \/ Before(p, q)

Separators == {"_", "-"}

Words(name) == Range(name) \ Separators

PathWords(path) == Range(path.dirs) \cup Words(path.stem)

-----------------------------------------------------------------------------
(* Languages and roles *)

Language(path) ==
    CASE path.ext = ".py" -> "python"
      [] path.ext = ".java" -> "java"
      [] path.ext \in {".ts", ".tsx"} -> "typescript"
      [] path.ext \in {".js", ".jsx"} -> "javascript"
      [] path.ext = ".md" -> "markdown"
      [] path.ext \in {".yaml", ".yml"} -> "yaml"
      [] path.ext = ".json" -> "json"
      [] path.ext = ".properties" -> "properties"
      [] path.ext = ".env" -> "env"
      [] OTHER -> "unknown"

\* "/test/" does not match a directory at the root: a path has no slash in front.
Below(path, names) == \E i \in 2..Len(path.dirs) : path.dirs[i] \in names

NamedTest(path) ==
    \/ Len(path.stem) > 1 /\ path.stem[1] = "test" /\ path.stem[2] = "_"
    \/ Language(path) = "java" /\ Last(path.stem) = "test"
    \/ path.ext = ".ts" /\ Last(path.stem) \in {".spec", ".test"}

Role(path) ==
    IF Language(path) = "markdown" \/ Below(path, {"docs"}) THEN "docs"
    ELSE IF \/ path.ext \in {".yaml", ".yml", ".json", ".properties", ".env", ".toml"}
            \/ path.ext = "" /\ path.stem \in {<<"dockerfile">>, <<"makefile">>} THEN "config"
    ELSE IF Below(path, {"test", "tests"}) \/ NamedTest(path) THEN "test"
    ELSE IF Language(path) \in {"java", "python", "typescript", "javascript"} THEN "source"
    ELSE "unknown"

-----------------------------------------------------------------------------
(* Symbols *)

Declared(lines, kind) == {n \in DOMAIN lines : lines[n].kind = kind}

SymbolsOf(path, lines, Kind(_), declaring) ==
    FlattenSeq([n \in DOMAIN lines |->
                    IF lines[n].kind \notin declaring THEN <<>>
                    ELSE <<[file |-> path, name |-> lines[n].name, kind |-> Kind(n), line |-> n]>>])

\* One syntax error and ast.parse gives nothing.
ExtractPython(path, lines) ==
    LET Kind(n) == IF lines[n].kind = "class" THEN "class" ELSE "function"
    IN  IF Declared(lines, "broken") # {} THEN <<>>
        ELSE SymbolsOf(path, lines, Kind, {"class", "def"})

\* A method is an endpoint if one of the two lines above has a mapping annotation.
ExtractJava(path, lines) ==
    LET Kind(n) == IF lines[n].kind # "method" THEN lines[n].kind
                   ELSE IF Declared(lines, "mapping") \cap {n - 1, n - 2} # {} THEN "endpoint"
                   ELSE "method"
    IN  SymbolsOf(path, lines, Kind, {"class", "interface", "method"})

\* The pattern of a method also matches a call at the start of a line.
ExtractTypescript(path, lines) ==
    LET Kind(n) == IF lines[n].kind = "call" THEN "method" ELSE lines[n].kind
    IN  SymbolsOf(path, lines, Kind, {"class", "function", "method", "call"})

Symbols(path, lines) ==
    CASE Language(path) = "python" -> ExtractPython(path, lines)
      [] Language(path) = "java" -> ExtractJava(path, lines)
      [] Language(path) = "typescript" -> ExtractTypescript(path, lines)
      [] OTHER -> <<>>

\* Nothing is extracted from a file of any other language, or one that cannot be decoded.
IsParsed(path) == Language(path) \in {"java", "python", "typescript"}

-----------------------------------------------------------------------------
(* Concepts: a concept is the set of its words *)

KeyPhrases ==
    {{"async", "status"}, {"status", "tracking"}, {"job", "execution"},
     {"long", "running", "job"}, {"batch", "job"}, {"job", "status"},
     {"result", "collection"}, {"failure", "handling"}}

ImportantTokens ==
    {"api", "async", "batch", "collector", "component", "controller", "execution", "failure",
     "job", "result", "service", "status", "test", "tracker", "workflow"}

\* Words that stand for a phrase when they are found together in names.
NamedPhrases ==
    {[words |-> p, concept |-> p] :
        p \in {{"job", "execution"}, {"job", "status"}, {"async", "job"}, {"batch", "job"},
               {"status", "tracking"}}}
    \cup {[words |-> {"status", "tracker"}, concept |-> {"status", "tracking"}],
          [words |-> {"result", "collector"}, concept |-> {"result", "collection"}]}

SymbolPhrases ==
    {[words |-> {"job", "execution"}, concept |-> {"job", "execution"}],
     [words |-> {"job", "status"}, concept |-> {"job", "status"}],
     [words |-> {"status", "tracker"}, concept |-> {"status", "tracking"}]}

PhrasesIn(words, phrases) == {p.concept : p \in {q \in phrases : q.words \subseteq words}}

Tokens(words) == {{word} : word \in words \cap ImportantTokens}

DeriveConcepts(path, lines, symbols) ==
    LET names == PathWords(path) \cup UNION {Words(s.name) : s \in Range(symbols)}
        source == names \cup UNION {Words(lines[n].name) : n \in DOMAIN lines}
    IN  {p \in KeyPhrases : p \subseteq source} \cup Tokens(names) \cup PhrasesIn(names, NamedPhrases)

ConceptsForSymbol(symbol, fileConcepts) ==
    LET names == Words(symbol.name)
    IN  fileConcepts \cup Tokens(names) \cup PhrasesIn(names, SymbolPhrases)

\* The last word is glued to the extension and never matches.
ConceptsFromPath(path) ==
    {{word} : word \in (Range(path.dirs) \cup Words(Front(path.stem)))
                            \cap {"docs", "config", "test", "job", "status"}}

-----------------------------------------------------------------------------
(* The index *)

\* read is a function from the paths that were found to their texts.
FileNode(path, text) ==
    [path |-> path, language |-> Language(path), role |-> Role(path),
     concepts |-> IF ~IsParsed(path) THEN ConceptsFromPath(path)
                  ELSE IF ~text.utf8 THEN {}
                  ELSE DeriveConcepts(path, text.lines, Symbols(path, text.lines))]

SymbolNodes(path, text) ==
    LET concepts == FileNode(path, text).concepts
        symbols == Symbols(path, text.lines)
    IN  IF ~text.utf8 THEN <<>>
        ELSE [i \in DOMAIN symbols |->
                [file |-> path, name |-> symbols[i].name, kind |-> symbols[i].kind,
                 line |-> symbols[i].line, concepts |-> ConceptsForSymbol(symbols[i], concepts)]]

\* The first test whose name contains the name of the source.
MapTests(nodes) ==
    LET Candidates(n) == {t \in nodes : t.role = "test" /\ n.path.stem \in SubSeqs(t.path.stem)}
    IN  {[source |-> n.path, test |-> First({t.path : t \in Candidates(n)})] :
            n \in {m \in nodes : m.role = "source" /\ Candidates(m) # {}}}

ConceptMapping(concept, nodes, symbols, tests) ==
    LET named == {n \in nodes : concept \in n.concepts}
        found == {s \in Range(symbols) : concept \in s.concepts}
        files == {n.path : n \in named} \cup {s.file : s \in found}
    IN  [concept |-> concept, files |-> files, symbols |-> {s.name : s \in found},
         tests |-> {m.test : m \in {t \in tests : t.source \in files}}
                        \cup {n.path : n \in {m \in named : m.role = "test"}}]

Dependencies(read, tests) ==
    (UNION {{[from |-> p, to |-> read[p].lines[n].name, type |-> "import"] :
                 n \in IF Language(p) = "python" /\ Declared(read[p].lines, "broken") # {} THEN {}
                       ELSE Declared(read[p].lines, "import")} :
                 p \in {q \in DOMAIN read : IsParsed(q) /\ read[q].utf8}})
    \cup {[from |-> m.test, to |-> m.source, type |-> "test"] : m \in tests}

FileNodes(read) == {FileNode(p, read[p]) : p \in DOMAIN read}

AllSymbols(read) ==
    FlattenSeq([i \in DOMAIN PathOrder |->
                    IF PathOrder[i] \in DOMAIN read THEN SymbolNodes(PathOrder[i], read[PathOrder[i]]) ELSE <<>>])

Index(read) ==
    LET nodes == FileNodes(read)
        symbols == AllSymbols(read)
        tests == MapTests(nodes)
        concepts == (UNION {n.concepts : n \in nodes}) \cup (UNION {s.concepts : s \in Range(symbols)})
    IN  [files |-> nodes, symbols |-> symbols, tests |-> tests,
         concepts |-> {ConceptMapping(c, nodes, symbols, tests) : c \in concepts},
         dependencies |-> Dependencies(read, tests),
         warnings |-> {p \in DOMAIN read : IsParsed(p) /\ ~read[p].utf8}]

-----------------------------------------------------------------------------
(* Searching an index *)

\* Of several results the best come first; how the words of a result are
\* counted is left open, so a search gives any top_k of what matches.
Best(results, k) ==
    {chosen \in SUBSET results :
        Cardinality(chosen) = IF Cardinality(results) < k THEN Cardinality(results) ELSE k}

FileMatches(node, terms) ==
    terms \cap (PathWords(node.path) \cup {node.language, node.role} \cup UNION node.concepts) # {}

SymbolMatches(symbol, terms) ==
    terms \cap (Words(symbol.name) \cup PathWords(symbol.file) \cup {symbol.kind}
                   \cup UNION symbol.concepts) # {}

ConceptMatches(mapping, terms) ==
    terms \cap (mapping.concept \cup (UNION {PathWords(p) : p \in mapping.files})
                   \cup (UNION {Words(name) : name \in mapping.symbols})) # {}

Matches(index, terms) ==
    {[type |-> IF n.role = "test" THEN "test_file" ELSE "code_file", paths |-> {n.path}, name |-> {}] :
        n \in {m \in index.files : FileMatches(m, terms)}}
    \cup {[type |-> "code_symbol", paths |-> {s.file}, name |-> Words(s.name)] :
        s \in {t \in Range(index.symbols) : SymbolMatches(t, terms)}}
    \cup {[type |-> "concept", paths |-> {}, name |-> m.concept] :
        m \in {c \in index.concepts : ConceptMatches(c, terms)}}

\* str.endswith on paths.
EndsWith(path, given) ==
    /\ path.ext = given.ext
    /\ IF given.dirs = <<>> THEN IsSuffix(given.stem, path.stem)
       ELSE given.stem = path.stem /\ IsSuffix(given.dirs, path.dirs)

\* The first path that ends with the given one, even when the given one comes later.
FindFile(index, given) ==
    LET found == {n.path : n \in {m \in index.files : EndsWith(m.path, given)}}
    IN  IF found = {} THEN {} ELSE {n \in index.files : n.path = First(found)}

FindTestsForSource(index, given) == {m \in index.tests : EndsWith(m.source, given)}
=============================================================================
