---------------------------- MODULE MCWorkspace ----------------------------
(* A model-checking instance of Workspace. *)
EXTENDS Workspace

\* A file and its test, both of one name.
core == [dirs |-> <<"src", "core">>, stem |-> <<"job">>, ext |-> ".java"]
test == [dirs |-> <<"src", "test">>, stem |-> <<"job">>, ext |-> ".java"]
MCPathOrder == <<core, test>>

Line(kind, name) == [kind |-> kind, name |-> name]
File(lines) == [utf8 |-> TRUE, secret |-> FALSE, lines |-> lines]

\* The second version of the controller has its endpoint where it was, but
\* without the annotation; the third one cannot be decoded.
MCText ==
    [controller |-> File(<<Line("class", <<"job">>), Line("mapping", <<>>), Line("method", <<"status">>)>>),
     moved |-> File(<<Line("import", <<"core">>), Line("class", <<"job">>), Line("method", <<"status">>)>>),
     binary |-> [utf8 |-> FALSE, secret |-> TRUE, lines |-> <<>>],
     test |-> File(<<Line("class", <<"job", "test">>), Line("import", <<"core">>)>>)]

MCVersions == [p \in Paths |-> IF p = core THEN <<"controller", "moved", "binary">> ELSE <<"test">>]

Document(dir, name, concepts, related, refs, secret) ==
    [path |-> [dirs |-> <<"docs", dir>>, stem |-> <<name>>, ext |-> ".md"], type |-> "",
     title |-> <<name>>, app |-> <<>>, component |-> <<"runner">>, concepts |-> concepts,
     relatedCode |-> related, related |-> refs,
     text |-> [utf8 |-> TRUE, secret |-> secret,
               lines |-> <<Line("heading", <<name>>), Line("prose", <<"job", "stuck">>)>>]]

incident == [dirs |-> <<>>, stem |-> <<"stuck">>, ext |-> ""]
lost == [dirs |-> <<"src", "lost">>, stem |-> <<"tracker">>, ext |-> ".java"]

\* A runbook that came through the intake, a version of it with a password,
\* and an incident that names a file there is not.
MCDoc ==
    [restart |-> Document("runbooks", "restart", {{"job"}}, <<test>>, {[type |-> "RELATED_TO", ref |-> incident]}, FALSE),
     leaking |-> Document("runbooks", "restart", {{"job"}}, <<test>>, {}, TRUE),
     stuck |-> Document("incidents", "stuck", {{"job", "status"}}, <<lost, core>>, {}, FALSE)]

MCDocOrder == <<"stuck", "restart", "leaking">>

MCIntakes ==
    <<[document |-> "intake", promoted |-> {MCDoc["restart"].path}, hash |-> <<"raw">>,
       stored |-> {<<"raw">>}, status |-> "promoted", sections |-> 2]>>

Result(type, path, name, score) == [type |-> type, paths |-> {path}, name |-> name, score |-> score]
GraphResult(type, path, score) == [node |-> [type |-> type, path |-> path, title |-> <<type>>], score |-> score]

\* Everything a query about jobs may find, and every part of it; the symbol
\* of the test, which scores less, has one of the preferred terms.
CodeFound ==
    {Result("code_file", core, {"job"}, 3), Result("code_symbol", core, {"job"}, 5),
     Result("code_symbol", test, {"job", "polling"}, 2), Result("test_file", test, {"job"}, 1)}
GraphFound == {GraphResult("incident", {MCDoc["stuck"].path}, 9), GraphResult("concept", {}, 40)}
GraphAlone == {GraphResult("incident", {}, 9)}

MCSearches ==
    {[pack |-> <<<<"docs">>>>, docs |-> <<MCDoc["stuck"], MCDoc["restart"]>>, query |-> query, app |-> <<>>,
      component |-> component, focus |-> focus, k |-> k, graph |-> SetToSeq(g),
      code |-> <<SetToSeq(code), SetToSeq(code), <<>>>>] :
        query \in {<<"job", "stuck">>, <<"restart">>}, component \in {<<>>, <<<<"runner">>>>}, focus \in BOOLEAN,
        k \in {2, 4}, g \in {{}, GraphFound, GraphAlone}, code \in SUBSET CodeFound}

\* What the theorem about RelatedCodeIsLinked asks of the documents.
ASSUME UniquePaths == PathsAreUnique
=============================================================================
