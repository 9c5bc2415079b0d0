----------------------------- MODULE MCOutputs -----------------------------
(* A model-checking instance of Outputs. *)
EXTENDS Outputs

\* Two files, and the test of the first one.
job == [dirs |-> <<"src", "core">>, stem |-> <<"job">>, ext |-> ".java"]
runner == [dirs |-> <<"src", "core">>, stem |-> <<"runner">>, ext |-> ".java"]
test == [dirs |-> <<"src", "test">>, stem |-> <<"job", "test">>, ext |-> ".java"]
MCPathOrder == <<job, runner, test>>

Line(kind, name) == [kind |-> kind, name |-> name]
File(lines) == [utf8 |-> TRUE, secret |-> FALSE, lines |-> lines]

MCRepo ==
    (job :> File(<<Line("class", <<"job">>), Line("method", <<"status">>)>>))
        @@ (runner :> File(<<Line("class", <<"runner">>)>>))
        @@ (test :> File(<<Line("class", <<"job", "test">>), Line("import", <<"core">>)>>))

MCPages ==
    <<[path |-> [dirs |-> <<"docs", "runbooks">>, stem |-> <<"restart">>, ext |-> ".md"], type |-> "",
       title |-> <<"restart">>, app |-> <<>>, component |-> <<"runner">>, concepts |-> {{"job"}},
       relatedCode |-> <<job>>, related |-> {},
       text |-> [utf8 |-> TRUE, secret |-> FALSE,
                 lines |-> <<Line("heading", <<"restart">>), Line("prose", <<"job", "stuck">>)>>]]>>

\* Asked with a component no document has: it is found without the filter.
MCDrafts == {[pack |-> <<<<"docs">>>>, docs |-> MCPages, query |-> <<"job">>, app |-> <<>>,
              component |-> <<<<"other">>>>, k |-> 2]}

ChangeOf(path) == <<[kind |-> "file", path |-> path, words |-> <<>>], [kind |-> "added", path |-> path, words |-> <<"job">>]>>

Listed(set) == FoldSet(LAMBDA x, list : Append(list, x), <<>>, set)

ByScore(results) == SortSeq(results, LAMBDA r, s : r.score > s.score)

Asked(diff, k) ==
    LET terms == {"job", "stuck", "runner"}
        matches == {m @@ [score |-> IF m.paths = {} THEN 140 ELSE 110] : m \in Matches(SavedIndex, terms)}
        nodes == {[node |-> n, score |-> 103] : n \in GraphMatches(SavedGraph, terms)}
    IN  [pack |-> <<<<"docs">>>>, docs |-> MCPages, diff |-> diff, jira |-> <<"stuck", "runner">>,
         app |-> <<>>, component |-> <<>>, k |-> k, repo |-> TRUE,
         found |-> Top(ByScore(Listed(matches)), k), graph |-> Top(Listed(nodes), k)]

\* As many results as are asked for, all of them above the two changed files.
MCReviews == {Asked(ChangeOf(job) \o ChangeOf(runner), 6)}

Incident == <<"docs", "/", "incidents", "/", "inc-nnn">>

\* The brief has everything that is expected of it, a plain answer nothing.
MCText ==
    [brief |-> [lines |-> {<<"#", "engineering", "brief">>, <<"request", "summary">>, <<"impact", "map">>,
                           <<"clarification", "questions">>, <<"test", "strategy">>, <<"sources", "used">>,
                           <<"acceptance", "criteria">>, <<"open", "questions">>, <<"dev", "notes">>,
                           <<"regression">>, <<"job", "status">>, <<"duplicate", "result">>, <<"human", "review">>,
                           Incident, <<"dfp-nnn">>, <<"pr-nnn">>, PathText(job)},
                roles |-> {"QA", "BE"}, bullets |-> 6, prompts |-> 2],
     case |-> [lines |-> {<<"#", "requirement", "case">>, <<"request">>, <<"impact", "map">>, <<"job", "status">>},
               roles |-> {}, bullets |-> 3, prompts |-> 1],
     plain |-> [lines |-> {<<"safe", "to", "merge">>}, roles |-> {}, bullets |-> 0, prompts |-> 0],
     report |-> [lines |-> {<<"target", "source", ".java">>, <<"validation", "status", "report">>,
                            <<"coverage", "before", "after">>, <<"dry", "run">>, <<"mock">>,
                            <<"no", "files", "were", "modified">>, <<"human", "review">>},
                 roles |-> {}, bullets |-> 8, prompts |-> 0],
     pack |-> [lines |-> {<<"context", "pack">>, <<"job", "status">>, Incident}, roles |-> {}, bullets |-> 4,
               prompts |-> 0]]

MCCase ==
    <<("engineering_brief" :> "brief") @@ ("requirement_case" :> "case"),
      ("engineering_brief" :> "plain") @@ ("requirement_case" :> "case") @@ ("jira_draft" :> "plain")>>

MCCaseSources == SourceLines({MCPages[1].path, job})

Profile(tests, minimum) ==
    [patterns |-> {<<"job", "status">>}, concepts |-> {Term(<<"job", "status">>)},
     code |-> {[value |-> PathText(job), base |-> FileName(job)]}, tests |-> tests, docs |-> {},
     incidents |-> {Term(<<"inc-nnn">>)}, jira |-> {Term(<<"dfp-nnn">>)}, pr |-> {Term(<<"pr-nnn">>)},
     roles |-> {"QA", "BE"}, risks |-> {Term(<<"duplicate", "result">>)}, minimum |-> minimum]

\* The brief passes for the first team, but not for the second one.
MCProfiles == <<Profile({Term(<<"regression">>)}, 700), Profile({Term(<<"polling">>)}, 950)>>

AskFor(type, profile) == [type |-> type, profile |-> profile, strict |-> FALSE, team |-> TRUE, judge |-> FALSE]

MCAsks ==
    {[AskFor("requirement_case", 0) EXCEPT !.judge = TRUE], AskFor("engineering_brief", 2),
     [AskFor("testgen_report", 0) EXCEPT !.team = FALSE, !.strict = TRUE], AskFor("pr_review", 3)}

MCPack == [lines |-> MCText["pack"].lines, types |-> {"code_file", "incident"}, graph |-> TRUE, approved |-> 1,
           candidates |-> 1, text |-> "pack"]

MCRetrievals == {[pack |-> MCPack, profile |-> 1], [pack |-> MCPack, profile |-> 3]}

\* One output is generated, evaluated and judged again.
MCMaxRequests == [generate |-> 1, evaluate |-> 1, judge |-> 1]

MCSymmetry == Permutations(Workers)
=============================================================================
