-------------------------- MODULE EvaluationScoring --------------------------
(***************************************************************************)
(* The deterministic scorecards of DREAM (dream/evals, dream/context/      *)
(* eval.py): what an output is scored, and whether it passes.              *)
(*                                                                         *)
(* A text is its lines, each a sequence of words, the roles it marks       *)
(* ("[QA]", "## QA", ...), and how many bullets and questions it has;      *)
(* sources are lines too.  A number that is matched by a pattern, as in    *)
(* inc-103, is the word "inc-nnn".  Scores are in hundredths, weights in   *)
(* tenths; a tie is rounded up, where the code rounds as its floats fall.  *)
(* What a scorecard lists as missing or recommends is left out unless it   *)
(* decides something.                                                      *)
(***************************************************************************)
EXTENDS Naturals, FiniteSets, SequencesExt

Least(a, b) == IF a < b THEN a ELSE b

Rounded(a, b) == (2 * a + b) \div (2 * b)

-----------------------------------------------------------------------------
(* What is in a text *)

Occurs(lines, phrase) ==
    \E line \in lines : \E i \in DOMAIN line :
        i + Len(phrase) <= Len(line) + 1 /\ SubSeq(line, i, i + Len(phrase) - 1) = phrase

OccursAny(lines, phrases) == \E phrase \in phrases : Occurs(lines, phrase)

\* What is looked for: its words and, of a path, those of the file's name.
Term(words) == [value |-> words, base |-> words]

Terms(words) == {Term(<<w>>) : w \in words}

\* Words of one or two letters do not count.
ShortWords == {"no", "of", "to"}

ItemPresent(lines, item) ==
    LET tokens == Range(item.value) \ ShortWords
    IN  \/ OccursAny(lines, {item.value, item.base})
        \/ Cardinality(tokens) > 1 /\ item.value = item.base /\ \A t \in tokens : Occurs(lines, <<t>>)

Present(lines, items) == {item \in items : ItemPresent(lines, item)}

Docs(directory) == <<"docs", "/", directory>>

\* The categories of evidence a text or its sources refer to.
Markers ==
    [domain_docs |-> {Docs("domain"), <<"job-lifecycle">>, <<"workflow-model">>},
     architecture_docs |-> {<<"architecture">>, <<"status-tracking-design">>},
     runbooks |-> {Docs("runbooks"), <<"runbook">>},
     incidents |-> {<<"inc-nnn">>, Docs("incidents")},
     historical_jira |-> {<<"dfp-nnn">>, Docs("historical-jira")},
     historical_pr |-> {<<"pr-nnn">>, Docs("historical-pr")},
     testing_docs |-> {Docs("testing"), <<"test", "plan">>, <<"regression-test">>},
     concept_memory |-> {Docs("concepts"), <<"concept", "memory">>, <<"-memory", ".md">>},
     code_files |-> {<<".java">>, <<".ts">>, <<".py">>, <<".json">>},
     test_files |-> {<<"src", "/", "test">>, <<"tests">>, <<"test_">>, <<"test", ".java">>, <<".spec", ".ts">>},
     evidence_graph |-> {<<"evidence", "graph">>, <<"evidence-graph#">>, <<"graph_">>, <<"memory", "graph">>}]

Coverage(lines) == {category \in DOMAIN Markers : OccursAny(lines, Markers[category])}

-----------------------------------------------------------------------------
(* Profiles: {} or {what a team expects} *)

ExpectedOf(profile) ==
    profile.concepts \cup profile.code \cup profile.tests \cup profile.docs
        \cup profile.incidents \cup profile.jira \cup profile.pr

History(profile) == profile.incidents \cup profile.jira \cup profile.pr

ProfileScore(profile, lines) ==
    Cardinality({p \in profile.patterns : Occurs(lines, p)})
        + Cardinality({c \in profile.concepts : Occurs(lines, c.value)})

\* Of the profiles, in the order of their names, the first of the best ones.
Infer(profiles, lines) ==
    LET Beats(i, j) == \/ ProfileScore(profiles[i], lines) > ProfileScore(profiles[j], lines)
                       \/ ProfileScore(profiles[i], lines) = ProfileScore(profiles[j], lines) /\ i <= j
        found == {i \in DOMAIN profiles : ProfileScore(profiles[i], lines) > 0}
    IN  {profiles[i] : i \in {j \in found : \A k \in found : Beats(j, k)}}

\* Expected(p) of a profile, or what is expected without one.
Wanted(profile, Expected(_), otherwise) ==
    IF profile = {} THEN otherwise ELSE UNION {Expected(p) : p \in profile}

-----------------------------------------------------------------------------
(* Dimensions *)

Dimension(name, score, weight) == [name |-> name, score |-> Least(score, 1000), weight |-> weight]

Fraction(count, total, empty) == IF total = 0 THEN empty ELSE Least(1000, Rounded(1000 * count, total))

Share(lines, items, empty) == Fraction(Cardinality(Present(lines, items)), Cardinality(items), empty)

\* said: the lines of the text; all: those of its sources too.
Lines(text, sources) == [said |-> text.lines, all |-> text.lines \cup sources]

EvidenceQuality(lines, sources, weight) ==
    Dimension("evidence_quality",
              110 * Cardinality(Coverage(lines.all)) + (IF sources = {} THEN 0 ELSE 200), weight)

RoleCoverage(text, profile, weight) ==
    LET roles == Wanted(profile, LAMBDA p : p.roles, {"BA", "TL", "FE", "BE", "QA", "OPS"})
    IN  Dimension("role_coverage", Fraction(Cardinality(roles \cap text.roles), Cardinality(roles), 600), weight)

TestAwareness(lines, profile, weight) ==
    LET tests == Wanted(profile, LAMBDA p : p.tests, Terms({"test", "regression"}) \cup {Term(<<"acceptance", "criteria">>)})
    IN  Dimension("test_awareness", Share(lines.all, tests, 400), weight)

HistoricalContext(lines, profile, weight) ==
    LET categories == {"incidents", "historical_jira", "historical_pr"}
    IN  Dimension("historical_context",
                  IF profile = {} THEN Fraction(Cardinality(categories \cap Coverage(lines.all)), 3, 400)
                  ELSE Share(lines.all, UNION {History(p) : p \in profile}, 500), weight)

Actionability(text, weight) ==
    LET asked == {Term(<<"acceptance", "criteria">>), Term(<<"open", "questions">>), Term(<<"dev", "notes">>),
                  Term(<<"test", "strategy">>), Term(<<"review", "checklist">>)}
    IN  Dimension("actionability",
                  60 * text.bullets + 150 * Cardinality(Present(text.lines, asked)), weight)

Specificity(lines, profile, weight) ==
    LET names == Wanted(profile, LAMBDA p : p.concepts \cup p.code \cup p.docs \cup History(p),
                        Terms({"queued", "running", "failed", "completed", ".java", ".ts", ".py"}))
    IN  Dimension("specificity", Share(lines.all, names, 500), weight)

RiskyClaims ==
    {<<"approved">>, <<"safe", "to", "merge">>, <<"guaranteed">>, <<"no", "risk">>, <<"must", "be", "correct">>}

HallucinationWarnings(lines) ==
    {claim \in RiskyClaims : Occurs(lines.said, claim)}
        \cup (IF Coverage(lines.all) = {} /\ ~Occurs(lines.said, <<"sources", "used">>) THEN {<<"ungrounded">>} ELSE {})
        \cup (IF /\ ~Occurs(lines.said, <<"human", "review">>)
                 /\ OccursAny(lines.said, {<<"pr", "review">>, <<"generated">>}) THEN {<<"unreviewed">>} ELSE {})

\* Seven warnings at most would take it below zero.
HallucinationRisk(lines, weight) ==
    LET lost == 150 * Cardinality(HallucinationWarnings(lines))
    IN  Dimension("hallucination_risk", IF lost > 900 THEN 0 ELSE 900 - lost, weight)

TermDimension(name, lines, terms, weight) == Dimension(name, Share(lines, terms, 400), weight)

ProfileDimension(lines, profile, Groups(_), otherwise) ==
    Dimension("impact_accuracy", Share(lines.all, Wanted(profile, Groups, Terms(otherwise)), 500), 12)

-----------------------------------------------------------------------------
(* What each kind of output is scored on *)

Headings(type) ==
    CASE type = "engineering_brief" ->
            {<<"#", "engineering", "brief">>, <<"request", "summary">>, <<"impact", "map">>,
             <<"clarification", "questions">>, <<"test", "strategy">>, <<"sources", "used">>}
      [] type = "jira_draft" ->
            {<<"#", "jira", "story", "draft">>, <<"user", "story">>, <<"acceptance", "criteria">>,
             <<"test", "scenarios">>, <<"open", "questions">>, <<"sources", "used">>}
      [] type = "requirement_case" ->
            {<<"#", "requirement", "case">>, <<"request">>, <<"retrieved", "context">>, <<"impact", "map">>,
             <<"clarification", "questions">>}
      [] OTHER -> {<<"#">>, <<"sources", "used">>}

Completeness(score) == Dimension("completeness", score, 12)

RequirementLike(type, text, sources, profile) ==
    LET lines == Lines(text, sources)
        found == {h \in Headings(type) : Occurs(lines.said, h)}
    IN  {Completeness(Fraction(Cardinality(found), Cardinality(Headings(type)), 600)),
         EvidenceQuality(lines, sources, 14),
         ProfileDimension(lines, profile, LAMBDA p : p.concepts \cup p.code,
                          {"workflow", "backend", "api", "data", "test", "ops", "frontend"}),
         RoleCoverage(text, profile, 10), TestAwareness(lines, profile, 10),
         HistoricalContext(lines, profile, 10), Actionability(text, 11),
         Specificity(lines, profile, 10), HallucinationRisk(lines, 12)}

Areas == {"frontend", "backend", "api", "data", "workflow", "test", "ops", "security"}

\* Six of the eight areas are enough.
ImpactMap(text, sources, profile) ==
    LET lines == Lines(text, sources)
    IN  {Completeness(Fraction(Cardinality(Present(lines.said, Terms(Areas))), 6, 600)),
         EvidenceQuality(lines, sources, 14),
         ProfileDimension(lines, profile, LAMBDA p : p.concepts \cup p.code \cup p.tests, Areas),
         TestAwareness(lines, profile, 10), Actionability(text, 11),
         Specificity(lines, profile, 10), HallucinationRisk(lines, 12)}

RoleQuestions(text, sources, profile) ==
    LET lines == Lines(text, sources)
    IN  {Completeness(Fraction(text.prompts, 8, 600)),
         EvidenceQuality(lines, sources, 14), RoleCoverage(text, profile, 10),
         ProfileDimension(lines, profile, LAMBDA p : p.concepts \cup p.risks,
                          {"status", "api", "test", "runbook", "polling", "retry"}),
         TestAwareness(lines, profile, 10), Actionability(text, 11),
         Specificity(lines, profile, 10), HallucinationRisk(lines, 12)}

PrReview(text, sources, profile) ==
    LET lines == Lines(text, sources)
        said == lines.said
    IN  {TermDimension("changed_file_awareness", said,
             Terms({".java", "outputcollector"}) \cup {Term(<<"changed", "files">>)}, 12),
         TermDimension("codebase_memory_usage", lines.all,
             Terms({"codebase", ".java", "test"}) \cup {Term(<<"related", "codebase", "memory">>)}, 13),
         TermDimension("business_alignment", said, Terms({"dfp-nnn", "business", "idempotency"}), 10),
         TermDimension("test_gap_detection", said, Terms({"test", "regression", "missing", "coverage"}), 12),
         TermDimension("operational_risk_awareness", said,
             Terms({"runbook", "ops", "incident", "retry", "duplicate", "idempotency"}), 10),
         HistoricalContext(lines, profile, 10), Actionability(text, 10), HallucinationRisk(lines, 12)}

TestgenReport(text, sources) ==
    LET lines == Lines(text, sources)
        said == lines.said
    IN  {TermDimension("target_selection_quality", said, Terms({"target", "source", "test", ".java", ".py", ".ts"}), 11),
         TermDimension("validation_clarity", said,
             Terms({"validation", "status", "report"}) \cup {Term(<<"dry", "run">>)}, 10),
         TermDimension("coverage_reporting", said, Terms({"coverage", "before", "after"}), 10),
         TermDimension("human_review_readiness", said,
             {Term(<<"human", "review">>), Term(<<"review", "required">>), Term(<<"manual", "review">>)}, 13),
         TermDimension("safety", said,
             {Term(<<"dry", "run">>), Term(<<"no", "files", "were", "modified">>),
              Term(<<"does", "not", "modify">>), Term(<<"mock">>)}, 13),
         Actionability(text, 10), HallucinationRisk(lines, 10)}

Dimensions(type, text, sources, profile) ==
    CASE type = "pr_review" -> PrReview(text, sources, profile)
      [] type = "testgen_report" -> TestgenReport(text, sources)
      [] type = "role_questions" -> RoleQuestions(text, sources, profile)
      [] type = "impact_map" -> ImpactMap(text, sources, profile)
      [] OTHER -> RequirementLike(type, text, sources, profile)

-----------------------------------------------------------------------------
(* The verdict *)

Sum(dimensions, Value(_)) == MapThenSumSet(Value, dimensions)

WeightedAverage(dimensions) ==
    Rounded(Sum(dimensions, LAMBDA d : d.score * d.weight), Sum(dimensions, LAMBDA d : d.weight))

Grade(score) ==
    IF score >= 850 THEN "A"
    ELSE IF score >= 700 THEN "B"
    ELSE IF score >= 550 THEN "C"
    ELSE IF score >= 400 THEN "D"
    ELSE "F"

PassStatus(score, critical) ==
    IF score >= 700 /\ critical = {} THEN "pass"
    ELSE IF score >= 550 THEN "warning"
    ELSE "fail"

\* With strict everything the profile expects is critical, not only its risks.
MissingCritical(text, sources, profile, strict) ==
    UNION {{item \in p.risks \cup (IF strict THEN ExpectedOf(p) ELSE {}) :
              ~ItemPresent(text.lines \cup sources, item)} : p \in profile}

BelowThreshold == Term(<<"below", "threshold">>)

\* Mutant: the status is decided before the threshold of the profile is looked at.
VerdictTooEarly(type, text, sources, profile, strict) ==
    LET score == WeightedAverage(Dimensions(type, text, sources, profile))
        critical == MissingCritical(text, sources, profile, strict)
        low == {p \in profile : p.minimum > 700 /\ score < p.minimum}
    IN  [score |-> score, grade |-> Grade(score), status |-> PassStatus(score, critical),
         critical |-> critical \cup {BelowThreshold : p \in low}]

\* A profile's minimum counts only where it asks for more than a pass does.
Verdict(type, text, sources, profile, strict) ==
    LET score == WeightedAverage(Dimensions(type, text, sources, profile))
        low == {p \in profile : p.minimum > 700 /\ score < p.minimum}
        critical == MissingCritical(text, sources, profile, strict) \cup {BelowThreshold : p \in low}
    IN  [score |-> score, grade |-> Grade(score), status |-> PassStatus(score, critical), critical |-> critical]

-----------------------------------------------------------------------------
(* ContextEvaluationService.evaluate_case *)

\* Here the words of a phrase have to be together.
Covered(lines, items) == {item \in items : OccursAny(lines, {item.value, item.base})}

CoverageScore(lines, items) == Fraction(Cardinality(Covered(lines, items)), Cardinality(items), 1000)

UsefulTypes ==
    {"code_file", "test_file", "incident", "historical_jira", "historical_pr", "architecture", "domain",
     "knowledge_doc"}

\* pack: its lines and source types, whether it has graph paths, and the
\* numbers of its approved and candidate claims.  The minimum of the profile
\* is not looked at.
RetrievalVerdict(pack, profile) ==
    LET expected == <<profile.concepts, profile.docs, profile.code, profile.tests, profile.incidents,
                      profile.jira, profile.pr>>
        coverage == FoldFunction(+, 0, [i \in DOMAIN expected |-> CoverageScore(pack.lines, expected[i])])
        claims == pack.approved + pack.candidates
        types == Least(1000, 200 + 125 * Cardinality(pack.types \cap UsefulTypes))
        score == (coverage + types + (IF pack.graph THEN 1000 ELSE 400)
                    + (IF claims = 0 THEN 600 ELSE Rounded(1000 * pack.approved, claims))) \div 10
        critical == ((UNION Range(expected)) \ Covered(pack.lines, UNION Range(expected)))
                        \cup (IF pack.graph THEN {} ELSE {Term(<<"no", "graph", "paths">>)})
    IN  [score |-> score, grade |-> Grade(score), status |-> PassStatus(score, critical), critical |-> critical]
=============================================================================
