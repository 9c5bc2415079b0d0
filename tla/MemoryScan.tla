----------------------------- MODULE MemoryScan -----------------------------
(***************************************************************************)
(* What a memory scan makes of a repository and its documents, and what is *)
(* computed from scans: validation, evaluation, difference, the signals a  *)
(* reviewer sees, and the search (dream/memory/distiller.py, evaluator.py, *)
(* claim_retriever.py).                                                    *)
(*                                                                         *)
(* A scan is what it was made from: parsed, the texts the index was made   *)
(* of; read, the texts the scan read afterwards; the set of the documents; *)
(* the commit and the intake records.  Hashes stand for what they are taken of, so    *)
(* the id of a claim is the record of what goes into it.                   *)
(***************************************************************************)
EXTENDS EvidenceGraph

\* What cannot be decoded reads as nothing.
Nothing == [utf8 |-> TRUE, secret |-> FALSE, lines |-> <<>>]

Content(text) == IF text.utf8 THEN text ELSE Nothing

-----------------------------------------------------------------------------
(* Sources and spans *)

Source(type, path, text, commit) ==
    [id |-> [type |-> type, path |-> path, content |-> Content(text)], text |-> Content(text),
     flagged |-> Content(text).secret, commit |-> commit]

\* The lines of a span are looked up in the text that is there now.
Span(source, start, end) ==
    LET lines == source.text.lines
    IN  [source |-> source.id, start |-> start, end |-> end,
         excerpt |-> SubSeq(lines, start, IF end < Len(lines) THEN end ELSE Len(lines))]

WholeSpan(source) ==
    Span(source, 1, IF source.text.lines = <<>> THEN 1 ELSE Len(source.text.lines))

FileSourceType(path) == IF Role(path) = "test" THEN "test" ELSE "code"

DocSourceType(doc) ==
    CASE DocType(doc) \in {"runbook", "incident", "test", "workflow"} -> DocType(doc)
      [] DocType(doc) = "historical-pr" -> "pr"
      [] DocType(doc) = "historical-jira" -> "ticket"
      [] OTHER -> "doc"

FileSource(scan, path) == Source(FileSourceType(path), path, scan.read[path], scan.commit)

DocSource(scan, doc) == Source(DocSourceType(doc), doc.path, doc.text, scan.commit)

-----------------------------------------------------------------------------
(* Claims *)

Entity(type, name) == <<type, name>>

\* object, value and condition are <<>> when a relation has none.
Relation(type, object, value, condition) ==
    [type |-> type, object |-> object, value |-> value, condition |-> condition]

Structural(status) == [method |-> "structural", status |-> status, risk |-> "low", security |-> "public_demo"]

Claim(entity, relation, source, span, governance, proofs) ==
    [entity |-> entity, relation |-> relation, span |-> span, commit |-> source.commit,
     redacted |-> source.flagged, method |-> governance.method, status |-> governance.status,
     risk |-> governance.risk, security |-> governance.security, proofs |-> proofs]

\* Mutant: a claim is known by where it was found, not by what stood there.
ClaimIdByPath(claim) ==
    [entity |-> claim.entity, relation |-> claim.relation, path |-> claim.span.source.path]

ClaimId(claim) == [entity |-> claim.entity, relation |-> claim.relation, span |-> claim.span]

FileClaim(scan, path) ==
    LET source == FileSource(scan, path)
        type == IF Role(path) = "test" THEN "test" ELSE "code_file"
    IN  Claim(Entity(type, PathText(path)), Relation("has_language", <<>>, <<Language(path)>>, <<>>),
              source, WholeSpan(source), Structural("approved"), {})

\* The symbol is where the index saw it, the excerpt what stands there now.
SymbolSpan(scan, symbol) == Span(FileSource(scan, symbol.file), symbol.line, symbol.line)

SymbolClaims(scan, symbol) ==
    LET source == FileSource(scan, symbol.file)
        entity == Entity(IF symbol.kind = "endpoint" THEN "endpoint" ELSE "symbol", symbol.name)
        file == Entity("code_file", PathText(symbol.file))
        About(relation) ==
            Claim(entity, relation, source, SymbolSpan(scan, symbol), Structural("approved"), {})
    IN  {About(Relation("defined_in", file, Append(symbol.name, symbol.kind), <<>>))}
        \cup (IF symbol.kind = "endpoint"
              THEN {About(Relation("implements", <<>>, <<"endpoint">>, <<"direct", "annotation">>))}
              ELSE {})

\* The confidence of a mapping is 0.9, and 0.95 would be needed.
TestMappingClaim(scan, mapping) ==
    LET source == FileSource(scan, mapping.source)
    IN  Claim(Entity("code_file", PathText(mapping.source)),
              Relation("tested_by", Entity("test", PathText(mapping.test)), PathText(mapping.test), <<>>),
              source, WholeSpan(source), Structural("candidate"), {})

\* Entity type, relation and risk of the claim about a document; the first that fits.
DocShapes ==
    <<<<"incident", "incidents", "incident", "risk_for", "medium">>,
      <<"runbook", "runbooks", "runbook", "mitigates", "high">>,
      <<"historical-pr", "historical-pr", "pr", "changed_by", "medium">>,
      <<"historical-jira", "historical-jira", "ticket", "documented_by", "medium">>,
      <<"architecture", "architecture", "decision", "documented_by", "medium">>>>

DocShape(doc) ==
    LET Fits(shape) == DocType(doc) = shape[1] \/ In(doc.path, shape[2])
        shape == SelectInSeq(DocShapes, Fits)
    IN  IF shape = 0 THEN <<"concept", "documented_by", "low">> ELSE SubSeq(DocShapes[shape], 3, 5)

DocCondition(doc) == doc.app \o doc.component

-----------------------------------------------------------------------------
(* Where an intake document went *)

\* An intake record has the document's id, the paths it and its draft were
\* promoted to, the hash taken on arrival (<<>> if none), the raw file that
\* is stored ({} if it is gone), the draft's status and its sections.
SourceHashVerified(intake) ==
    IF intake.hash = <<>> \/ intake.stored = {} THEN "unknown"
    ELSE IF intake.stored = {intake.hash} THEN "yes"
    ELSE "no"

\* Of two records with one path the later one counts.
IntakeProofs(scan, doc) ==
    LET promoted == {i \in DOMAIN scan.intakes : doc.path \in scan.intakes[i].promoted}
        intake == scan.intakes[CHOOSE i \in promoted : \A j \in promoted : j <= i]
    IN  IF promoted = {} THEN {}
        ELSE {[document |-> intake.document, hash |-> intake.hash, sections |-> intake.sections,
               verified |-> SourceHashVerified(intake), status |-> intake.status]}

MatchStopWords ==
    {"and", "app", "architecture", "component", "demo_team", "domain", "docs", "documented_by", "for",
     "incidents", "knowledge", "knowledge_packs", "md", "packs", "runbooks", "team", "testing", "the", "with"}

\* The words of the claim that the document has too; a value that is a path has none.
MatchedTerms(doc, entity, relation) ==
    LET said == Range(entity[2]) \cup {relation.type}
                   \cup (IF "/" \in Range(relation.value) THEN {} ELSE Range(relation.value))
        shown == Range(doc.title) \cup {DocType(doc)} \cup PathWords(doc.path) \cup (UNION doc.concepts)
                   \cup (UNION {Range(line.name) : line \in Range(doc.text.lines)})
    IN  (said \cap shown) \ MatchStopWords

ClaimProofs(scan, doc, entity, relation) ==
    {[proof |-> p, terms |-> MatchedTerms(doc, entity, relation)] : p \in IntakeProofs(scan, doc)}

DocClaim(scan, doc, entity, relation, risk) ==
    LET source == DocSource(scan, doc)
    IN  Claim(entity, relation, source, WholeSpan(source),
              [method |-> "semantic", status |-> IF source.flagged THEN "quarantined" ELSE "candidate",
               risk |-> risk, security |-> IF source.flagged THEN "blocked" ELSE "public_demo"],
              ClaimProofs(scan, doc, entity, relation))

DocClaims(scan, doc) ==
    LET documented == Relation("documented_by", <<>>, PathText(doc.path), <<>>)
        shape == DocShape(doc)
    IN  {DocClaim(scan, doc, Entity("concept", ConceptText(c)), documented, "low") : c \in doc.concepts}
        \cup {DocClaim(scan, doc, Entity(shape[1], doc.path.stem),
                       Relation(shape[2], <<>>, doc.title, DocCondition(doc)), shape[3])}

-----------------------------------------------------------------------------
(* A scan *)

\* Two claims of one id are equal, so that a set of claims has no duplicate ids.
Claims(scan) ==
    {FileClaim(scan, p) : p \in DOMAIN scan.parsed}
    \cup (UNION {SymbolClaims(scan, s) : s \in Range(AllSymbols(scan.parsed))})
    \cup {TestMappingClaim(scan, m) : m \in MapTests(FileNodes(scan.parsed))}
    \cup (UNION {DocClaims(scan, doc) : doc \in scan.docs})

\* Mutant: the span of a symbol is not added to those of its source.
WholeSpans(scan) ==
    {WholeSpan(FileSource(scan, p)) : p \in DOMAIN scan.parsed}
    \cup {WholeSpan(DocSource(scan, doc)) : doc \in scan.docs}

Spans(scan) ==
    {WholeSpan(FileSource(scan, p)) : p \in DOMAIN scan.parsed}
    \cup {SymbolSpan(scan, s) : s \in Range(AllSymbols(scan.parsed))}
    \cup {WholeSpan(DocSource(scan, doc)) : doc \in scan.docs}

\* saved: the claims of a scan and the spans of its sources.  Every claim cites one span.
Validate(saved) ==
    [claims |-> Cardinality(saved.claims),
     unsupported |-> Cardinality({c \in saved.claims : c.span \notin saved.spans}),
     leaked |-> Cardinality({c \in saved.claims : c.security = "blocked" /\ c.status # "quarantined"}),
     promoted |-> Cardinality({c \in saved.claims : c.method = "semantic" /\ c.status = "approved"})]

\* MemoryDistillationEvaluator.evaluate_scan: no citation may be invalid.
Passes(saved) ==
    LET validation == Validate(saved)
    IN  validation.unsupported = 0 /\ validation.leaked = 0 /\ validation.promoted = 0

-----------------------------------------------------------------------------
(* The difference between two scans *)

\* The commit a claim was seen at counts as a part of it.
Diff(now, before) ==
    LET Ids(claims) == {ClaimId(c) : c \in claims}
    IN  [added |-> {c \in now : ClaimId(c) \notin Ids(before)},
         removed |-> {c \in before : ClaimId(c) \notin Ids(now)},
         changed |-> {c \in now : ClaimId(c) \in Ids(before) /\ c \notin before}]

-----------------------------------------------------------------------------
(* What reviewers see and what a search serves *)

SingleValued ==
    {"current_policy", "has_language", "has_owner", "has_status", "retention_policy",
     "security_classification", "sla"}

RiskSignals(claim) ==
    (IF claim.method = "semantic" THEN {<<"semantic">>} ELSE {})
    \cup {<<"risk_level", r>> : r \in {claim.risk} \ {"low"}}
    \cup {<<"security_classification", s>> : s \in {claim.security} \ {"public_demo"}}
    \cup {<<"unverified", p.proof.document>> : p \in {q \in claim.proofs : q.proof.verified # "yes"}}

ConflictSignals(claims, claim) ==
    {<<"conflicts_with", ClaimId(c)>> :
        c \in {d \in claims : /\ claim.relation.type \in SingleValued
                            /\ d.entity = claim.entity
                            /\ d.relation.type = claim.relation.type
                            /\ d.relation # claim.relation}}

ClaimWords(claim) ==
    {claim.entity[1], claim.relation.type} \cup Range(claim.entity[2]) \cup Range(claim.relation.value)
      \cup Range(claim.relation.condition) \cup PathWords(claim.span.source.path)

\* Effective(claim) is the status the ledger gives; without terms all match.
ServedClaims(claims, terms, Effective(_)) ==
    {c \in claims : Effective(c) = "approved" /\ (terms = {} \/ terms \cap ClaimWords(c) # {})}
=============================================================================
