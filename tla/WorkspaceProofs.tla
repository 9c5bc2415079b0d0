--------------------------- MODULE WorkspaceProofs ---------------------------
(***************************************************************************)
(* Proofs about Workspace, for any repository, documents, edits, handlers  *)
(* and stops: the types, that every stored scan keeps the guardrails, that *)
(* a stored graph is closed and links a document to the code it names,     *)
(* that a difference shows every edit, that what is served was reviewed,   *)
(* and that the selection of a search is balanced.                         *)
(***************************************************************************)
EXTENDS Workspace, EvidenceGraphProofs

-----------------------------------------------------------------------------
(* The claims of a scan *)

LEMMA ClaimForm ==
  ASSUME NEW entity, NEW relation, NEW source, NEW span, NEW governance, NEW proofs
  PROVE  LET c == Claim(entity, relation, source, span, governance, proofs)
         IN  /\ c.entity = entity /\ c.relation = relation /\ c.span = span
             /\ c.method = governance.method /\ c.status = governance.status
             /\ c.security = governance.security
  BY DEF Claim

\* A claim about the code: it cites a file.
IsFileClaim(scan, c, path) ==
    /\ path \in DOMAIN scan.parsed
    /\ c.span = WholeSpan(FileSource(scan, path))
    /\ c.method = "structural" /\ c.security = "public_demo"

LEMMA FileClaimForm ==
  ASSUME NEW scan, NEW path \in DOMAIN scan.parsed
  PROVE  /\ IsFileClaim(scan, FileClaim(scan, path), path)
         /\ FileClaim(scan, path).relation.type = "has_language"
  BY ClaimForm DEF FileClaim, IsFileClaim, Structural, Relation

LEMMA SymbolClaimForm ==
  ASSUME NEW scan, NEW symbol, NEW c \in SymbolClaims(scan, symbol)
  PROVE  /\ c.span = SymbolSpan(scan, symbol)
         /\ c.method = "structural" /\ c.security = "public_demo"
         /\ c.relation.type \in {"defined_in", "implements"}
  BY ClaimForm DEF SymbolClaims, Structural, Relation

LEMMA TestMappingForm ==
  ASSUME NEW scan, NEW mapping
  PROVE  LET c == TestMappingClaim(scan, mapping)
         IN  /\ c.span = WholeSpan(FileSource(scan, mapping.source))
             /\ c.method = "structural" /\ c.security = "public_demo"
             /\ c.relation.type = "tested_by"
  BY ClaimForm DEF TestMappingClaim, Structural, Relation

LEMMA MappedSource ==
  ASSUME NEW read, NEW mapping \in MapTests(FileNodes(read))
  PROVE  mapping.source \in DOMAIN read
<1>. DEFINE nodes == FileNodes(read)
            Candidates(n) == {t \in nodes : t.role = "test" /\ n.path.stem \in SubSeqs(t.path.stem)}
            Test(n) == First({t.path : t \in Candidates(n)})
            tested == {m \in nodes : m.role = "source" /\ Candidates(m) # {}}
<1>0. mapping \in {[source |-> n.path, test |-> Test(n)] : n \in tested}
  BY DEF MapTests
<1>1. \E n \in nodes : mapping.source = n.path
  <2>. HIDE DEF Test, Candidates, nodes
  <2>. QED  BY <1>0
<1>2. \A p \in DOMAIN read : FileNode(p, read[p]).path = p
  BY DEF FileNode
<1>. QED  BY <1>1, <1>2 DEF FileNodes

DocRelations == {"documented_by", "risk_for", "mitigates", "changed_by"}

\* What the claims about a document have in common.
IsDocClaim(scan, c, doc) ==
    /\ c.span = WholeSpan(DocSource(scan, doc))
    /\ c.method = "semantic"
    /\ c.status \in {"quarantined", "candidate"}
    /\ c.security = "blocked" => c.status = "quarantined"
    /\ c.relation.type \in DocRelations

LEMMA DocShapeRelation == ASSUME NEW doc PROVE DocShape(doc)[2] \in DocRelations
<1>. DEFINE Fits(shape) == DocType(doc) = shape[1] \/ In(doc.path, shape[2])
            fitting == {i \in 1..Len(DocShapes) : Fits(DocShapes[i])}
            place == IF fitting # {} THEN Min(fitting) ELSE 0
<1>1. place \in 0..5
  <2>1. Len(DocShapes) = 5
    BY DEF DocShapes
  <2>2. CASE fitting # {}
    <3>1. Min(fitting) \in fitting
      <4>. HIDE DEF Fits
      <4>1. fitting \in SUBSET Nat
        OBVIOUS
      <4>. HIDE DEF fitting
      <4>. QED  BY <2>2, <4>1, LeastNat DEF Min
    <3>. QED  BY <2>1, <2>2, <3>1
  <2>. QED  BY <2>2
<1>2. DocShape(doc) = IF place = 0 THEN <<"concept", "documented_by", "low">>
                      ELSE SubSeq(DocShapes[place], 3, 5)
  BY DEF DocShape, SelectInSeq
<1>. HIDE DEF place
<1>3. \A i \in 1..5 : SubSeq(DocShapes[i], 3, 5)[2] = DocShapes[i][4]
  BY DEF DocShapes
<1>4. \A i \in 1..5 : DocShapes[i][4] \in DocRelations
  BY DEF DocShapes, DocRelations
<1>5. CASE place = 0
  BY <1>2, <1>5 DEF DocRelations
<1>6. CASE place # 0
  <2>1. place \in 1..5 /\ DocShape(doc) = SubSeq(DocShapes[place], 3, 5)
    BY <1>1, <1>2, <1>6
  <2>. QED  BY <1>3, <1>4, <2>1
<1>. QED  BY <1>5, <1>6

LEMMA DocClaimForm ==
  ASSUME NEW scan, NEW doc, NEW c \in DocClaims(scan, doc)
  PROVE  IsDocClaim(scan, c, doc)
<1>1. \A entity, relation, risk : relation.type \in DocRelations =>
          IsDocClaim(scan, DocClaim(scan, doc, entity, relation, risk), doc)
  BY ClaimForm DEF DocClaim, IsDocClaim
<1>2. /\ Relation("documented_by", <<>>, PathText(doc.path), <<>>).type \in DocRelations
      /\ Relation(DocShape(doc)[2], <<>>, doc.title, DocCondition(doc)).type \in DocRelations
  BY DocShapeRelation DEF Relation, DocRelations
<1>. QED  BY <1>1, <1>2 DEF DocClaims

\* Every claim is about a file, a symbol, a test or a document.
LEMMA ClaimKinds ==
  ASSUME NEW scan, NEW c \in Claims(scan)
  PROVE  \/ \E path \in DOMAIN scan.parsed : c = FileClaim(scan, path)
         \/ \E symbol \in Range(AllSymbols(scan.parsed)) : c \in SymbolClaims(scan, symbol)
         \/ \E mapping \in MapTests(FileNodes(scan.parsed)) : c = TestMappingClaim(scan, mapping)
         \/ \E doc \in scan.docs : c \in DocClaims(scan, doc)
<1>. DEFINE files == {FileClaim(scan, p) : p \in DOMAIN scan.parsed}
            symbols == UNION {SymbolClaims(scan, s) : s \in Range(AllSymbols(scan.parsed))}
            tests == {TestMappingClaim(scan, m) : m \in MapTests(FileNodes(scan.parsed))}
            docs == UNION {DocClaims(scan, doc) : doc \in scan.docs}
<1>1. Claims(scan) = files \cup symbols \cup tests \cup docs
  BY Zenon DEF Claims
<1>2. c \in files \/ c \in symbols \/ c \in tests \/ c \in docs
  <2>. HIDE DEF files, symbols, tests, docs
  <2>. QED  BY <1>1
<1>3. c \in files => \E path \in DOMAIN scan.parsed : c = FileClaim(scan, path)
  OBVIOUS
<1>4. c \in symbols => \E symbol \in Range(AllSymbols(scan.parsed)) : c \in SymbolClaims(scan, symbol)
  BY Zenon
<1>5. c \in tests =>
          \E mapping \in MapTests(FileNodes(scan.parsed)) : c = TestMappingClaim(scan, mapping)
  BY Zenon
<1>6. c \in docs => \E doc \in scan.docs : c \in DocClaims(scan, doc)
  BY Zenon
<1>. HIDE DEF files, symbols, tests, docs
<1>. QED  BY <1>2, <1>3, <1>4, <1>5, <1>6

\* The other way round.
LEMMA ClaimsCover ==
  ASSUME NEW scan
  PROVE  /\ \A path \in DOMAIN scan.parsed : FileClaim(scan, path) \in Claims(scan)
         /\ \A doc \in scan.docs : DocClaims(scan, doc) \subseteq Claims(scan)
<1>. DEFINE files == {FileClaim(scan, p) : p \in DOMAIN scan.parsed}
            symbols == UNION {SymbolClaims(scan, s) : s \in Range(AllSymbols(scan.parsed))}
            tests == {TestMappingClaim(scan, m) : m \in MapTests(FileNodes(scan.parsed))}
            docs == UNION {DocClaims(scan, doc) : doc \in scan.docs}
<1>1. Claims(scan) = files \cup symbols \cup tests \cup docs
  BY Zenon DEF Claims
<1>2. files \subseteq Claims(scan) /\ docs \subseteq Claims(scan)
  <2>. HIDE DEF files, symbols, tests, docs
  <2>. QED  BY <1>1
<1>. QED  BY <1>2

LEMMA SpanKinds ==
  ASSUME NEW scan
  PROVE  /\ \A path \in DOMAIN scan.parsed : WholeSpan(FileSource(scan, path)) \in Spans(scan)
         /\ \A symbol \in Range(AllSymbols(scan.parsed)) : SymbolSpan(scan, symbol) \in Spans(scan)
         /\ \A doc \in scan.docs : WholeSpan(DocSource(scan, doc)) \in Spans(scan)
<1>. DEFINE files == {WholeSpan(FileSource(scan, p)) : p \in DOMAIN scan.parsed}
            symbols == {SymbolSpan(scan, s) : s \in Range(AllSymbols(scan.parsed))}
            docs == {WholeSpan(DocSource(scan, doc)) : doc \in scan.docs}
<1>1. Spans(scan) = files \cup symbols \cup docs
  BY Zenon DEF Spans
<1>2. files \subseteq Spans(scan) /\ symbols \subseteq Spans(scan) /\ docs \subseteq Spans(scan)
  <2>. HIDE DEF files, symbols, docs
  <2>. QED  BY <1>1
<1>. QED  BY <1>2

LEMMA ClaimsAreSupported ==
  ASSUME NEW scan, NEW c \in Claims(scan)
  PROVE  /\ c.span \in Spans(scan)
         /\ c.security = "blocked" => c.status = "quarantined"
         /\ c.method = "semantic" => c.status # "approved"
<1>1. CASE \E path \in DOMAIN scan.parsed : c = FileClaim(scan, path)
  BY <1>1, FileClaimForm, SpanKinds DEF IsFileClaim
<1>2. CASE \E symbol \in Range(AllSymbols(scan.parsed)) : c \in SymbolClaims(scan, symbol)
  BY <1>2, SymbolClaimForm, SpanKinds
<1>3. CASE \E mapping \in MapTests(FileNodes(scan.parsed)) : c = TestMappingClaim(scan, mapping)
  BY <1>3, TestMappingForm, MappedSource, SpanKinds
<1>4. CASE \E doc \in scan.docs : c \in DocClaims(scan, doc)
  BY <1>4, DocClaimForm, SpanKinds DEF IsDocClaim
<1>. QED  BY <1>1, <1>2, <1>3, <1>4, ClaimKinds

LEMMA ScanTableIs ==
  ASSUME NEW made \in ScanInputs
  PROVE  ScanTable[made] = SavedOf(made)
<1>. DEFINE table == [m \in ScanInputs |-> SavedOf(m)]
<1>. HIDE DEF table
<1>1. ScanTable = CHOOSE t \in {table} : t = t
  BY DEF ScanTable, table
<1>2. ScanTable = table
  BY <1>1
<1>. QED  BY <1>2 DEF table

LEMMA ScanTableClaims ==
  \A made \in ScanInputs : ScanTable[made].claims = Claims(ScanOf(made))
<1>1. \A made : SavedOf(made).claims = Claims(ScanOf(made))
  BY DEF SavedOf
<1>. QED  BY <1>1, ScanTableIs

\* The evaluation of a scan cannot fail, whatever was read and when.
LEMMA EveryScanPasses == ScanInputs \subseteq PassingScans
<1>1. ASSUME NEW made \in ScanInputs PROVE Passes(ScanTable[made])
  <2>. DEFINE saved == SavedOf(made)
              wrong == {c \in saved.claims : c.span \notin saved.spans}
              leaked == {c \in saved.claims : c.security = "blocked" /\ c.status # "quarantined"}
              promoted == {c \in saved.claims : c.method = "semantic" /\ c.status = "approved"}
  <2>1. saved.claims = Claims(ScanOf(made)) /\ saved.spans = Spans(ScanOf(made))
    BY DEF SavedOf
  <2>2. wrong = {} /\ leaked = {} /\ promoted = {}
    BY <2>1, ClaimsAreSupported
  <2>3. Cardinality(wrong) = 0 /\ Cardinality(leaked) = 0 /\ Cardinality(promoted) = 0
    <3>1. Cardinality({}) = 0
      BY FS_EmptySet
    <3>. HIDE DEF wrong, leaked, promoted
    <3>. QED  BY <2>2, <3>1
  <2>4. Passes(saved) <=> Cardinality(wrong) = 0 /\ Cardinality(leaked) = 0 /\ Cardinality(promoted) = 0
    <3>. HIDE DEF saved
    <3>. QED  BY DEF Passes, Validate
  <2>. HIDE DEF wrong, leaked, promoted
  <2>. QED  BY <2>3, <2>4, ScanTableIs
<1>. QED  BY <1>1 DEF PassingScans

-----------------------------------------------------------------------------
(* What a claim is known by *)

LEMMA SourceForm ==
  ASSUME NEW type, NEW path, NEW text, NEW commit
  PROVE  LET source == WholeSpan(Source(type, path, text, commit)).source
         IN  source.path = path /\ source.content = Content(text)
  BY DEF Source, WholeSpan, Span

LEMMA FileSourceForm ==
  ASSUME NEW scan, NEW path
  PROVE  /\ WholeSpan(FileSource(scan, path)).source.path = path
         /\ WholeSpan(FileSource(scan, path)).source.content = Content(scan.read[path])
  BY SourceForm DEF FileSource

LEMMA DocSourceForm ==
  ASSUME NEW scan, NEW doc
  PROVE  /\ WholeSpan(DocSource(scan, doc)).source.path = doc.path
         /\ WholeSpan(DocSource(scan, doc)).source.content = Content(doc.text)
  BY SourceForm DEF DocSource

\* A claim about the language of a file is the only one of its relation.
LEMMA LanguageClaim ==
  ASSUME NEW scan, NEW c \in Claims(scan), c.relation.type = "has_language"
  PROVE  \E path \in DOMAIN scan.parsed : c = FileClaim(scan, path)
<1>1. ~\E symbol \in Range(AllSymbols(scan.parsed)) : c \in SymbolClaims(scan, symbol)
  BY SymbolClaimForm
<1>2. ~\E mapping \in MapTests(FileNodes(scan.parsed)) : c = TestMappingClaim(scan, mapping)
  BY TestMappingForm
<1>3. ~\E doc \in scan.docs : c \in DocClaims(scan, doc)
  BY DocClaimForm DEF IsDocClaim, DocRelations
<1>. QED  BY <1>1, <1>2, <1>3, ClaimKinds

\* Only documents have claims of their relations.
LEMMA DocumentClaim ==
  ASSUME NEW scan, NEW c \in Claims(scan), c.relation.type \in DocRelations
  PROVE  \E doc \in scan.docs : IsDocClaim(scan, c, doc)
<1>1. ~\E path \in DOMAIN scan.parsed : c = FileClaim(scan, path)
  BY FileClaimForm DEF DocRelations
<1>2. ~\E symbol \in Range(AllSymbols(scan.parsed)) : c \in SymbolClaims(scan, symbol)
  BY SymbolClaimForm DEF DocRelations
<1>3. ~\E mapping \in MapTests(FileNodes(scan.parsed)) : c = TestMappingClaim(scan, mapping)
  BY TestMappingForm DEF DocRelations
<1>. QED  BY <1>1, <1>2, <1>3, ClaimKinds, DocClaimForm

\* Whose claims are all known to another scan, that scan has its texts.
LEMMA KnownClaims ==
  ASSUME NEW now, NEW before,
         \A c \in Claims(now) : \E b \in Claims(before) : ClaimId(b) = ClaimId(c)
  PROVE  /\ \A path \in DOMAIN now.parsed :
                path \in DOMAIN before.parsed /\ Content(now.read[path]) = Content(before.read[path])
         /\ \A doc \in now.docs : \E other \in before.docs :
                other.path = doc.path /\ Content(other.text) = Content(doc.text)
<1>1. \A c \in Claims(now) : \E b \in Claims(before) : b.relation = c.relation /\ b.span = c.span
  BY DEF ClaimId
<1>2. ASSUME NEW path \in DOMAIN now.parsed
      PROVE  path \in DOMAIN before.parsed /\ Content(now.read[path]) = Content(before.read[path])
  <2>. DEFINE c == FileClaim(now, path)
  <2>1. /\ c \in Claims(now) /\ c.relation.type = "has_language"
        /\ c.span = WholeSpan(FileSource(now, path))
    <3>1. c \in Claims(now)
      BY ClaimsCover
    <3>. HIDE DEF c
    <3>2. c = FileClaim(now, path)
      BY DEF c
    <3>. QED  BY <3>1, <3>2, FileClaimForm DEF IsFileClaim
  <2>. HIDE DEF c
  <2>2. PICK b \in Claims(before) : b.relation = c.relation /\ b.span = c.span
    BY <1>1, <2>1
  <2>3. PICK other \in DOMAIN before.parsed : b = FileClaim(before, other)
    BY <2>1, <2>2, LanguageClaim
  <2>4. b.span = WholeSpan(FileSource(before, other))
    BY <2>3, FileClaimForm DEF IsFileClaim
  <2>5. WholeSpan(FileSource(now, path)) = WholeSpan(FileSource(before, other))
    BY <2>1, <2>2, <2>4
  <2>6. path = other
    BY <2>5, FileSourceForm
  <2>7. Content(now.read[path]) = Content(before.read[other])
    BY <2>5, FileSourceForm
  <2>. QED  BY <2>6, <2>7
<1>3. ASSUME NEW doc \in now.docs
      PROVE  \E other \in before.docs : other.path = doc.path /\ Content(other.text) = Content(doc.text)
  <2>1. PICK c \in DocClaims(now, doc) : TRUE
    BY DEF DocClaims
  <2>2. c \in Claims(now)
    BY ClaimsCover
  <2>3. IsDocClaim(now, c, doc)
    BY DocClaimForm
  <2>4. PICK b \in Claims(before) : b.relation = c.relation /\ b.span = c.span
    BY <1>1, <2>2
  <2>5. PICK other \in before.docs : IsDocClaim(before, b, other)
    BY <2>3, <2>4, DocumentClaim DEF IsDocClaim
  <2>6. WholeSpan(DocSource(now, doc)) = WholeSpan(DocSource(before, other))
    BY <2>3, <2>4, <2>5 DEF IsDocClaim
  <2>7. doc.path = other.path
    BY <2>6, DocSourceForm
  <2>8. Content(doc.text) = Content(other.text)
    BY <2>6, DocSourceForm
  <2>. QED  BY <2>7, <2>8
<1>. QED  BY <1>2, <1>3

LEMMA KnownTexts ==
  ASSUME NEW s \in ScanInputs, NEW t \in ScanInputs,
         Diff(ScanTable[s].claims, ScanTable[t].claims).added = {}
  PROVE  /\ \A p \in DOMAIN s.read : /\ p \in DOMAIN t.read
                                     /\ Content(TextOf(s.read[p])) = Content(TextOf(t.read[p]))
         /\ DocTexts(s) \subseteq DocTexts(t)
<1>1. ScanTable[s].claims = Claims(ScanOf(s)) /\ ScanTable[t].claims = Claims(ScanOf(t))
  BY ScanTableClaims
<1>2. \A c \in Claims(ScanOf(s)) : \E b \in Claims(ScanOf(t)) : ClaimId(b) = ClaimId(c)
  <2>1. \A now, before : Diff(now, before).added = {} =>
            \A c \in now : \E b \in before : ClaimId(b) = ClaimId(c)
    BY DEF Diff
  <2>. QED  BY <1>1, <2>1
<1>3. \A m \in ScanInputs : /\ DOMAIN m.parsed = DOMAIN m.read
                            /\ DOMAIN ScanOf(m).parsed = DOMAIN m.read
                            /\ \A p \in DOMAIN m.read : ScanOf(m).read[p] = TextOf(m.read[p])
                            /\ ScanOf(m).docs = {Doc[d] : d \in m.docs}
  BY DEF ScanInputs, ScanOf, Texts
<1>. DEFINE now == ScanOf(s)
            before == ScanOf(t)
<1>4. /\ \A path \in DOMAIN now.parsed :
             path \in DOMAIN before.parsed /\ Content(now.read[path]) = Content(before.read[path])
      /\ \A doc \in now.docs : \E other \in before.docs :
             other.path = doc.path /\ Content(other.text) = Content(doc.text)
  BY <1>2, KnownClaims
<1>5. ASSUME NEW p \in DOMAIN s.read
      PROVE  p \in DOMAIN t.read /\ Content(TextOf(s.read[p])) = Content(TextOf(t.read[p]))
  BY <1>3, <1>4
<1>6. ASSUME NEW d \in s.docs
      PROVE  <<Doc[d].path, Content(Doc[d].text)>> \in DocTexts(t)
  <2>1. PICK other \in before.docs :
            other.path = Doc[d].path /\ Content(other.text) = Content(Doc[d].text)
    BY <1>3, <1>4
  <2>2. PICK e \in t.docs : other = Doc[e]
    BY <1>3
  <2>. QED  BY <2>1, <2>2 DEF DocTexts
<1>. QED  BY <1>5, <1>6 DEF DocTexts

\* Two scans with the same claims saw the same texts.
LEMMA SameClaims ==
  ASSUME NEW s \in ScanInputs, NEW t \in ScanInputs,
         Diff(ScanTable[s].claims, ScanTable[t].claims).added = {},
         Diff(ScanTable[s].claims, ScanTable[t].claims).removed = {}
  PROVE  /\ DOMAIN s.read = DOMAIN t.read
         /\ \A p \in DOMAIN s.read : Content(TextOf(s.read[p])) = Content(TextOf(t.read[p]))
         /\ DocTexts(s) = DocTexts(t)
<1>1. \A now, before : Diff(before, now).added = Diff(now, before).removed
  BY DEF Diff
<1>2. Diff(ScanTable[t].claims, ScanTable[s].claims).added = {}
  BY <1>1
<1>3. /\ \A p \in DOMAIN s.read : /\ p \in DOMAIN t.read
                                 /\ Content(TextOf(s.read[p])) = Content(TextOf(t.read[p]))
      /\ DocTexts(s) \subseteq DocTexts(t)
  BY KnownTexts
<1>4. (\A p \in DOMAIN t.read : p \in DOMAIN s.read) /\ DocTexts(t) \subseteq DocTexts(s)
  BY <1>2, KnownTexts
<1>5. DOMAIN s.read = DOMAIN t.read
  BY <1>3, <1>4
<1>. QED  BY <1>3, <1>4, <1>5

-----------------------------------------------------------------------------
(* Documents and their chunks *)

LEMMA OccurrencesNat ==
  ASSUME NEW text, IsSeq(text), NEW term
  PROVE  Occurrences(text, term) \in Nat
<1>1. IsFiniteSet(DOMAIN text)
  <2>1. DOMAIN text = 1..Len(text) /\ Len(text) \in Nat
    BY DEF IsSeq
  <2>. QED  BY <2>1, FS_Interval
<1>2. IsFiniteSet({i \in DOMAIN text : text[i] = term})
  BY <1>1, FS_Subset
<1>. QED  BY <1>2, FS_CardinalityType DEF Occurrences

LEMMA ChunkScoreNat ==
  ASSUME NEW chunk, IsSeq(chunk.title), IsSeq(chunk.words), NEW query, IsSeq(query)
  PROVE  ChunkScore(chunk, query) \in Nat
<1>. DEFINE f == [i \in DOMAIN query |-> 3 * Occurrences(chunk.title, query[i])
                                            + Occurrences(chunk.words, query[i])]
<1>1. IsFiniteSet(DOMAIN f)
  <2>1. DOMAIN query = 1..Len(query) /\ Len(query) \in Nat
    BY DEF IsSeq
  <2>. QED  BY <2>1, FS_Interval
<1>2. \A i \in DOMAIN f : f[i] \in Nat
  <2>1. ASSUME NEW i \in DOMAIN query PROVE f[i] \in Nat
    <3>1. Occurrences(chunk.title, query[i]) \in Nat /\ Occurrences(chunk.words, query[i]) \in Nat
      BY OccurrencesNat
    <3>. QED  BY <3>1
  <2>. QED  BY <2>1
<1>3. ChunkScore(chunk, query) = FoldFunction(+, 0, f)
  BY DEF ChunkScore
<1>. HIDE DEF f
<1>. QED  BY <1>1, <1>2, <1>3, ScoreIsNat

IsDocument(doc) == IsSeq(doc.text.lines) /\ \A n \in DOMAIN doc.text.lines : IsSeq(doc.text.lines[n].name)

IsChunk(chunk) == IsSeq(chunk.title) /\ IsSeq(chunk.words)

LEMMA LineWordsFacts ==
  ASSUME NEW lines, IsSeq(lines), \A n \in DOMAIN lines : IsSeq(lines[n].name)
  PROVE  IsSeq(LineWords(lines))
<1>. DEFINE names == [n \in DOMAIN lines |-> lines[n].name]
<1>1. DOMAIN names = 1..Len(lines) /\ Len(lines) \in Nat /\ IsFunction(names)
  BY DEF IsSeq, IsFunction
<1>2. \A n \in DOMAIN names : IsSeq(names[n])
  OBVIOUS
<1>3. LineWords(lines) = FlattenSeq(names)
  BY DEF LineWords
<1>. HIDE DEF names
<1>4. IsSeq(names)
  BY <1>1, MadeSeq
<1>. QED  BY <1>2, <1>3, <1>4, FlattenIsSeq

LEMMA SectionFacts ==
  ASSUME NEW lines, IsSeq(lines), \A n \in DOMAIN lines : IsSeq(lines[n].name),
         NEW first \in DOMAIN lines, NEW last \in Nat, last <= Len(lines)
  PROVE  IsSeq(LineWords(SubSeq(lines, first, last)))
<1>. DEFINE part == SubSeq(lines, first, last)
            Named == {line \in Range(lines) : IsSeq(line.name)}
<1>1. DOMAIN lines = 1..Len(lines) /\ Len(lines) \in Nat /\ first \in Nat /\ 1 <= first
  BY DEF IsSeq
<1>2. \A n \in first..last : lines[n] \in Named
  BY <1>1 DEF Range
<1>. HIDE DEF Named
<1>3. part \in Seq(Named)
  BY <1>1, <1>2, SubSeqProperties
<1>. HIDE DEF part
<1>4. IsSeq(part) /\ Range(part) \subseteq Named
  BY <1>3, SeqOver
<1>5. \A n \in DOMAIN part : IsSeq(part[n].name)
  BY <1>4 DEF Range, Named
<1>6. IsSeq(LineWords(part))
  BY <1>4, <1>5, LineWordsFacts
<1>. QED  BY <1>6 DEF part

LEMMA ChunksFacts ==
  ASSUME NEW doc, IsDocument(doc)
  PROVE  IsSeq(Chunks(doc)) /\ \A c \in Range(Chunks(doc)) : IsChunk(c)
<1>. DEFINE lines == doc.text.lines
            headings == {n \in DOMAIN lines : lines[n].kind = "heading"}
            positions == [n \in DOMAIN lines |-> n]
            starts == Filtered(positions, headings)
            End(i) == IF i = Len(starts) THEN Len(lines) ELSE starts[i + 1] - 1
            whole == [doc |-> doc, title |-> <<"untitled">>, words |-> LineWords(lines)]
            sections == [i \in DOMAIN starts |->
                            [doc |-> doc, title |-> lines[starts[i]].name,
                             words |-> LineWords(SubSeq(lines, starts[i], End(i)))]]
<1>1. IsSeq(lines) /\ \A n \in DOMAIN lines : IsSeq(lines[n].name)
  BY DEF IsDocument
<1>2. DOMAIN lines = 1..Len(lines) /\ Len(lines) \in Nat
  BY <1>1 DEF IsSeq
<1>3. Chunks(doc) = IF starts = <<>> THEN <<whole>> ELSE sections
  BY DEF Chunks
<1>4. IsChunk(whole)
  BY <1>1, LineWordsFacts, OneSeq DEF IsChunk
<1>5. IsSeq(positions) /\ DOMAIN positions = DOMAIN lines
  <2>1. DOMAIN positions = 1..Len(lines) /\ IsFunction(positions)
    BY <1>2 DEF IsFunction
  <2>. HIDE DEF positions, lines
  <2>. QED  BY <1>2, <2>1, MadeSeq
<1>6. IsSeq(starts) /\ Range(starts) = {positions[i] : i \in headings}
  <2>1. headings \in SUBSET (DOMAIN positions)
    BY <1>5
  <2>. HIDE DEF positions, headings
  <2>. QED  BY <1>5, <2>1, FilteredFacts
<1>7. Range(starts) \subseteq DOMAIN lines
  <2>1. \A i \in headings : positions[i] \in DOMAIN lines
    OBVIOUS
  <2>. HIDE DEF positions, headings, lines
  <2>. QED  BY <1>6, <2>1
<1>. HIDE DEF whole, starts, lines
<1>8. DOMAIN starts = 1..Len(starts) /\ Len(starts) \in Nat /\ \A i \in DOMAIN starts : starts[i] \in DOMAIN lines
  BY <1>6, <1>7 DEF IsSeq, Range
<1>9. ASSUME NEW i \in DOMAIN starts PROVE IsChunk(sections[i])
  <2>1. End(i) \in Nat /\ End(i) <= Len(lines)
    <3>1. CASE i = Len(starts)
      BY <1>2, <3>1
    <3>2. CASE i # Len(starts)
      <4>1. i + 1 \in DOMAIN starts
        BY <1>8, <3>2
      <4>2. starts[i + 1] \in Nat /\ starts[i + 1] >= 1 /\ starts[i + 1] <= Len(lines)
        BY <1>2, <1>8, <4>1
      <4>. QED  BY <1>2, <3>2, <4>2
    <3>. QED  BY <3>1, <3>2
  <2>2. starts[i] \in DOMAIN lines
    BY <1>8
  <2>. HIDE DEF End
  <2>3. IsSeq(LineWords(SubSeq(lines, starts[i], End(i))))
    BY <1>1, <2>1, <2>2, SectionFacts
  <2>4. IsSeq(lines[starts[i]].name)
    BY <1>1, <2>2
  <2>. QED  BY <2>3, <2>4 DEF IsChunk
<1>10. IsSeq(sections) /\ DOMAIN sections = DOMAIN starts
  <2>1. DOMAIN sections = 1..Len(starts) /\ IsFunction(sections)
    BY <1>8 DEF IsFunction
  <2>. HIDE DEF sections
  <2>. QED  BY <1>8, <2>1, MadeSeq
<1>11. \A c \in Range(sections) : IsChunk(c)
  <2>. HIDE DEF sections
  <2>. QED  BY <1>9, <1>10 DEF Range
<1>. HIDE DEF sections
<1>. QED  BY <1>3, <1>4, <1>10, <1>11, OneSeq

LEMMA LoadForPackFacts ==
  ASSUME NEW pack, IsSeq(pack), NEW docs, IsSeq(docs)
  PROVE  IsSeq(LoadForPack(pack, docs)) /\ Range(LoadForPack(pack, docs)) \subseteq Range(docs)
<1>. DEFINE Under(i) == {d \in DOMAIN docs : IsPrefix(pack[i], docs[d].path.dirs)}
            parts == [i \in DOMAIN pack |-> Filtered(docs, Under(i))]
<1>1. ASSUME NEW i \in DOMAIN pack PROVE IsSeq(parts[i]) /\ Range(parts[i]) \subseteq Range(docs)
  <2>1. Under(i) \in SUBSET (DOMAIN docs)
    OBVIOUS
  <2>2. parts[i] = Filtered(docs, Under(i))
    OBVIOUS
  <2>. HIDE DEF parts, Under
  <2>3. IsSeq(parts[i]) /\ Range(parts[i]) = {docs[d] : d \in Under(i)}
    BY <2>1, <2>2, FilteredFacts
  <2>. QED  BY <2>1, <2>3 DEF Range
<1>2. LoadForPack(pack, docs) = FlattenSeq(parts)
  BY DEF LoadForPack
<1>3. IsSeq(parts) /\ DOMAIN parts = DOMAIN pack
  <2>1. DOMAIN parts = 1..Len(pack) /\ Len(pack) \in Nat /\ IsFunction(parts) /\ DOMAIN parts = DOMAIN pack
    BY DEF IsSeq, IsFunction
  <2>. HIDE DEF parts
  <2>. QED  BY <2>1, MadeSeq
<1>. HIDE DEF parts
<1>4. IsSeq(FlattenSeq(parts)) /\ Range(FlattenSeq(parts)) = UNION {Range(parts[i]) : i \in DOMAIN parts}
  BY <1>1, <1>3, FlattenIsSeq
<1>. QED  BY <1>1, <1>2, <1>3, <1>4

AllChunks(docs) == FlattenSeq([i \in DOMAIN docs |-> Chunks(docs[i])])

LEMMA AllChunksFacts ==
  ASSUME NEW docs, IsSeq(docs), \A i \in DOMAIN docs : IsDocument(docs[i])
  PROVE  IsSeq(AllChunks(docs)) /\ \A c \in Range(AllChunks(docs)) : IsChunk(c)
<1>. DEFINE parts == [i \in DOMAIN docs |-> Chunks(docs[i])]
<1>1. \A i \in DOMAIN docs : IsSeq(parts[i]) /\ \A c \in Range(parts[i]) : IsChunk(c)
  BY ChunksFacts
<1>2. AllChunks(docs) = FlattenSeq(parts)
  BY DEF AllChunks
<1>3. IsSeq(parts) /\ DOMAIN parts = DOMAIN docs
  <2>1. DOMAIN parts = 1..Len(docs) /\ Len(docs) \in Nat /\ IsFunction(parts) /\ DOMAIN parts = DOMAIN docs
    BY DEF IsSeq, IsFunction
  <2>. HIDE DEF parts
  <2>. QED  BY <2>1, MadeSeq
<1>. HIDE DEF parts
<1>4. IsSeq(FlattenSeq(parts)) /\ Range(FlattenSeq(parts)) = UNION {Range(parts[i]) : i \in DOMAIN parts}
  BY <1>1, <1>3, FlattenIsSeq
<1>. QED  BY <1>1, <1>2, <1>3, <1>4

LEMMA SearchScoredFacts ==
  ASSUME NEW chunks, IsSeq(chunks), \A c \in Range(chunks) : IsChunk(c), NEW query, IsSeq(query),
         NEW app, NEW component, NEW k \in Nat
  PROVE  LET results == SearchScored(chunks, query, app, component, k)
         IN  IsSeq(results) /\ \A r \in Range(results) : r.score \in Nat
<1>. DEFINE score == [i \in DOMAIN chunks |-> ChunkScore(chunks[i], query)]
            found == {i \in DOMAIN chunks : score[i] > 0 /\ MetadataMatches(chunks[i].doc, app, component)}
            results == [i \in found |-> [chunk |-> chunks[i], score |-> score[i]]]
            order == Ranked(found, score)
            all == Arrange(results, order)
<1>1. DOMAIN chunks = 1..Len(chunks) /\ Len(chunks) \in Nat
  BY DEF IsSeq
<1>2. \A i \in DOMAIN chunks : score[i] \in Nat
  <2>1. \A i \in DOMAIN chunks : IsChunk(chunks[i])
    BY DEF Range
  <2>. QED  BY <2>1, ChunkScoreNat DEF IsChunk
<1>3. found \in SUBSET (DOMAIN chunks)
  OBVIOUS
<1>4. \A i \in found : results[i].score = score[i]
  OBVIOUS
<1>5. SearchScored(chunks, query, app, component, k) = Top(all, k)
  BY DEF SearchScored
<1>. HIDE DEF found, score, results
<1>6. found \in SUBSET Nat /\ IsFiniteSet(found)
  <2>1. IsFiniteSet(DOMAIN chunks)
    BY <1>1, FS_Interval
  <2>. QED  BY <1>1, <1>3, <2>1, FS_Subset
<1>7. IsSeq(order) /\ Range(order) = found
  <2>1. \A i \in found : score[i] \in Int
    BY <1>2, <1>3
  <2>. QED  BY <1>6, <2>1, RankedFacts
<1>. HIDE DEF order
<1>8. IsSeq(all) /\ Range(all) = {results[i] : i \in Range(order)}
  BY <1>7, ArrangeFacts
<1>. HIDE DEF all
<1>9. \A r \in Range(all) : r.score \in Nat
  BY <1>2, <1>3, <1>4, <1>7, <1>8
<1>10. IsSeq(Top(all, k)) /\ Range(Top(all, k)) \subseteq Range(all)
  BY <1>8, TopFacts
<1>. QED  BY <1>5, <1>9, <1>10

-----------------------------------------------------------------------------
(* Evidence *)

IsEvidence(evidence) == IsSeq(evidence) /\ \A item \in Range(evidence) : item.relevance \in Int

LEMMA NoEvidence == IsEvidence(<<>>)
  BY EmptyIsSeq DEF IsEvidence

LEMMA EvidenceJoins ==
  ASSUME NEW s, NEW t, IsEvidence(s), IsEvidence(t)
  PROVE  IsEvidence(s \o t)
<1>1. IsSeq(s \o t) /\ Range(s \o t) = Range(s) \cup Range(t)
  BY ConcatFacts DEF IsEvidence
<1>. QED  BY <1>1 DEF IsEvidence

LEMMA EvidenceFlattens ==
  ASSUME NEW parts, NEW n \in Nat, DOMAIN parts = 1..n, IsFunction(parts), \A i \in 1..n : IsEvidence(parts[i])
  PROVE  IsEvidence(FlattenSeq(parts))
<1>1. IsSeq(parts)
  BY MadeSeq
<1>2. \A i \in DOMAIN parts : IsSeq(parts[i])
  BY DEF IsEvidence
<1>3. /\ IsSeq(FlattenSeq(parts))
      /\ Range(FlattenSeq(parts)) = UNION {Range(parts[i]) : i \in DOMAIN parts}
  BY <1>1, <1>2, FlattenIsSeq
<1>. QED  BY <1>3 DEF IsEvidence

LEMMA EvidenceMade ==
  ASSUME NEW e, NEW n \in Nat, DOMAIN e = 1..n, IsFunction(e), \A i \in 1..n : e[i].relevance \in Int
  PROVE  IsEvidence(e)
<1>1. IsSeq(e)
  BY MadeSeq
<1>2. \A item \in Range(e) : item.relevance \in Int
  BY DEF Range
<1>. QED  BY <1>1, <1>2 DEF IsEvidence

LEMMA WeightNat == ASSUME NEW i \in Nat PROVE Weight(i) \in Nat
  BY DEF Weight

LEMMA KnowledgeEvidenceFacts ==
  ASSUME NEW results, IsSeq(results), \A r \in Range(results) : r.score \in Nat, NEW i \in Nat
  PROVE  IsEvidence(KnowledgeEvidence(results, i))
<1>. DEFINE e == KnowledgeEvidence(results, i)
<1>1. DOMAIN results = 1..Len(results) /\ Len(results) \in Nat
  BY DEF IsSeq
<1>2. DOMAIN e = 1..Len(results) /\ IsFunction(e)
  BY <1>1 DEF KnowledgeEvidence, IsFunction
<1>3. ASSUME NEW r \in DOMAIN results PROVE e[r].relevance \in Int
  <2>1. results[r].score \in Nat /\ Weight(i) \in Nat /\ r \in Nat
    BY <1>1, WeightNat DEF Range
  <2>2. e[r].relevance = 100 * (Weight(i) + results[r].score) - (r - 1)
    BY DEF KnowledgeEvidence, Item
  <2>. QED  BY <2>1, <2>2
<1>. HIDE DEF e
<1>4. IsEvidence(e)
  BY <1>1, <1>2, <1>3, EvidenceMade
<1>. QED  BY <1>4 DEF e

LEMMA CodeEvidenceFacts ==
  ASSUME NEW results, IsSeq(results), \A r \in Range(results) : r.score \in Int, NEW i \in Nat
  PROVE  IsEvidence(CodeEvidence(results, i))
<1>. DEFINE e == CodeEvidence(results, i)
<1>1. DOMAIN results = 1..Len(results) /\ Len(results) \in Nat
  BY DEF IsSeq
<1>2. DOMAIN e = 1..Len(results) /\ IsFunction(e)
  BY <1>1 DEF CodeEvidence, IsFunction
<1>3. ASSUME NEW r \in DOMAIN results PROVE e[r].relevance \in Int
  <2>1. results[r].score \in Int /\ Weight(i) \in Nat
    BY WeightNat DEF Range
  <2>2. e[r].relevance = 100 * (Weight(i) + results[r].score)
    BY DEF CodeEvidence, Item
  <2>. QED  BY <2>1, <2>2
<1>. HIDE DEF e
<1>4. IsEvidence(e)
  BY <1>1, <1>2, <1>3, EvidenceMade
<1>. QED  BY <1>4 DEF e

LEMMA GraphEvidenceFacts ==
  ASSUME NEW results, IsSeq(results), \A r \in Range(results) : r.score \in Int
  PROVE  IsEvidence(GraphEvidence(results))
<1>. DEFINE e == GraphEvidence(results)
<1>1. DOMAIN results = 1..Len(results) /\ Len(results) \in Nat
  BY DEF IsSeq
<1>2. DOMAIN e = 1..Len(results) /\ IsFunction(e)
  BY <1>1 DEF GraphEvidence, IsFunction
<1>3. ASSUME NEW r \in DOMAIN results PROVE e[r].relevance \in Int
  <2>1. results[r].score \in Int
    BY DEF Range
  <2>2. e[r].relevance = 100 * (IF results[r].score > 25 THEN 25 ELSE results[r].score)
    BY DEF GraphEvidence, Item
  <2>. QED  BY <2>1, <2>2
<1>. HIDE DEF e
<1>4. IsEvidence(e)
  BY <1>1, <1>2, <1>3, EvidenceMade
<1>. QED  BY <1>4 DEF e

LEMMA FourFacts ==
  ASSUME NEW a, NEW b, NEW c, NEW d
  PROVE  /\ IsSeq(<<a, b, c, d>>)
         /\ \A x \in Range(<<a, b, c, d>>) : x = a \/ x = b \/ x = c \/ x = d
<1>1. <<a, b, c, d>> \in Seq({a, b, c, d})
  OBVIOUS
<1>2. IsSeq(<<a, b, c, d>>) /\ Range(<<a, b, c, d>>) \subseteq {a, b, c, d}
  <2>. DEFINE s == <<a, b, c, d>>
  <2>1. s \in Seq({a, b, c, d})
    BY <1>1
  <2>. HIDE DEF s
  <2>2. IsSeq(s) /\ Range(s) \subseteq {a, b, c, d}
    BY <2>1, SeqOver
  <2>. QED  BY <2>2 DEF s
<1>. QED  BY <1>2

LEMMA JobQueriesAreSeqs ==
  /\ IsSeq(JobKnowledgeQueries) /\ \A q \in Range(JobKnowledgeQueries) : IsSeq(q)
  /\ IsSeq(JobCodeQueries)
<1>. DEFINE a == <<"execution", "status", "async", "tracking", "polling", "status", "stuck", "running">>
            b == <<"inc", "103", "dfp", "101", "dfp", "109", "pr", "502", "pr", "505", "status", "tracker",
                   "persistence">>
            c == <<"job", "lifecycle", "execution", "model", "status", "tracking", "design">>
            d == <<"status", "transition", "test", "plan", "execution", "monitor", "auto", "refresh">>
<1>1. IsFunction(a) /\ DOMAIN a = 1..8
  BY DEF IsFunction
<1>2. IsFunction(b) /\ DOMAIN b = 1..13
  BY DEF IsFunction
<1>3. IsFunction(c) /\ DOMAIN c = 1..7
  BY DEF IsFunction
<1>4. IsFunction(d) /\ DOMAIN d = 1..8
  BY DEF IsFunction
<1>5. JobKnowledgeQueries = <<a, b, c, d>>
  BY DEF JobKnowledgeQueries
<1>. HIDE DEF a, b, c, d
<1>6. IsSeq(a) /\ IsSeq(b) /\ IsSeq(c) /\ IsSeq(d)
  BY <1>1, <1>2, <1>3, <1>4, MadeSeq
<1>7. IsSeq(JobKnowledgeQueries) /\ \A q \in Range(JobKnowledgeQueries) : IsSeq(q)
  BY <1>5, <1>6, FourFacts
<1>8. IsSeq(JobCodeQueries)
  <2>1. IsFunction(JobCodeQueries) /\ DOMAIN JobCodeQueries = 1..2
    BY DEF JobCodeQueries, IsFunction
  <2>. QED  BY <2>1, MadeSeq
<1>. QED  BY <1>7, <1>8

LEMMA ExpandedFacts ==
  ASSUME NEW query, IsSeq(query), NEW more, IsSeq(more)
  PROVE  /\ IsSeq(Expanded(query, more)) /\ Range(Expanded(query, more)) \subseteq {query} \cup Range(more)
<1>. DEFINE rest == IF Range(query) \cap JobWords = {} THEN <<>> ELSE more
            asked == <<query>>
<1>1. IsSeq(rest) /\ Range(rest) \subseteq Range(more)
  BY EmptyIsSeq
<1>2. IsSeq(asked) /\ Range(asked) = {query}
  BY OneSeq
<1>3. Expanded(query, more) = asked \o rest
  BY DEF Expanded
<1>. HIDE DEF asked, rest
<1>4. IsSeq(asked \o rest) /\ Range(asked \o rest) = Range(asked) \cup Range(rest)
  BY <1>1, <1>2, ConcatFacts
<1>. QED  BY <1>1, <1>2, <1>3, <1>4

LEMMA SearchForm ==
  ASSUME NEW ask, IsSearch(ask)
  PROVE  /\ ask.k \in Nat /\ IsSeq(ask.pack) /\ IsSeq(ask.docs) /\ IsSeq(ask.query) /\ IsSeq(ask.graph)
         /\ \A doc \in Range(ask.docs) : IsDocument(doc)
         /\ \A i \in DOMAIN CodeQueries(ask.query) :
                IsSeq(ask.code[i]) /\ \A r \in Range(ask.code[i]) : r.score \in Int
         /\ \A r \in Range(ask.graph) : r.score \in Int
<1>1. \A doc \in Range(ask.docs) : IsDocument(doc)
  BY DEF IsSearch, IsSeq, IsDocument, Range
<1>. QED  BY <1>1 DEF IsSearch, IsSeq

LEMMA KnowledgeFacts ==
  ASSUME NEW ask, IsSearch(ask)
  PROVE  IsEvidence(Knowledge(ask))
<1>. DEFINE docs == LoadForPack(ask.pack, ask.docs)
            chunks == AllChunks(docs)
            queries == KnowledgeQueries(ask.query)
            Asked(i, app, component) ==
                KnowledgeEvidence(SearchScored(chunks, queries[i], app, component, ask.k), i)
            Both(i) ==
                Asked(i, ask.app, ask.component)
                   \o (IF ask.app = <<>> /\ ask.component = <<>> THEN <<>> ELSE Asked(i, <<>>, <<>>))
            parts == [i \in DOMAIN queries |-> Both(i)]
<1>1. Knowledge(ask) = FlattenSeq(parts)
  BY DEF Knowledge, AllChunks
<1>2. IsSeq(docs) /\ \A i \in DOMAIN docs : IsDocument(docs[i])
  <2>1. IsSeq(docs) /\ Range(docs) \subseteq Range(ask.docs)
    BY SearchForm, LoadForPackFacts
  <2>2. \A i \in DOMAIN docs : docs[i] \in Range(docs)
    BY DEF Range
  <2>. HIDE DEF docs
  <2>. QED  BY <2>1, <2>2, SearchForm
<1>. HIDE DEF docs
<1>3. IsSeq(chunks) /\ \A c \in Range(chunks) : IsChunk(c)
  BY <1>2, AllChunksFacts
<1>4. IsSeq(queries) /\ \A q \in Range(queries) : IsSeq(q)
  <2>1. IsSeq(queries) /\ Range(queries) \subseteq {ask.query} \cup Range(JobKnowledgeQueries)
    BY SearchForm, JobQueriesAreSeqs, ExpandedFacts DEF KnowledgeQueries
  <2>. HIDE DEF queries
  <2>. QED  BY <2>1, SearchForm, JobQueriesAreSeqs
<1>. HIDE DEF chunks, queries
<1>5. DOMAIN queries = 1..Len(queries) /\ Len(queries) \in Nat
  BY <1>4 DEF IsSeq
<1>6. ASSUME NEW i \in DOMAIN queries, NEW app, NEW component PROVE IsEvidence(Asked(i, app, component))
  <2>. DEFINE results == SearchScored(chunks, queries[i], app, component, ask.k)
  <2>1. IsSeq(queries[i]) /\ i \in Nat /\ ask.k \in Nat
    BY <1>4, <1>5, SearchForm DEF Range
  <2>2. IsSeq(results) /\ \A r \in Range(results) : r.score \in Nat
    BY <1>3, <2>1, SearchScoredFacts
  <2>. HIDE DEF results
  <2>3. IsEvidence(KnowledgeEvidence(results, i))
    BY <2>1, <2>2, KnowledgeEvidenceFacts
  <2>. QED  BY <2>3 DEF results
<1>. HIDE DEF Asked
<1>7. ASSUME NEW i \in DOMAIN queries PROVE IsEvidence(Both(i))
  <2>1. IsEvidence(Asked(i, ask.app, ask.component)) /\ IsEvidence(Asked(i, <<>>, <<>>))
    BY <1>6
  <2>. QED  BY <2>1, NoEvidence, EvidenceJoins
<1>. HIDE DEF Both
<1>8. DOMAIN parts = 1..Len(queries) /\ IsFunction(parts) /\ \A i \in 1..Len(queries) : IsEvidence(parts[i])
  BY <1>5, <1>7 DEF IsFunction
<1>. HIDE DEF parts
<1>. QED  BY <1>1, <1>5, <1>8, EvidenceFlattens

LEMMA CodeFacts ==
  ASSUME NEW ask, IsSearch(ask)
  PROVE  IsEvidence(FlattenSeq([i \in DOMAIN CodeQueries(ask.query) |-> CodeEvidence(ask.code[i], i)]))
<1>. DEFINE queries == CodeQueries(ask.query)
            parts == [i \in DOMAIN queries |-> CodeEvidence(ask.code[i], i)]
<1>1. DOMAIN queries = 1..Len(queries) /\ Len(queries) \in Nat
  <2>1. IsSeq(queries)
    BY SearchForm, JobQueriesAreSeqs, ExpandedFacts DEF CodeQueries
  <2>. HIDE DEF queries
  <2>. QED  BY <2>1 DEF IsSeq
<1>2. ASSUME NEW i \in DOMAIN queries PROVE IsEvidence(CodeEvidence(ask.code[i], i))
  <2>1. i \in Nat
    BY <1>1
  <2>. QED  BY <2>1, SearchForm, CodeEvidenceFacts
<1>. HIDE DEF queries
<1>3. DOMAIN parts = 1..Len(queries) /\ IsFunction(parts) /\ \A i \in 1..Len(queries) : IsEvidence(parts[i])
  BY <1>1, <1>2 DEF IsFunction
<1>. HIDE DEF parts
<1>4. IsEvidence(FlattenSeq(parts))
  BY <1>1, <1>3, EvidenceFlattens
<1>. QED  BY <1>4 DEF parts, queries

\* What is selected from: nothing in it is there twice.
LEMMA EvidenceFacts ==
  ASSUME NEW ask, IsSearch(ask)
  PROVE  IsEvidence(Evidence(ask)) /\ IsInjective(Evidence(ask))
<1>. DEFINE code == FlattenSeq([i \in DOMAIN CodeQueries(ask.query) |-> CodeEvidence(ask.code[i], i)])
            all == Knowledge(ask) \o code \o GraphEvidence(ask.graph)
            relevance == [i \in DOMAIN all |-> all[i].relevance]
            sorted == Sorted(all, relevance)
            key == [i \in DOMAIN sorted |-> DedupeKey(sorted[i])]
            kept == FirstOfEach(sorted, key)
<1>1. IsEvidence(all)
  <2>1. IsEvidence(GraphEvidence(ask.graph))
    BY SearchForm, GraphEvidenceFacts
  <2>2. IsEvidence(Knowledge(ask)) /\ IsEvidence(code)
    BY KnowledgeFacts, CodeFacts
  <2>. HIDE DEF code
  <2>. QED  BY <2>1, <2>2, EvidenceJoins
<1>2. Evidence(ask) = kept
  BY DEF Evidence, Dedupe, SortByRelevance
<1>. HIDE DEF all
<1>3. \A i \in DOMAIN all : relevance[i] \in Int
  BY <1>1 DEF IsEvidence, Range
<1>. HIDE DEF relevance
<1>4. IsSeq(sorted) /\ Range(sorted) = Range(all)
  BY <1>1, <1>3, SortedFacts DEF IsEvidence
<1>. HIDE DEF sorted
<1>5. \A i, j \in DOMAIN sorted : sorted[i] = sorted[j] => key[i] = key[j]
  OBVIOUS
<1>. HIDE DEF key
<1>6. IsSeq(kept) /\ Range(kept) \subseteq Range(sorted) /\ IsInjective(kept)
  BY <1>4, <1>5, FirstOfEachFacts
<1>. QED  BY <1>1, <1>2, <1>4, <1>6 DEF IsEvidence

-----------------------------------------------------------------------------
(* The balanced selection *)

LEMMA ForemostFacts ==
  ASSUME NEW items, IsFiniteSet(items), items # {}, \A item \in items : item.relevance \in Int, NEW focus
  PROVE  Foremost(items, focus) \in items
<1>. DEFINE U(i) == Urgency(i, focus)
            Good == {s \in SUBSET items : s = {} \/ \E i \in s : \A j \in s : U(i) >= U(j)}
<1>1. \A i \in items : U(i) \in Int
  BY DEF Urgency
<1>. HIDE DEF U
<1>2. ASSUME NEW s \in SUBSET items, s # {} PROVE \E x \in s : s \ {x} \in Good => s \in Good
  <2>1. PICK x \in s : TRUE
    BY <1>2
  <2>2. SUFFICES ASSUME s \ {x} \in Good PROVE \E i \in s : \A j \in s : U(i) >= U(j)
    BY <2>1
  <2>3. CASE s \ {x} = {}
    <3>1. \A j \in s : j = x
      BY <2>3
    <3>2. U(x) >= U(x)
      BY <1>1
    <3>. QED  BY <3>1, <3>2
  <2>4. CASE s \ {x} # {}
    <3>1. PICK i \in s \ {x} : \A j \in s \ {x} : U(i) >= U(j)
      BY <2>2, <2>4
    <3>2. U(i) \in Int /\ U(x) \in Int /\ \A j \in s : U(j) \in Int
      BY <1>1
    <3>3. CASE U(i) >= U(x)
      BY <3>1, <3>3
    <3>4. CASE ~(U(i) >= U(x))
      <4>1. \A j \in s : U(x) >= U(j)
        BY <3>1, <3>2, <3>4
      <4>. QED  BY <4>1
    <3>. QED  BY <3>3, <3>4
  <2>. QED  BY <2>3, <2>4
<1>3. {} \in Good
  OBVIOUS
<1>4. items \in Good
  <2>. HIDE DEF Good
  <2>. QED  BY <1>2, <1>3, SubsetInduction
<1>5. \E i \in items : \A j \in items : Urgency(i, focus) >= Urgency(j, focus)
  BY <1>4 DEF U
<1>. QED  BY <1>5 DEF Foremost

Candidates(evidence, reserved, selected, category) ==
    {i \in Range(evidence) \ Range(selected \o reserved) : Category(i) = category}

TakeOne(evidence, limit, reserved, focus, selected, category) ==
    IF Len(selected) >= limit \/ Candidates(evidence, reserved, selected, category) = {} THEN selected
    ELSE Append(selected, Foremost(Candidates(evidence, reserved, selected, category), focus))

\* What may be selected.
Selections(evidence, limit, reserved) ==
    {s \in Seq(Range(evidence)) :
        Len(s) <= limit /\ IsInjective(s) /\ Range(s) \cap Range(reserved) = {}}

OfCategory(items, category) == {i \in DOMAIN items : Category(items[i]) = category}

HasCategory(items, category) == \E item \in Range(items) : Category(item) = category

\* The places are taken: a category has at most one item for each, and none
\* is empty that could have one, unless there was no more room.
Taken(places, evidence, limit, reserved, selected) ==
    /\ \A category : Cardinality(OfCategory(selected, category))
                        <= Cardinality({n \in places : Categories[n] = category})
    /\ \/ Len(selected) = limit
       \/ \A n \in places : HasCategory(evidence, Categories[n]) =>
              HasCategory(selected, Categories[n]) \/ HasCategory(reserved, Categories[n])

LEMMA CategoriesDomain == DOMAIN Categories = 1..18
  BY DEF Categories

LEMMA PlacesGrow ==
  ASSUME NEW places \in SUBSET (1..18), NEW n \in 1..18, n \notin places, NEW category
  PROVE  LET Of(s) == {m \in s : Categories[m] = category}
         IN  /\ IsFiniteSet(Of(places)) /\ Cardinality(Of(places)) \in Nat
             /\ Cardinality(Of(places \cup {n}))
                    = Cardinality(Of(places)) + (IF Categories[n] = category THEN 1 ELSE 0)
<1>. DEFINE Of(s) == {m \in s : Categories[m] = category}
<1>1. IsFiniteSet(1..18) /\ Of(places) \subseteq 1..18
  <2>1. 1 \in Int /\ 18 \in Int
    OBVIOUS
  <2>2. IsFiniteSet(1..18)
    BY <2>1, FS_Interval
  <2>. QED  BY <2>2
<1>2. IsFiniteSet(Of(places)) /\ Cardinality(Of(places)) \in Nat
  BY <1>1, FS_Subset, FS_CardinalityType
<1>3. Of(places \cup {n}) = IF Categories[n] = category THEN Of(places) \cup {n} ELSE Of(places)
  OBVIOUS
<1>4. n \notin Of(places)
  OBVIOUS
<1>. HIDE DEF Of
<1>5. Cardinality(Of(places) \cup {n}) = Cardinality(Of(places)) + 1
  BY <1>2, <1>4, FS_AddElement
<1>6. Cardinality(Of(places \cup {n}))
          = Cardinality(Of(places)) + (IF Categories[n] = category THEN 1 ELSE 0)
  BY <1>2, <1>3, <1>5
<1>. QED  BY <1>2, <1>6 DEF Of

LEMMA ChosenGrow ==
  ASSUME NEW s, IsSeq(s), NEW e, NEW category
  PROVE  /\ IsFiniteSet(OfCategory(s, category)) /\ Cardinality(OfCategory(s, category)) \in Nat
         /\ Cardinality(OfCategory(Append(s, e), category))
                = Cardinality(OfCategory(s, category)) + (IF Category(e) = category THEN 1 ELSE 0)
<1>. DEFINE t == Append(s, e)
            n == Len(s) + 1
<1>1. /\ DOMAIN t = DOMAIN s \cup {n} /\ n \notin DOMAIN s /\ DOMAIN s = 1..Len(s) /\ Len(s) \in Nat
      /\ \A i \in DOMAIN s : t[i] = s[i]
      /\ t[n] = e
  BY AppendFacts
<1>2. IsFiniteSet(OfCategory(s, category)) /\ Cardinality(OfCategory(s, category)) \in Nat
  <2>1. IsFiniteSet(DOMAIN s)
    BY <1>1, FS_Interval
  <2>. QED  BY <2>1, FS_Subset, FS_CardinalityType DEF OfCategory
<1>. HIDE DEF t, n
<1>3. OfCategory(t, category) = IF Category(e) = category THEN OfCategory(s, category) \cup {n}
                                ELSE OfCategory(s, category)
  BY <1>1 DEF OfCategory
<1>4. n \notin OfCategory(s, category)
  BY <1>1 DEF OfCategory
<1>5. Cardinality(OfCategory(s, category) \cup {n}) = Cardinality(OfCategory(s, category)) + 1
  BY <1>2, <1>4, FS_AddElement
<1>6. Cardinality(OfCategory(t, category))
          = Cardinality(OfCategory(s, category)) + (IF Category(e) = category THEN 1 ELSE 0)
  BY <1>2, <1>3, <1>5
<1>. QED  BY <1>2, <1>6 DEF t

LEMMA CandidatesFacts ==
  ASSUME NEW evidence, IsEvidence(evidence), NEW reserved, IsSeq(reserved), NEW selected, IsSeq(selected),
         NEW category, NEW focus
  PROVE  LET items == Candidates(evidence, reserved, selected, category)
         IN  IF items = {} THEN HasCategory(evidence, category) =>
                                    HasCategory(selected, category) \/ HasCategory(reserved, category)
             ELSE LET e == Foremost(items, focus)
                  IN  /\ e \in Range(evidence) /\ Category(e) = category
                      /\ e \notin Range(selected) /\ e \notin Range(reserved)
<1>. DEFINE items == Candidates(evidence, reserved, selected, category)
<1>1. Range(selected \o reserved) = Range(selected) \cup Range(reserved)
  BY ConcatFacts
<1>2. CASE items = {}
  BY <1>1, <1>2 DEF Candidates, HasCategory
<1>3. CASE items # {}
  <2>1. IsFiniteSet(Range(evidence)) /\ items \in SUBSET Range(evidence)
    BY RangeFinite DEF IsEvidence, Candidates
  <2>2. IsFiniteSet(items) /\ \A item \in items : item.relevance \in Int
    BY <2>1, FS_Subset DEF IsEvidence
  <2>3. Foremost(items, focus) \in items
    <3>. HIDE DEF items
    <3>. QED  BY <1>3, <2>2, ForemostFacts
  <2>. QED  BY <1>1, <1>3, <2>3 DEF Candidates
<1>. QED  BY <1>2, <1>3

\* A step takes the next place.
LEMMA TakeFacts ==
  ASSUME NEW evidence, IsEvidence(evidence), NEW limit \in Nat, NEW reserved, IsSeq(reserved), NEW focus,
         NEW selected \in Selections(evidence, limit, reserved), NEW n \in 1..18
  PROVE  LET next == TakeOne(evidence, limit, reserved, focus, selected, Categories[n])
         IN  /\ next \in Selections(evidence, limit, reserved)
             /\ \A places \in SUBSET (1..18) :
                    n \notin places /\ Taken(places, evidence, limit, reserved, selected) =>
                        Taken(places \cup {n}, evidence, limit, reserved, next)
<1>. DEFINE category == Categories[n]
            items == Candidates(evidence, reserved, selected, category)
            e == Foremost(items, focus)
            next == TakeOne(evidence, limit, reserved, focus, selected, category)
            Of(s, c) == {m \in s : Categories[m] = c}
<1>1. /\ IsSeq(selected) /\ Range(selected) \subseteq Range(evidence) /\ IsInjective(selected)
      /\ Len(selected) \in Nat /\ Len(selected) <= limit /\ Range(selected) \cap Range(reserved) = {}
  <2>1. selected \in Seq(Range(evidence)) /\ Len(selected) <= limit
    BY DEF Selections
  <2>2. IsSeq(selected) /\ Range(selected) \subseteq Range(evidence)
    BY <2>1, SeqOver
  <2>. QED  BY <2>1, <2>2 DEF Selections
<1>2. \A c : \A places \in SUBSET (1..18) : n \notin places =>
        /\ Cardinality(Of(places, c)) \in Nat
        /\ Cardinality(Of(places \cup {n}, c)) = Cardinality(Of(places, c)) + (IF category = c THEN 1 ELSE 0)
  BY PlacesGrow
<1>3. \A c : Cardinality(OfCategory(selected, c)) \in Nat
  BY <1>1, ChosenGrow
<1>. HIDE DEF category, Of
<1>4. CASE Len(selected) >= limit \/ items = {}
  <2>1. next = selected
    BY <1>4 DEF TakeOne
  <2>2. ASSUME NEW places \in SUBSET (1..18), n \notin places,
               Taken(places, evidence, limit, reserved, selected)
        PROVE  Taken(places \cup {n}, evidence, limit, reserved, selected)
    <3>1. ASSUME NEW c
          PROVE  Cardinality(OfCategory(selected, c)) <= Cardinality(Of(places \cup {n}, c))
      <4>1. Cardinality(OfCategory(selected, c)) <= Cardinality(Of(places, c))
        BY <2>2 DEF Taken, Of
      <4>2. Cardinality(Of(places, c)) \in Nat
        BY <1>2, <2>2
      <4>3. Cardinality(Of(places \cup {n}, c)) >= Cardinality(Of(places, c))
        BY <1>2, <2>2, <4>2
      <4>. QED  BY <1>2, <1>3, <2>2, <4>1, <4>2, <4>3
    <3>2. \/ Len(selected) = limit
          \/ \A m \in places \cup {n} : HasCategory(evidence, Categories[m]) =>
                 HasCategory(selected, Categories[m]) \/ HasCategory(reserved, Categories[m])
      <4>1. CASE Len(selected) >= limit
        BY <1>1, <4>1
      <4>2. CASE items = {}
        <5>1. HasCategory(evidence, Categories[n]) =>
                HasCategory(selected, Categories[n]) \/ HasCategory(reserved, Categories[n])
          <6>1. HasCategory(evidence, category) =>
                    HasCategory(selected, category) \/ HasCategory(reserved, category)
            BY <1>1, <4>2, CandidatesFacts
          <6>. QED  BY <6>1 DEF category
        <5>. QED  BY <2>2, <5>1 DEF Taken
      <4>. QED  BY <1>4, <4>1, <4>2
    <3>. QED  BY <3>1, <3>2 DEF Taken, Of
  <2>. QED  BY <2>1, <2>2 DEF category
<1>5. CASE ~(Len(selected) >= limit) /\ items # {}
  <2>1. next = Append(selected, e)
    BY <1>5 DEF TakeOne
  <2>2. e \in Range(evidence) /\ Category(e) = category /\ e \notin Range(selected) /\ e \notin Range(reserved)
    BY <1>1, <1>5, CandidatesFacts
  <2>. HIDE DEF e, items, next
  <2>3. /\ IsSeq(next) /\ Range(next) = Range(selected) \cup {e} /\ Len(next) = Len(selected) + 1
        /\ DOMAIN next = DOMAIN selected \cup {Len(selected) + 1} /\ Len(selected) + 1 \notin DOMAIN selected
        /\ \A i \in DOMAIN selected : next[i] = selected[i]
        /\ next[Len(selected) + 1] = e
    BY <1>1, <2>1, AppendFacts
  <2>4. next \in Selections(evidence, limit, reserved)
    <3>1. next \in Seq(Range(evidence))
      BY <1>1, <2>2, <2>3 DEF IsSeq
    <3>2. Len(next) <= limit
      BY <1>1, <1>5, <2>3
    <3>3. Range(next) \cap Range(reserved) = {}
      BY <1>1, <2>2, <2>3
    <3>4. \A i \in DOMAIN selected : selected[i] # e
      BY <2>2 DEF Range
    <3>5. IsInjective(next)
      BY <1>1, <2>3, <3>4 DEF IsInjective
    <3>. QED  BY <3>1, <3>2, <3>3, <3>5 DEF Selections
  <2>5. ASSUME NEW places \in SUBSET (1..18), n \notin places,
               Taken(places, evidence, limit, reserved, selected)
        PROVE  Taken(places \cup {n}, evidence, limit, reserved, next)
    <3>1. ASSUME NEW c
          PROVE  Cardinality(OfCategory(next, c)) <= Cardinality(Of(places \cup {n}, c))
      <4>1. Cardinality(OfCategory(selected, c)) <= Cardinality(Of(places, c))
        BY <2>5 DEF Taken, Of
      <4>2. Cardinality(OfCategory(next, c))
                = Cardinality(OfCategory(selected, c)) + (IF category = c THEN 1 ELSE 0)
        BY <1>1, <2>1, <2>2, ChosenGrow
      <4>3. /\ Cardinality(Of(places, c)) \in Nat
            /\ Cardinality(Of(places \cup {n}, c)) = Cardinality(Of(places, c)) + (IF category = c THEN 1 ELSE 0)
        BY <1>2, <2>5
      <4>. QED  BY <1>3, <4>1, <4>2, <4>3
    <3>2. \/ Len(next) = limit
          \/ \A m \in places \cup {n} : HasCategory(evidence, Categories[m]) =>
                 HasCategory(next, Categories[m]) \/ HasCategory(reserved, Categories[m])
      <4>1. Len(selected) # limit
        BY <1>1, <1>5
      <4>2. HasCategory(next, Categories[n])
        BY <2>2, <2>3 DEF HasCategory, category
      <4>3. \A m : HasCategory(selected, Categories[m]) => HasCategory(next, Categories[m])
        BY <2>3 DEF HasCategory
      <4>. QED  BY <2>5, <4>1, <4>2, <4>3 DEF Taken
    <3>. QED  BY <3>1, <3>2 DEF Taken, Of
  <2>. QED  BY <2>4, <2>5 DEF next, category
<1>. QED  BY <1>4, <1>5

\* One item of each category in turn.
Balanced(evidence, limit, reserved, focus) ==
    FoldLeft(LAMBDA selected, category : TakeOne(evidence, limit, reserved, focus, selected, category),
             <<>>, Categories)

LEMMA BalancedFacts ==
  ASSUME NEW evidence, IsEvidence(evidence), NEW limit \in Nat, NEW reserved, IsSeq(reserved), NEW focus
  PROVE  LET balanced == Balanced(evidence, limit, reserved, focus)
         IN  /\ balanced \in Selections(evidence, limit, reserved)
             /\ Taken(1..18, evidence, limit, reserved, balanced)
<1>. DEFINE U == Selections(evidence, limit, reserved)
            S == DOMAIN Categories
            One(selected, n) == TakeOne(evidence, limit, reserved, focus, selected, Categories[n])
            step == [n \in S |-> [selected \in U |-> One(selected, n)]]
            pick == Greatest(S)
            base == <<>>
            F(f) == f = [s \in SUBSET S |-> IF s = {} THEN base ELSE LET x == Max(s) IN One(f[s \ {x}], x)]
            c == CHOOSE f : F(f)
<1>1. Balanced(evidence, limit, reserved, focus) = c[S]
  BY DEF Balanced, FoldLeft, MapThenFoldSet
<1>2. S = 1..18 /\ IsFiniteSet(S)
  <2>1. 1 \in Int /\ 18 \in Int
    OBVIOUS
  <2>2. IsFiniteSet(1..18)
    BY <2>1, FS_Interval
  <2>. QED  BY <2>2, CategoriesDomain
<1>3. \A s \in SUBSET S : s # {} => Max(s) \in s /\ pick[s] = Max(s) /\ pick[s] \in s
  <2>1. \A s \in SUBSET S : s # {} => Max(s) \in s
    BY <1>2, MaxOfPart
  <2>. HIDE DEF S
  <2>. QED  BY <2>1 DEF Greatest
<1>4. base \in U
  <2>1. base \in Seq(Range(evidence)) /\ Len(base) = 0
    OBVIOUS
  <2>2. Range(base) = {} /\ DOMAIN base = {}
    BY EmptyIsSeq
  <2>. HIDE DEF base
  <2>. QED  BY <2>1, <2>2 DEF Selections, IsInjective
<1>5. Taken({}, evidence, limit, reserved, base)
  <2>1. DOMAIN base = {}
    OBVIOUS
  <2>. HIDE DEF base
  <2>2. \A category : OfCategory(base, category) = {} /\ {n \in {} : Categories[n] = category} = {}
    BY <2>1 DEF OfCategory
  <2>3. Cardinality({}) \in Nat
    BY FS_EmptySet
  <2>4. \A category : Cardinality(OfCategory(base, category))
                          <= Cardinality({n \in {} : Categories[n] = category})
    <3>1. Cardinality({}) <= Cardinality({})
      BY <2>3
    <3>. QED  BY <2>2, <3>1
  <2>. QED  BY <2>4 DEF Taken
<1>6. ASSUME NEW n \in S, NEW selected \in U
      PROVE  /\ One(selected, n) \in U
             /\ \A places \in SUBSET S :
                    n \notin places /\ Taken(places, evidence, limit, reserved, selected) =>
                        Taken(places \cup {n}, evidence, limit, reserved, One(selected, n))
  BY <1>2, TakeFacts
<1>. HIDE DEF U, S, One, base
<1>7. \A n \in S : \A selected \in U : step[n][selected] \in U /\ step[n][selected] = One(selected, n)
  BY <1>6
<1>8. PICK f : IsFold(f, SUBSET S, pick, step, base) /\ \A s \in SUBSET S : f[s] \in U
  <2>1. \A n \in S : \A selected \in U : step[n][selected] \in U
    BY <1>7
  <2>2. \A s \in SUBSET S : s # {} => pick[s] \in s
    BY <1>3
  <2>3. IsFiniteSet(S)
    BY <1>2
  <2>. HIDE DEF step, pick
  <2>4. \E f : IsFold(f, SUBSET S, pick, step, base) /\ \A s \in SUBSET S : f[s] \in U
    BY <1>4, <2>1, <2>2, <2>3, FoldWithin
  <2>. QED  BY <2>4
<1>. HIDE DEF step, pick
<1>9. F(f)
  <2>1. f = [s \in SUBSET S |-> IF s = {} THEN base ELSE step[pick[s]][f[s \ {pick[s]}]]]
    BY <1>8 DEF IsFold
  <2>2. \A s \in SUBSET S : s # {} => step[pick[s]][f[s \ {pick[s]}]] = LET x == Max(s) IN One(f[s \ {x}], x)
    <3>1. ASSUME NEW s \in SUBSET S, s # {}
          PROVE  step[pick[s]][f[s \ {pick[s]}]] = LET x == Max(s) IN One(f[s \ {x}], x)
      <4>1. pick[s] \in S /\ pick[s] = Max(s) /\ f[s \ {pick[s]}] \in U
        BY <1>3, <1>8, <3>1
      <4>2. step[pick[s]][f[s \ {pick[s]}]] = One(f[s \ {pick[s]}], pick[s])
        BY <1>7, <4>1
      <4>. QED  BY <4>1, <4>2
    <3>. QED  BY <3>1
  <2>. QED  BY <2>1, <2>2
<1>10. F(c)
  <2>. HIDE DEF F
  <2>. QED  BY <1>9
<1>. HIDE DEF c
<1>. DEFINE Good == {s \in SUBSET S : c[s] \in U /\ Taken(s, evidence, limit, reserved, c[s])}
<1>11. {} \in Good
  <2>1. c[{}] = base
    BY <1>10
  <2>. QED  BY <1>4, <1>5, <2>1
<1>12. ASSUME NEW s \in SUBSET S, s # {} PROVE \E x \in s : s \ {x} \in Good => s \in Good
  <2>1. PICK x \in s : x = Max(s)
    BY <1>3, <1>12
  <2>2. SUFFICES ASSUME s \ {x} \in Good PROVE s \in Good
    BY <2>1
  <2>3. c[s] = One(c[s \ {x}], x)
    BY <1>10, <1>12, <2>1
  <2>4. c[s \ {x}] \in U /\ Taken(s \ {x}, evidence, limit, reserved, c[s \ {x}])
    BY <2>2
  <2>5. x \in S /\ s \ {x} \in SUBSET S /\ x \notin s \ {x} /\ (s \ {x}) \cup {x} = s
    OBVIOUS
  <2>6. One(c[s \ {x}], x) \in U
    BY <1>6, <2>4, <2>5
  <2>7. Taken((s \ {x}) \cup {x}, evidence, limit, reserved, One(c[s \ {x}], x))
    BY <1>6, <2>4, <2>5
  <2>. QED  BY <2>3, <2>5, <2>6, <2>7
<1>13. S \in Good
  <2>1. IsFiniteSet(S)
    BY <1>2
  <2>. HIDE DEF Good
  <2>2. \A s \in SUBSET S : s \in Good
    BY <1>11, <1>12, <2>1, SubsetInduction
  <2>. QED  BY <2>2
<1>. QED  BY <1>1, <1>2, <1>13 DEF U

LEMMA JoinInjective ==
  ASSUME NEW s, NEW t, IsSeq(s), IsSeq(t), IsInjective(s), IsInjective(t), Range(s) \cap Range(t) = {}
  PROVE  IsInjective(s \o t)
<1>1. /\ DOMAIN s = 1..Len(s) /\ DOMAIN t = 1..Len(t) /\ DOMAIN (s \o t) = 1..Len(s \o t)
      /\ Len(s) \in Nat /\ Len(t) \in Nat /\ Len(s \o t) = Len(s) + Len(t)
      /\ \A i \in DOMAIN s : (s \o t)[i] = s[i]
      /\ \A i \in DOMAIN t : (s \o t)[Len(s) + i] = t[i]
  BY ConcatFacts
<1>2. ASSUME NEW i \in DOMAIN (s \o t) PROVE i \in DOMAIN s \/ \E j \in DOMAIN t : i = Len(s) + j
  <2>1. CASE i <= Len(s)
    BY <1>1, <2>1
  <2>2. CASE ~(i <= Len(s))
    <3>1. i - Len(s) \in DOMAIN t /\ i = Len(s) + (i - Len(s))
      BY <1>1, <2>2
    <3>. QED  BY <3>1
  <2>. QED  BY <2>1, <2>2
<1>3. \A i \in DOMAIN s, j \in DOMAIN t : s[i] # t[j]
  BY DEF Range
<1>4. ASSUME NEW i \in DOMAIN (s \o t), NEW j \in DOMAIN (s \o t), (s \o t)[i] = (s \o t)[j] PROVE i = j
  <2>1. CASE i \in DOMAIN s /\ j \in DOMAIN s
    BY <1>1, <1>4, <2>1 DEF IsInjective
  <2>2. CASE i \notin DOMAIN s /\ j \notin DOMAIN s
    <3>1. PICK a \in DOMAIN t : i = Len(s) + a
      BY <1>2, <2>2
    <3>2. PICK b \in DOMAIN t : j = Len(s) + b
      BY <1>2, <2>2
    <3>3. t[a] = t[b]
      BY <1>1, <1>4, <3>1, <3>2
    <3>. QED  BY <3>1, <3>2, <3>3 DEF IsInjective
  <2>3. CASE i \in DOMAIN s /\ j \notin DOMAIN s
    BY <1>1, <1>2, <1>3, <1>4, <2>3
  <2>4. CASE i \notin DOMAIN s /\ j \in DOMAIN s
    BY <1>1, <1>2, <1>3, <1>4, <2>4
  <2>. QED  BY <2>1, <2>2, <2>3, <2>4
<1>. QED  BY <1>4 DEF IsInjective

\* What is left of the evidence without the items of a list.
LEMMA LeftFacts ==
  ASSUME NEW evidence, IsSeq(evidence), IsInjective(evidence), NEW items, IsSeq(items)
  PROVE  LET left == Filtered(evidence, {i \in DOMAIN evidence : evidence[i] \notin Range(items)})
         IN  /\ IsSeq(left) /\ IsInjective(left) /\ Len(left) \in Nat
             /\ Range(left) = Range(evidence) \ Range(items)
             /\ Len(left) >= Len(evidence) - Len(items)
<1>. DEFINE S == {i \in DOMAIN evidence : evidence[i] \notin Range(items)}
            T == {i \in DOMAIN evidence : evidence[i] \in Range(items)}
            left == Filtered(evidence, S)
            f == [i \in T |-> CHOOSE n \in DOMAIN items : items[n] = evidence[i]]
<1>1. /\ DOMAIN evidence = 1..Len(evidence) /\ Len(evidence) \in Nat
      /\ DOMAIN items = 1..Len(items) /\ Len(items) \in Nat
  BY DEF IsSeq
<1>2. S \in SUBSET DOMAIN evidence /\ S \cup T = DOMAIN evidence /\ S \cap T = {} /\ T \subseteq DOMAIN evidence
  OBVIOUS
<1>3. \A i, j \in S : evidence[i] = evidence[j] => i = j
  BY DEF IsInjective
<1>4. {evidence[i] : i \in S} = Range(evidence) \ Range(items)
  BY DEF Range
<1>5. \A i \in T : f[i] \in DOMAIN items /\ items[f[i]] = evidence[i]
  BY DEF Range
<1>6. f \in Injection(T, DOMAIN items)
  <2>1. f \in [T -> DOMAIN items]
    BY <1>5
  <2>2. \A i, j \in T : f[i] = f[j] => i = j
    BY <1>5 DEF IsInjective
  <2>. HIDE DEF f, T
  <2>. QED  BY <2>1, <2>2 DEF Injection, IsInjective
<1>. HIDE DEF S, T, f
<1>7. /\ IsFiniteSet(DOMAIN evidence) /\ Cardinality(DOMAIN evidence) = Len(evidence)
      /\ IsFiniteSet(DOMAIN items) /\ Cardinality(DOMAIN items) = Len(items)
  <2>1. ASSUME NEW n \in Nat PROVE IsFiniteSet(1..n) /\ Cardinality(1..n) = n
    <3>1. 1 \in Int /\ n \in Int
      OBVIOUS
    <3>2. IsFiniteSet(1..n) /\ Cardinality(1..n) = IF 1 > n THEN 0 ELSE n - 1 + 1
      BY <3>1, FS_Interval
    <3>. QED  BY <3>2
  <2>. QED  BY <1>1, <2>1
<1>8. IsFiniteSet(S) /\ IsFiniteSet(T) /\ Cardinality(S) \in Nat /\ Cardinality(T) \in Nat
  BY <1>2, <1>7, FS_Subset, FS_CardinalityType
<1>9. Cardinality(T) <= Len(items)
  BY <1>6, <1>7, FS_Injection
<1>10. Cardinality(S) + Cardinality(T) = Len(evidence)
  <2>1. Cardinality(S \cup T) = Cardinality(S) + Cardinality(T) - Cardinality({})
    BY <1>2, <1>8, FS_Union
  <2>2. Cardinality({}) = 0
    BY FS_EmptySet
  <2>. QED  BY <1>2, <1>7, <1>8, <2>1, <2>2
<1>11. /\ IsSeq(left) /\ Len(left) = Cardinality(S) /\ Len(left) \in Nat
       /\ Range(left) = {evidence[i] : i \in S} /\ IsInjective(left)
  BY <1>2, <1>3, FilteredFacts
<1>12. Len(left) >= Len(evidence) - Len(items)
  <2>. HIDE DEF left
  <2>. QED  BY <1>1, <1>8, <1>9, <1>10, <1>11
<1>. QED  BY <1>4, <1>11, <1>12 DEF S

\* The places that items of a category take which are not about the graph.
Counted(chosen, category) == {i \in DOMAIN chosen : Category(chosen[i]) = category /\ ~IsGraph(chosen[i])}

PlacesOf(category) == {n \in 1..18 : Categories[n] = category}

LEMMA SelectFacts ==
  ASSUME NEW evidence, IsEvidence(evidence), IsInjective(evidence), NEW limit \in Nat, NEW focus,
         NEW reserved, IsSeq(reserved), IsInjective(reserved), Range(reserved) \subseteq Range(evidence),
         \A item \in Range(reserved) : IsGraph(item),
         Len(evidence) > limit + Len(reserved)
  PROVE  LET chosen == Select(evidence, limit, reserved, focus) \o reserved
         IN  /\ Len(chosen) = limit + Len(reserved)
             /\ IsInjective(chosen) /\ Range(chosen) \subseteq Range(evidence)
             /\ Range(reserved) \subseteq Range(chosen)
             /\ \A n \in 1..18 :
                    HasCategory(evidence, Categories[n]) /\ ~HasCategory(chosen, Categories[n]) =>
                        \A category :
                            Cardinality(Counted(chosen, category)) <= Cardinality(PlacesOf(category))
<1>. DEFINE balanced == Balanced(evidence, limit, reserved, focus)
            taken == balanced \o reserved
            rest == Filtered(evidence, {i \in DOMAIN evidence : evidence[i] \notin Range(taken)})
            more == Top(rest, limit - Len(balanced))
            first == balanced \o more
            chosen == first \o reserved
<1>1. Select(evidence, limit, reserved, focus) = first
  BY DEF Select, Balanced, TakeOne, Candidates
<1>2. balanced \in Selections(evidence, limit, reserved) /\ Taken(1..18, evidence, limit, reserved, balanced)
  BY BalancedFacts
<1>. HIDE DEF balanced
<1>3. /\ IsSeq(balanced) /\ Range(balanced) \subseteq Range(evidence) /\ IsInjective(balanced)
      /\ Len(balanced) \in Nat /\ Len(balanced) <= limit /\ Range(balanced) \cap Range(reserved) = {}
  <2>1. balanced \in Seq(Range(evidence)) /\ Len(balanced) <= limit
    BY <1>2 DEF Selections
  <2>2. IsSeq(balanced) /\ Range(balanced) \subseteq Range(evidence)
    BY <2>1, SeqOver
  <2>. QED  BY <1>2, <2>1, <2>2 DEF Selections
<1>4. /\ IsSeq(taken) /\ Range(taken) = Range(balanced) \cup Range(reserved)
      /\ Len(taken) = Len(balanced) + Len(reserved) /\ Len(reserved) \in Nat
  BY <1>3, ConcatFacts
<1>. HIDE DEF taken
<1>5. IsSeq(evidence) /\ Len(evidence) \in Nat
  BY DEF IsEvidence, IsSeq
<1>6. /\ IsSeq(rest) /\ IsInjective(rest) /\ Len(rest) \in Nat
      /\ Range(rest) = Range(evidence) \ Range(taken)
      /\ Len(rest) >= Len(evidence) - Len(taken)
  BY <1>4, <1>5, LeftFacts
<1>. HIDE DEF rest
<1>7. limit - Len(balanced) \in Nat /\ limit - Len(balanced) < Len(rest)
  BY <1>3, <1>4, <1>5, <1>6
<1>8. /\ IsSeq(more) /\ Len(more) = limit - Len(balanced) /\ IsInjective(more)
      /\ Range(more) \subseteq Range(rest)
  BY <1>6, <1>7, TopFacts
<1>. HIDE DEF more
<1>9. /\ IsSeq(first) /\ Range(first) = Range(balanced) \cup Range(more)
      /\ DOMAIN balanced = 1..Len(balanced) /\ DOMAIN first = 1..Len(first) /\ Len(more) \in Nat
      /\ Len(first) = Len(balanced) + Len(more)
      /\ \A i \in DOMAIN balanced : first[i] = balanced[i]
  BY <1>3, <1>8, ConcatFacts
<1>10. IsInjective(first)
  <2>1. Range(balanced) \cap Range(more) = {}
    BY <1>4, <1>6, <1>8
  <2>. QED  BY <1>3, <1>8, <2>1, JoinInjective
<1>11. Range(first) \cap Range(reserved) = {}
  BY <1>3, <1>4, <1>6, <1>8, <1>9
<1>. HIDE DEF first
<1>12. Len(first) = limit
  BY <1>3, <1>8, <1>9
<1>13. /\ IsSeq(chosen) /\ Range(chosen) = Range(first) \cup Range(reserved)
       /\ DOMAIN reserved = 1..Len(reserved) /\ DOMAIN chosen = 1..Len(chosen)
       /\ Len(chosen) = Len(first) + Len(reserved)
       /\ \A i \in DOMAIN first : chosen[i] = first[i]
       /\ \A i \in DOMAIN reserved : chosen[Len(first) + i] = reserved[i]
  BY <1>9, ConcatFacts
<1>14. IsInjective(chosen)
  BY <1>9, <1>10, <1>11, JoinInjective
<1>. HIDE DEF chosen
<1>15. Range(chosen) \subseteq Range(evidence) /\ Range(reserved) \subseteq Range(chosen)
  BY <1>3, <1>6, <1>8, <1>9, <1>13
<1>16. ASSUME NEW n \in 1..18, HasCategory(evidence, Categories[n]), ~HasCategory(chosen, Categories[n]),
              NEW category
       PROVE  Cardinality(Counted(chosen, category)) <= Cardinality(PlacesOf(category))
  <2>. DEFINE C == Counted(chosen, category)
              P == PlacesOf(category)
  <2>1. ~HasCategory(balanced, Categories[n]) /\ ~HasCategory(reserved, Categories[n])
    BY <1>9, <1>13, <1>16 DEF HasCategory
  <2>2. Len(balanced) = limit
    BY <1>2, <1>16, <2>1 DEF Taken
  <2>3. DOMAIN first = DOMAIN balanced
    BY <1>9, <1>12, <2>2
  <2>4. ASSUME NEW i \in DOMAIN chosen, ~IsGraph(chosen[i])
        PROVE  i \in DOMAIN balanced /\ chosen[i] = balanced[i]
    <3>1. i \in DOMAIN first
      <4>. SUFFICES ASSUME ~(i <= Len(first)) PROVE FALSE
        BY <1>9, <1>13
      <4>1. i - Len(first) \in DOMAIN reserved /\ Len(first) + (i - Len(first)) = i
        BY <1>9, <1>12, <1>13, <1>4
      <4>2. chosen[i] \in Range(reserved)
        BY <1>13, <4>1 DEF Range
      <4>. QED  BY <2>4, <4>2
    <3>. QED  BY <1>9, <1>13, <2>3, <3>1
  <2>5. C \subseteq OfCategory(balanced, category)
    BY <2>4 DEF OfCategory, Counted
  <2>6. IsFiniteSet(OfCategory(balanced, category)) /\ Cardinality(OfCategory(balanced, category)) \in Nat
    BY <1>3, ChosenGrow
  <2>7. Cardinality(OfCategory(balanced, category)) <= Cardinality(P)
    BY <1>2 DEF Taken, PlacesOf
  <2>8. IsFiniteSet(P) /\ Cardinality(P) \in Nat
    <3>1. 1 \in Int /\ 18 \in Int
      OBVIOUS
    <3>2. IsFiniteSet(1..18)
      BY <3>1, FS_Interval
    <3>. QED  BY <3>2, FS_Subset, FS_CardinalityType DEF PlacesOf
  <2>. HIDE DEF C, P
  <2>9. IsFiniteSet(C) /\ Cardinality(C) <= Cardinality(OfCategory(balanced, category)) /\ Cardinality(C) \in Nat
    BY <2>5, <2>6, FS_Subset, FS_CardinalityType
  <2>10. Cardinality(C) <= Cardinality(P)
    BY <2>6, <2>7, <2>8, <2>9
  <2>. QED  BY <2>10 DEF C, P
<1>. QED  BY <1>1, <1>12, <1>13, <1>14, <1>15, <1>16 DEF chosen

LEMMA ReservedFacts ==
  ASSUME NEW evidence, IsEvidence(evidence), NEW k \in Nat, NEW focus
  PROVE  LET reserved == Reserved(evidence, k, focus)
         IN  /\ IsSeq(reserved) /\ IsInjective(reserved) /\ Len(reserved) \in Nat /\ Len(reserved) <= k
             /\ Range(reserved) \subseteq Range(evidence) /\ \A item \in Range(reserved) : IsGraph(item)
             /\ k >= 4 /\ (\E item \in Range(evidence) : IsGraph(item)) => Range(reserved) # {}
<1>. DEFINE candidates == {item \in Range(evidence) : IsGraph(item)}
            one == <<Foremost(candidates, focus)>>
            none == <<>>
<1>1. Reserved(evidence, k, focus) = IF k >= 4 /\ candidates # {} THEN one ELSE none
  BY DEF Reserved
<1>2. CASE k >= 4 /\ candidates # {}
  <2>1. IsFiniteSet(Range(evidence))
    BY RangeFinite DEF IsEvidence
  <2>2. candidates \in SUBSET Range(evidence)
    OBVIOUS
  <2>3. \A item \in candidates : item.relevance \in Int
    BY DEF IsEvidence
  <2>4. Foremost(candidates, focus) \in candidates
    <3>. HIDE DEF candidates
    <3>. QED  BY <1>2, <2>1, <2>2, <2>3, FS_Subset, ForemostFacts
  <2>5. IsSeq(one) /\ Range(one) \subseteq candidates /\ Range(one) # {} /\ Len(one) = 1 /\ DOMAIN one = {1}
    <3>. DEFINE foremost == Foremost(candidates, focus)
    <3>1. foremost \in candidates /\ one = <<foremost>>
      BY <2>4
    <3>2. IsSeq(<<foremost>>) /\ Range(<<foremost>>) = {foremost}
          /\ Len(<<foremost>>) = 1 /\ DOMAIN <<foremost>> = {1}
      BY OneSeq
    <3>. HIDE DEF foremost, candidates, one
    <3>. QED  BY <3>1, <3>2
  <2>6. IsInjective(one)
    <3>. HIDE DEF one
    <3>. QED  BY <2>5 DEF IsInjective
  <2>7. Range(one) \subseteq Range(evidence) /\ \A item \in Range(one) : IsGraph(item)
    BY <2>5
  <2>8. Reserved(evidence, k, focus) = one
    BY <1>1, <1>2
  <2>9. Len(one) \in Nat /\ Len(one) <= k
    <3>. HIDE DEF one
    <3>. QED  BY <1>2, <2>5
  <2>. HIDE DEF one, candidates
  <2>. QED  BY <2>5, <2>6, <2>7, <2>8, <2>9
<1>3. CASE ~(k >= 4 /\ candidates # {})
  <2>1. Reserved(evidence, k, focus) = none
    BY <1>1, <1>3
  <2>2. Len(none) = 0 /\ DOMAIN none = {} /\ IsSeq(none) /\ Range(none) = {}
    BY EmptyIsSeq
  <2>. HIDE DEF none
  <2>3. IsInjective(none)
    BY <2>2 DEF IsInjective
  <2>4. k >= 4 => ~\E item \in Range(evidence) : IsGraph(item)
    BY <1>3
  <2>. QED  BY <2>1, <2>2, <2>3, <2>4
<1>. QED  BY <1>2, <1>3

LEMMA BalancedTopKFacts ==
  ASSUME NEW evidence, IsEvidence(evidence), IsInjective(evidence), NEW k \in Nat, NEW focus
  PROVE  IsBalanced(evidence, BalancedTopK(evidence, k, focus), k)
<1>. DEFINE reserved == Reserved(evidence, k, focus)
            limit == k - Len(reserved)
            selected == Select(evidence, limit, reserved, focus) \o reserved
            Count(chosen, category) == Cardinality(Counted(chosen, category))
            Places(category) == Cardinality(PlacesOf(category))
            Missing(chosen) == {Category(i) : i \in Range(evidence)} \ {Category(i) : i \in Range(chosen)}
<1>1. Len(evidence) \in Nat
  BY DEF IsEvidence, IsSeq
<1>2. CASE Len(evidence) <= k
  <2>1. BalancedTopK(evidence, k, focus) = evidence
    BY <1>2 DEF BalancedTopK
  <2>2. Len(evidence) = IF Len(evidence) < k THEN Len(evidence) ELSE k
    BY <1>1, <1>2
  <2>. QED  BY <2>1, <2>2 DEF IsBalanced
<1>3. CASE ~(Len(evidence) <= k)
  <2>1. BalancedTopK(evidence, k, focus) = selected
    BY <1>3 DEF BalancedTopK
  <2>2. /\ IsSeq(reserved) /\ IsInjective(reserved) /\ Len(reserved) \in Nat /\ Len(reserved) <= k
        /\ Range(reserved) \subseteq Range(evidence) /\ \A item \in Range(reserved) : IsGraph(item)
        /\ k >= 4 /\ (\E item \in Range(evidence) : IsGraph(item)) => Range(reserved) # {}
    BY ReservedFacts
  <2>. HIDE DEF reserved
  <2>3. limit \in Nat /\ Len(evidence) > limit + Len(reserved) /\ limit + Len(reserved) = k
    BY <1>1, <1>3, <2>2
  <2>. HIDE DEF limit
  <2>4. /\ Len(selected) = limit + Len(reserved)
        /\ IsInjective(selected) /\ Range(selected) \subseteq Range(evidence)
        /\ Range(reserved) \subseteq Range(selected)
        /\ \A n \in 1..18 :
               HasCategory(evidence, Categories[n]) /\ ~HasCategory(selected, Categories[n]) =>
                   \A category : Count(selected, category) <= Places(category)
    BY <2>2, <2>3, SelectFacts
  <2>. HIDE DEF selected
  <2>5. Len(selected) = IF Len(evidence) < k THEN Len(evidence) ELSE k
    BY <1>1, <1>3, <2>3, <2>4
  <2>6. k >= 4 /\ (\E item \in Range(evidence) : IsGraph(item)) => \E item \in Range(selected) : IsGraph(item)
    BY <2>2, <2>4
  <2>7. ASSUME NEW category \in Missing(selected), Places(category) > 0, NEW c
        PROVE  Count(selected, c) <= Places(c)
    <3>1. PICK n \in 1..18 : Categories[n] = category
      <4>. SUFFICES ASSUME ~\E n \in 1..18 : Categories[n] = category PROVE FALSE
        OBVIOUS
      <4>1. PlacesOf(category) = {}
        BY DEF PlacesOf
      <4>2. Places(category) = 0
        BY <4>1, FS_EmptySet
      <4>. HIDE DEF Places
      <4>. QED  BY <2>7, <4>2
    <3>2. HasCategory(evidence, Categories[n]) /\ ~HasCategory(selected, Categories[n])
      BY <2>7, <3>1 DEF HasCategory
    <3>. HIDE DEF Count, Places
    <3>. QED  BY <2>4, <3>2
  <2>. QED  BY <2>1, <2>4, <2>5, <2>6, <2>7, CategoriesDomain DEF IsBalanced, Counted, PlacesOf
<1>. QED  BY <1>1, <1>2, <1>3

-----------------------------------------------------------------------------
(* The graphs handlers save *)

LEMMA DocsOfFacts ==
  ASSUME NEW ids
  PROVE  /\ IsSeq(DocsOf(ids))
         /\ \A doc \in Range(DocsOf(ids)) : IsFiniteSet(doc.concepts) /\ IsSeq(doc.relatedCode)
         /\ Range(DocsOf(ids)) = {Doc[e] : e \in ids \cap DOMAIN Doc}
<1>. DEFINE seqs == [i \in DOMAIN DocOrder |-> IF DocOrder[i] \in ids THEN <<Doc[DocOrder[i]]>> ELSE <<>>]
<1>1. DocsOf(ids) = FlattenSeq(seqs)
  BY DEF DocsOf
<1>2. \A d \in DOMAIN Doc : IsFiniteSet(Doc[d].concepts) /\ IsSeq(Doc[d].relatedCode)
  BY ConstantsAssumption DEF ConstantsAssumption, IsSeq
<1>3. \A i \in DOMAIN DocOrder : DocOrder[i] \in DOMAIN Doc
  BY ConstantsAssumption DEF ConstantsAssumption
<1>4. \A x : IsSeq(<<x>>) /\ Range(<<x>>) = {x}
  <2>1. \A x : <<x>> \in Seq({x})
    OBVIOUS
  <2>2. \A x : Range(<<x>>) = {x}
    BY DEF Range
  <2>. QED  BY <2>1, <2>2, SeqOver
<1>5. \A i \in DOMAIN seqs :
          /\ IsSeq(seqs[i])
          /\ \A doc \in Range(seqs[i]) : IsFiniteSet(doc.concepts) /\ IsSeq(doc.relatedCode)
  BY <1>2, <1>3, <1>4, EmptyIsSeq
<1>6. DOMAIN seqs = 1..Len(DocOrder) /\ Len(DocOrder) \in Nat /\ IsFunction(seqs)
  BY ConstantsAssumption DEF ConstantsAssumption, IsFunction
<1>7. UNION {Range(seqs[i]) : i \in DOMAIN seqs} = {Doc[e] : e \in ids \cap DOMAIN Doc}
  <2>1. \A i \in DOMAIN DocOrder : Range(seqs[i]) = IF DocOrder[i] \in ids THEN {Doc[DocOrder[i]]} ELSE {}
    BY <1>4, EmptyIsSeq
  <2>2. Range(DocOrder) = DOMAIN Doc
    BY ConstantsAssumption DEF ConstantsAssumption
  <2>3. \A e : e \in DOMAIN Doc <=> \E i \in DOMAIN DocOrder : DocOrder[i] = e
    BY <2>2 DEF Range
  <2>4. DOMAIN seqs = DOMAIN DocOrder
    OBVIOUS
  <2>. HIDE DEF seqs
  <2>. QED  BY <2>1, <2>3, <2>4
<1>. HIDE DEF seqs
<1>8. IsSeq(seqs)
  BY <1>6, MadeSeq
<1>9. IsSeq(FlattenSeq(seqs)) /\ Range(FlattenSeq(seqs)) = UNION {Range(seqs[i]) : i \in DOMAIN seqs}
  BY <1>5, <1>8, FlattenIsSeq
<1>. QED  BY <1>1, <1>5, <1>7, <1>9

LEMMA TextsAreRead ==
  ASSUME NEW parsed \in Readings
  PROVE  IsRead(Texts(parsed))
<1>1. DOMAIN Texts(parsed) = DOMAIN parsed /\ \A p \in DOMAIN parsed : Texts(parsed)[p] = TextOf(parsed[p])
  BY DEF Texts
<1>2. DOMAIN parsed \subseteq Paths /\ \A p \in DOMAIN parsed : parsed[p] \in DOMAIN Text \cup {Unread}
  BY DEF Readings
<1>3. IsFiniteSet(Paths)
  <2>1. IsSeq(PathOrder)
    BY ConstantsAssumption DEF ConstantsAssumption, IsSeq, Paths
  <2>. QED  BY <2>1, RangeFinite DEF Paths
<1>4. IsFiniteSet(DOMAIN parsed)
  BY <1>2, <1>3, FS_Subset
<1>5. \A id \in DOMAIN Text : IsSeq(Text[id].lines)
  BY ConstantsAssumption DEF ConstantsAssumption, IsSeq
<1>6. IsSeq(Nothing.lines)
  BY EmptyIsSeq DEF Nothing
<1>7. \A p \in DOMAIN parsed : IsSeq(TextOf(parsed[p]).lines)
  BY <1>2, <1>5, <1>6 DEF TextOf
<1>. QED  BY <1>1, <1>4, <1>7 DEF IsRead

LEMMA GraphTableIs ==
  ASSUME NEW g \in GraphInputs
  PROVE  GraphTable[g] = GraphOf(g)
<1>. DEFINE table == [h \in GraphInputs |-> GraphOf(h)]
<1>. HIDE DEF table
<1>1. GraphTable = CHOOSE t \in {table} : t = t
  BY DEF GraphTable, table
<1>2. GraphTable = table
  BY <1>1
<1>. QED  BY <1>2 DEF table

LEMMA EveryGraphIsClosed == GraphInputs \subseteq ClosedGraphs
<1>. SUFFICES ASSUME NEW g \in GraphInputs PROVE g \in ClosedGraphs
  OBVIOUS
<1>. DEFINE docs == DocsOf(g.docs)
            indexes == {Index(Texts(parsed)) : parsed \in g.index}
            graph == GraphTable[g]
            ids == {n.id : n \in graph.nodes}
<1>1. g.index = {} \/ \E parsed \in Readings : g.index = {parsed}
  BY DEF GraphInputs
<1>2. IsFiniteSet(indexes)
  <2>1. indexes = {} \/ \E index : indexes = {index}
    BY <1>1
  <2>. HIDE DEF indexes
  <2>. QED  BY <2>1, FS_EmptySet, FS_Singleton
<1>3. \A index \in indexes : IsFinite(index)
  <2>1. \A parsed \in g.index : parsed \in Readings
    BY <1>1
  <2>. QED  BY <2>1, TextsAreRead, IndexFinite, ConstantsAssumption DEF ConstantsAssumption
<1>4. IsSeq(docs) /\ \A doc \in Range(docs) : IsFiniteSet(doc.concepts) /\ IsSeq(doc.relatedCode)
  BY DocsOfFacts DEF IsSeq
<1>5. graph = Graph(docs, indexes)
  BY GraphTableIs DEF GraphOf
<1>. HIDE DEF docs, indexes
<1>6. PathOrder \in Seq(Paths)
  BY ConstantsAssumption DEF ConstantsAssumption
<1>7. LET made == Graph(docs, indexes)
          names == {n.id : n \in made.nodes}
      IN  /\ Cardinality(names) = Cardinality(made.nodes)
          /\ \A e \in made.edges : e.from # e.to /\ e.from \in names /\ e.to \in names
  BY <1>2, <1>3, <1>4, <1>6, BuiltGraphFacts
<1>8. /\ Cardinality(ids) = Cardinality(graph.nodes)
      /\ \A e \in graph.edges : e.from # e.to /\ e.from \in ids /\ e.to \in ids
  BY <1>5, <1>7
<1>. QED  BY <1>8 DEF ClosedGraphs

-----------------------------------------------------------------------------
(* What handlers read *)

\* Texts of files as they were when they were read.
FileReadings ==
    UNION {{ids \in [S -> DOMAIN Text] : \A p \in S : ids[p] \in Range(Versions[p])} : S \in SUBSET Paths}

Parsable(path) == IF IsParsed(path) THEN Range(Versions[path]) ELSE {Unread}

LEMMA PutDomain == \A ids, path, id : DOMAIN Put(ids, path, id) = DOMAIN ids \cup {path}
  BY DEF Put

LEMMA PutIsFunction == \A ids, path, id : IsFunction(Put(ids, path, id))
<1>. TAKE ids, path, id
<1>1. Put(ids, path, id) = [p \in DOMAIN ids \cup {path} |-> Put(ids, path, id)[p]]
  BY DEF Put
<1>. QED  BY <1>1, PutDomain DEF IsFunction

LEMMA PutAt == \A ids, path, id : Put(ids, path, id)[path] = id
  BY DEF Put

LEMMA PutElsewhere ==
  \A ids, path, id : \A p \in DOMAIN ids \ {path} : Put(ids, path, id)[p] = ids[p]
  BY DEF Put

LEMMA FileReadingsForm ==
  ASSUME NEW ids
  PROVE  ids \in FileReadings <=>
            /\ DOMAIN ids \subseteq Paths /\ IsFunction(ids)
            /\ \A p \in DOMAIN ids : ids[p] \in Range(Versions[p])
<1>1. \A p \in Paths : Range(Versions[p]) \subseteq DOMAIN Text
  BY ConstantsAssumption DEF Range
<1>2. ASSUME ids \in FileReadings
      PROVE  /\ DOMAIN ids \subseteq Paths /\ IsFunction(ids)
             /\ \A p \in DOMAIN ids : ids[p] \in Range(Versions[p])
  <2>1. PICK S \in SUBSET Paths : ids \in [S -> DOMAIN Text] /\ \A p \in S : ids[p] \in Range(Versions[p])
    BY <1>2 DEF FileReadings
  <2>. QED  BY <2>1 DEF IsFunction
<1>3. ASSUME DOMAIN ids \subseteq Paths, IsFunction(ids),
             \A p \in DOMAIN ids : ids[p] \in Range(Versions[p])
      PROVE  ids \in FileReadings
  <2>1. \A p \in DOMAIN ids : ids[p] \in DOMAIN Text
    BY <1>1, <1>3
  <2>2. ids \in [DOMAIN ids -> DOMAIN Text]
    BY <1>3, <2>1 DEF IsFunction
  <2>. QED  BY <1>3, <2>2 DEF FileReadings
<1>. QED  BY <1>2, <1>3

LEMMA ReadingsForm ==
  ASSUME NEW ids
  PROVE  ids \in Readings <=>
            /\ DOMAIN ids \subseteq Paths /\ IsFunction(ids)
            /\ \A p \in DOMAIN ids : ids[p] \in Parsable(p)
<1>1. \A p \in Paths : Parsable(p) \subseteq DOMAIN Text \cup {Unread}
  BY ConstantsAssumption DEF Range, Parsable
<1>2. ASSUME ids \in Readings
      PROVE  /\ DOMAIN ids \subseteq Paths /\ IsFunction(ids)
             /\ \A p \in DOMAIN ids : ids[p] \in Parsable(p)
  <2>1. PICK S \in SUBSET Paths :
            ids \in [S -> DOMAIN Text \cup {Unread}] /\ \A p \in S : ids[p] \in Parsable(p)
    BY <1>2 DEF Readings, Parsable
  <2>. QED  BY <2>1 DEF IsFunction
<1>3. ASSUME DOMAIN ids \subseteq Paths, IsFunction(ids),
             \A p \in DOMAIN ids : ids[p] \in Parsable(p)
      PROVE  ids \in Readings
  <2>1. \A p \in DOMAIN ids : ids[p] \in DOMAIN Text \cup {Unread}
    BY <1>1, <1>3
  <2>2. ids \in [DOMAIN ids -> DOMAIN Text \cup {Unread}]
    BY <1>3, <2>1 DEF IsFunction
  <2>. QED  BY <1>3, <2>2 DEF Readings, Parsable
<1>. QED  BY <1>2, <1>3

LEMMA DocIsNoFile ==
  ASSUME NEW doc
  PROVE  DocNodeType(doc) \notin {"code_file", "test_file"}
<1>. DEFINE Fits(kind) == DocType(doc) = kind[1] \/ In(doc.path, kind[2])
            fitting == {i \in 1..Len(DocKinds) : Fits(DocKinds[i])}
            place == IF fitting # {} THEN Min(fitting) ELSE 0
<1>1. place \in 0..8
  <2>1. Len(DocKinds) = 8
    BY DEF DocKinds
  <2>2. CASE fitting # {}
    <3>1. Min(fitting) \in fitting
      <4>. HIDE DEF Fits
      <4>1. fitting \in SUBSET Nat
        OBVIOUS
      <4>. HIDE DEF fitting
      <4>. QED  BY <2>2, <4>1, LeastNat DEF Min
    <3>. QED  BY <2>1, <2>2, <3>1
  <2>. QED  BY <2>2
<1>2. DocNodeType(doc) = IF place = 0 THEN "knowledge_doc" ELSE DocKinds[place][3]
  BY DEF DocNodeType, SelectInSeq
<1>. HIDE DEF place
<1>3. \A i \in 1..8 : DocKinds[i][3] \notin {"code_file", "test_file"}
  BY DEF DocKinds
<1>4. CASE place = 0
  BY <1>2, <1>4
<1>5. CASE place # 0
  <2>1. place \in 1..8
    BY <1>1, <1>5
  <2>. QED  BY <1>2, <1>3, <1>5, <2>1
<1>. QED  BY <1>4, <1>5

LEMMA EveryPathIsLinked ==
  ASSUME PathsAreUnique
  PROVE  GraphInputs \subseteq LinkedGraphs
<1>. SUFFICES ASSUME NEW g \in GraphInputs, NEW d \in g.docs, NEW parsed \in g.index,
                     NEW p \in DOMAIN parsed, p \in Range(Doc[d].relatedCode)
              PROVE  \E e \in GraphTable[g].edges :
                        /\ e.type = "AFFECTS" /\ e.from = DocNode(Doc[d]).id
                        /\ e.to \in {<<"code_file", PathText(p)>>, <<"test_file", PathText(p)>>}
  BY DEF LinkedGraphs
<1>. DEFINE docs == DocsOf(g.docs)
            index == Index(Texts(parsed))
            ids == {<<"code_file", PathText(p)>>, <<"test_file", PathText(p)>>}
            file == FileNode(p, Texts(parsed)[p])
<1>1. g.index = {parsed} /\ parsed \in Readings /\ d \in DOMAIN Doc
  BY DEF GraphInputs
<1>2. GraphTable[g] = Graph(docs, {index})
  <2>1. {Index(Texts(read)) : read \in g.index} = {index}
    BY <1>1
  <2>. HIDE DEF index
  <2>. QED  BY <2>1, GraphTableIs DEF GraphOf
<1>3. IsFinite(index)
  BY <1>1, TextsAreRead, IndexFinite, ConstantsAssumption DEF ConstantsAssumption
<1>4. /\ IsSeq(docs) /\ \A doc \in Range(docs) : IsFiniteSet(doc.concepts) /\ IsSeq(doc.relatedCode)
      /\ Range(docs) = {Doc[e] : e \in g.docs}
  <2>1. g.docs \cap DOMAIN Doc = g.docs
    BY DEF GraphInputs
  <2>. QED  BY <2>1, DocsOfFacts
<1>5. p \in Paths /\ PathOrder \in Seq(Paths)
  BY <1>1, ReadingsForm, ConstantsAssumption DEF ConstantsAssumption
<1>6. file \in index.files /\ file.path = p
  BY DEF Index, FileNodes, FileNode, Texts
<1>7. DocNode(Doc[d]).id \notin ids
  BY DocIsNoFile DEF DocNode, Node
<1>8. ASSUME NEW n \in NodesBefore(docs, index), PathText(p) \in n.aliases PROVE n.id \in ids
  <2>1. CASE \E e \in g.docs : n = DocNode(Doc[e])
    BY <1>1, <1>5, <1>8, <2>1 DEF PathsAreUnique, GraphInputs
  <2>2. CASE \E e \in g.docs : n \in ConceptNodes(Doc[e].concepts)
    BY <1>1, <1>5, <1>8, <2>2 DEF PathsAreUnique, GraphInputs, ConceptNodes, ConceptNode, Node
  <2>3. CASE \E m \in index.files : n = FileNodeOf(m)
    <3>1. PICK m \in index.files : n = FileNodeOf(m)
      BY <2>3
    <3>2. m.path \in Paths
      BY <1>1, ReadingsForm DEF Index, FileNodes, FileNode, Texts
    <3>3. PathText(p) \in PathAliases(m.path)
      BY <1>8, <3>1 DEF FileNodeOf, Node, PathAliases
    <3>4. PathText(m.path) = PathText(p)
      BY <1>1, <1>5, <3>2, <3>3 DEF PathsAreUnique
    <3>. QED  BY <3>1, <3>4 DEF FileNodeOf, Node
  <2>. QED  BY <1>4, <1>8, <2>1, <2>2, <2>3 DEF NodesBefore
<1>9. Doc[d] \in Range(docs)
  BY <1>4
<1>. HIDE DEF docs, index, ids, file
<1>10. \E e \in Graph(docs, {index}).edges : e.type = "AFFECTS" /\ e.from = DocNode(Doc[d]).id /\ e.to \in ids
  BY <1>3, <1>4, <1>5, <1>6, <1>7, <1>8, <1>9, WholePathIsLinked
<1>. QED  BY <1>2, <1>10 DEF ids

LEMMA PutFile ==
  ASSUME NEW ids \in FileReadings, NEW path \in Paths, NEW id \in Range(Versions[path])
  PROVE  Put(ids, path, id) \in FileReadings
<1>1. PICK put : put = Put(ids, path, id)
  OBVIOUS
<1>2. DOMAIN put = DOMAIN ids \cup {path} /\ IsFunction(put)
  BY <1>1, PutDomain, PutIsFunction
<1>3. put[path] = id
  BY <1>1, PutAt
<1>4. \A p \in DOMAIN ids \ {path} : put[p] = ids[p]
  BY <1>1, PutElsewhere
<1>5. DOMAIN ids \subseteq Paths /\ \A p \in DOMAIN ids : ids[p] \in Range(Versions[p])
  BY FileReadingsForm
<1>6. put \in FileReadings
  BY <1>2, <1>3, <1>4, <1>5, FileReadingsForm
<1>. QED  BY <1>1, <1>6

LEMMA PutReading ==
  ASSUME NEW ids \in Readings, NEW path \in Paths, NEW id \in Parsable(path)
  PROVE  Put(ids, path, id) \in Readings
<1>1. PICK put : put = Put(ids, path, id)
  OBVIOUS
<1>2. DOMAIN put = DOMAIN ids \cup {path} /\ IsFunction(put)
  BY <1>1, PutDomain, PutIsFunction
<1>3. put[path] = id
  BY <1>1, PutAt
<1>4. \A p \in DOMAIN ids \ {path} : put[p] = ids[p]
  BY <1>1, PutElsewhere
<1>5. DOMAIN ids \subseteq Paths /\ \A p \in DOMAIN ids : ids[p] \in Parsable(p)
  BY ReadingsForm
<1>6. put \in Readings
  BY <1>2, <1>3, <1>4, <1>5, ReadingsForm
<1>. QED  BY <1>1, <1>6

LEMMA RestrictFile ==
  ASSUME NEW ids \in FileReadings, NEW S \in SUBSET DOMAIN ids
  PROVE  Restrict(ids, S) \in FileReadings
<1>. DEFINE rest == Restrict(ids, S)
<1>1. DOMAIN rest = S /\ IsFunction(rest) /\ \A p \in S : rest[p] = ids[p]
  BY DEF Restrict, IsFunction
<1>2. DOMAIN ids \subseteq Paths /\ \A p \in DOMAIN ids : ids[p] \in Range(Versions[p])
  BY FileReadingsForm
<1>. HIDE DEF rest
<1>3. rest \in FileReadings
  BY <1>1, <1>2, FileReadingsForm
<1>. QED  BY <1>3 DEF rest

LEMMA NothingRead == None \in Readings /\ None \in FileReadings /\ DOMAIN None = {}
<1>1. DOMAIN None = {}
  BY DEF None
<1>2. IsFunction(None)
  BY <1>1, Zenon DEF None, IsFunction
<1>. QED  BY <1>1, <1>2, ReadingsForm, FileReadingsForm

LEMMA ReadingsAreReadings ==
  ASSUME NEW ids \in Readings \cup FileReadings
  PROVE  IsReading(ids)
<1>1. \A p \in Paths : Parsable(p) \subseteq TextIds /\ Range(Versions[p]) \subseteq TextIds
  BY ConstantsAssumption DEF Range, Parsable, TextIds
<1>2. CASE ids \in Readings
  <2>1. DOMAIN ids \subseteq Paths /\ \A p \in DOMAIN ids : ids[p] \in Parsable(p)
    BY <1>2, ReadingsForm
  <2>. QED  BY <1>1, <2>1 DEF IsReading
<1>3. CASE ids \in FileReadings
  <2>1. DOMAIN ids \subseteq Paths /\ \A p \in DOMAIN ids : ids[p] \in Range(Versions[p])
    BY <1>3, FileReadingsForm
  <2>. QED  BY <1>1, <2>1 DEF IsReading
<1>. QED  BY <1>2, <1>3

\* The first of some files is one of them.
LEMMA FirstIsIn ==
  ASSUME NEW S \in SUBSET Paths, S # {}
  PROVE  First(S) \in S
<1>. DEFINE places == {i \in DOMAIN PathOrder : PathOrder[i] \in S}
<1>1. DOMAIN PathOrder \subseteq Nat
  BY ConstantsAssumption
<1>2. places \in SUBSET Nat /\ places # {}
  BY <1>1 DEF Paths, Range
<1>3. PICK i \in places : \A j \in places : i <= j
  BY <1>2, LeastNat
<1>4. ASSUME NEW q \in S PROVE PathOrder[i] = q \/ Before(PathOrder[i], q)
  <2>1. PICK j \in places : PathOrder[j] = q
    BY DEF Paths, Range
  <2>2. i \in Nat /\ j \in Nat /\ i <= j
    BY <1>1, <1>3, <2>1
  <2>3. CASE i = j
    BY <2>1, <2>3
  <2>4. CASE i < j
    BY <2>1, <2>4 DEF Before
  <2>. QED  BY <2>2, <2>3, <2>4
<1>5. PathOrder[i] \in S
  OBVIOUS
<1>. QED  BY <1>4, <1>5 DEF First

-----------------------------------------------------------------------------
(* What a claim cites *)

\* No two documents of a pack are at one path.
Distinct(docs) == \A d, e \in docs : Doc[d].path = Doc[e].path => d = e

\* A claim that is not structural cites its document as the scan loaded it.
LEMMA CitedText ==
  ASSUME NEW made \in ScanInputs, Distinct(made.docs),
         NEW c \in ScanTable[made].claims, c.method # "structural"
  PROVE  /\ c.status # "approved"
         /\ c.span.source.content = TextIn(made, c.span.source.path)
<1>. DEFINE scan == ScanOf(made)
<1>1. c \in Claims(scan)
  BY ScanTableClaims
<1>2. scan.docs = {Doc[d] : d \in made.docs}
  BY DEF ScanOf
<1>. HIDE DEF scan
<1>3. ~\E path \in DOMAIN scan.parsed : c = FileClaim(scan, path)
  BY FileClaimForm DEF IsFileClaim
<1>4. ~\E symbol \in Range(AllSymbols(scan.parsed)) : c \in SymbolClaims(scan, symbol)
  BY SymbolClaimForm
<1>5. ~\E mapping \in MapTests(FileNodes(scan.parsed)) : c = TestMappingClaim(scan, mapping)
  BY TestMappingForm
<1>6. PICK doc \in scan.docs : IsDocClaim(scan, c, doc)
  BY <1>1, <1>3, <1>4, <1>5, ClaimKinds, DocClaimForm
<1>7. PICK d \in made.docs : doc = Doc[d]
  BY <1>2
<1>8. c.span.source.path = Doc[d].path /\ c.span.source.content = Content(Doc[d].text)
  BY <1>6, <1>7, DocSourceForm DEF IsDocClaim
<1>9. (CHOOSE e \in made.docs : Doc[e].path = Doc[d].path) = d
  BY DEF Distinct
<1>10. TextIn(made, Doc[d].path) = Content(Doc[d].text)
  BY <1>9 DEF TextIn
<1>11. c.status # "approved"
  BY <1>6 DEF IsDocClaim
<1>. QED  BY <1>8, <1>10, <1>11

\* Every event shows what the claim it is about cites.
Events ==
    UNION {{EventOf(ScanTable[made].claims, c, new) : c \in ScanTable[made].claims, new \in Decisions} :
           made \in ScanInputs}

LEMMA EventForm ==
  ASSUME NEW e \in Events
  PROVE  \E b : e.claim = ClaimId(b) /\ e.shown = b.span.source.content
<1>1. PICK made \in ScanInputs :
          \E b \in ScanTable[made].claims, new \in Decisions : e = EventOf(ScanTable[made].claims, b, new)
  BY DEF Events
<1>2. PICK b \in ScanTable[made].claims, new \in Decisions :
          e = EventOf(ScanTable[made].claims, b, new)
  BY <1>1
<1>3. \A claims, claim, n : /\ EventOf(claims, claim, n).claim = ClaimId(claim)
                            /\ EventOf(claims, claim, n).shown = claim.span.source.content
  BY DEF EventOf
<1>. QED  BY <1>2, <1>3

LEMMA SameIdSameSpan ==
  \A b, c : ClaimId(b) = ClaimId(c) => b.span = c.span
  BY DEF ClaimId

-----------------------------------------------------------------------------
(* One handler *)

Indexes == {{}} \cup {{parsed} : parsed \in Readings}

\* What a busy worker holds.
Handler ==
    [pc : Pcs, op : Ops, id : Nat, commit : 0..MaxEdits, paths : SUBSET Paths, parsed : Readings,
     read : FileReadings, docs : SUBSET DOMAIN Doc, index : Indexes]

\* How far a handler has come: which of the listed files it parsed, which of
\* them it read again, and that a graph's handler never stores a scan.
Progress(r) ==
    /\ DOMAIN r.parsed \subseteq r.paths /\ DOMAIN r.read \subseteq r.paths /\ Distinct(r.docs)
    /\ r.pc = "list" => DOMAIN r.parsed = {}
    /\ r.pc = "extract" => DOMAIN r.parsed # r.paths
    /\ r.pc \in {"save_index", "read", "load_docs", "save_scan"} => DOMAIN r.parsed = r.paths
    /\ r.pc = "log" /\ r.op = "scan" => DOMAIN r.parsed = r.paths
    /\ r.pc \notin {"read", "load_docs", "save_scan", "save_latest"} => DOMAIN r.read = {}
    /\ r.pc = "read" => DOMAIN r.read # r.paths
    /\ r.pc \in {"load_docs", "save_scan"} => DOMAIN r.read = r.paths
    /\ r.pc \in {"load_index", "load_pack", "save_graph"} => r.op = "graph"

\* n: the requests so far; scans: the ids of the scans that are stored.
HandlerOK(r, n, scans) ==
    /\ r \in Handler /\ r.id \in 1..n /\ Progress(r)
    /\ r.pc = "save_latest" => r.id \in scans

LEMMA PathsLeft ==
  ASSUME NEW r \in Handler, Progress(r)
  PROVE  /\ r.pc = "extract" => First(r.paths \ DOMAIN r.parsed) \in r.paths \ DOMAIN r.parsed
         /\ r.pc = "read" => First(r.paths \ DOMAIN r.read) \in r.paths \ DOMAIN r.read
<1>1. \A S \in SUBSET Paths : S # {} => First(S) \in S
  BY FirstIsIn
<1>2. r.paths \in SUBSET Paths
  BY DEF Handler
<1>3. DOMAIN r.parsed \subseteq r.paths /\ DOMAIN r.read \subseteq r.paths
  BY DEF Progress
<1>4. CASE r.pc = "extract"
  <2>1. DOMAIN r.parsed # r.paths
    BY <1>4 DEF Progress
  <2>. QED  BY <1>1, <1>2, <1>3, <1>4, <2>1
<1>5. CASE r.pc = "read"
  <2>1. DOMAIN r.read # r.paths
    BY <1>5 DEF Progress
  <2>. QED  BY <1>1, <1>2, <1>3, <1>5, <2>1
<1>. QED  BY <1>4, <1>5

LEMMA ListedAll ==
  ASSUME NEW r \in Handler, Progress(r), r.pc = "list", NEW files \in FileReadings
  PROVE  LET next == [r EXCEPT !.paths = DOMAIN files,
                               !.pc = IF files = None THEN "save_index" ELSE "extract"]
         IN  next \in Handler /\ Progress(next)
<1>1. DOMAIN files \subseteq Paths /\ IsFunction(files)
  BY FileReadingsForm
<1>2. files = None <=> DOMAIN files = {}
  BY <1>1 DEF None, IsFunction
<1>3. DOMAIN r.parsed = {} /\ DOMAIN r.read = {} /\ Distinct(r.docs)
  BY DEF Progress
<1>. DEFINE pc == IF files = None THEN "save_index" ELSE "extract"
            next == [r EXCEPT !.paths = DOMAIN files, !.pc = pc]
<1>4. next \in Handler
  BY <1>1 DEF Handler, Pcs
<1>5. /\ next.paths = DOMAIN files /\ next.pc = pc /\ next.parsed = r.parsed /\ next.read = r.read
      /\ next.docs = r.docs
  BY DEF Handler
<1>6. pc \in {"save_index", "extract"} /\ (pc = "extract" <=> DOMAIN files # {})
  BY <1>2
<1>. HIDE DEF next, pc
<1>7. Progress(next)
  BY <1>3, <1>5, <1>6 DEF Progress
<1>. QED  BY <1>4, <1>7 DEF next, pc

LEMMA ExtractedOne ==
  ASSUME NEW r \in Handler, Progress(r), r.pc = "extract",
         NEW path \in r.paths \ DOMAIN r.parsed, NEW id \in Parsable(path)
  PROVE  LET next == [r EXCEPT !.parsed = Put(@, path, id),
                               !.pc = IF DOMAIN r.parsed \cup {path} = r.paths
                                      THEN "save_index" ELSE "extract"]
         IN  next \in Handler /\ Progress(next)
<1>. DEFINE parsed == Put(r.parsed, path, id)
            pc == IF DOMAIN r.parsed \cup {path} = r.paths THEN "save_index" ELSE "extract"
            next == [r EXCEPT !.parsed = Put(@, path, id), !.pc = pc]
<1>1. r.paths \subseteq Paths /\ r.parsed \in Readings
  BY DEF Handler
<1>2. parsed \in Readings
  BY <1>1, PutReading
<1>3. DOMAIN parsed = DOMAIN r.parsed \cup {path}
  BY PutDomain
<1>4. next = [r EXCEPT !.parsed = parsed, !.pc = pc]
  BY DEF Handler
<1>5. pc \in {"save_index", "extract"} /\ (pc = "save_index" <=> DOMAIN r.parsed \cup {path} = r.paths)
  OBVIOUS
<1>. HIDE DEF parsed, pc, next
<1>6. next \in Handler
  BY <1>2, <1>4, <1>5 DEF Handler, Pcs
<1>7. /\ next.paths = r.paths /\ next.pc = pc /\ next.parsed = parsed /\ next.read = r.read
      /\ next.docs = r.docs
  BY <1>4 DEF Handler
<1>8. DOMAIN r.parsed \subseteq r.paths /\ DOMAIN r.read = {} /\ Distinct(r.docs)
  BY DEF Progress
<1>9. Progress(next)
  BY <1>3, <1>5, <1>7, <1>8 DEF Progress
<1>. QED  BY <1>6, <1>9 DEF next, pc

LEMMA ReadOne ==
  ASSUME NEW r \in Handler, Progress(r), r.pc = "read",
         NEW path \in r.paths \ DOMAIN r.read, NEW id \in Range(Versions[path])
  PROVE  LET next == [r EXCEPT !.read = Put(@, path, id),
                               !.pc = IF DOMAIN r.read \cup {path} = r.paths
                                      THEN "load_docs" ELSE "read"]
         IN  next \in Handler /\ Progress(next)
<1>. DEFINE read == Put(r.read, path, id)
            pc == IF DOMAIN r.read \cup {path} = r.paths THEN "load_docs" ELSE "read"
            next == [r EXCEPT !.read = Put(@, path, id), !.pc = pc]
<1>1. r.paths \subseteq Paths /\ r.read \in FileReadings
  BY DEF Handler
<1>2. read \in FileReadings
  BY <1>1, PutFile
<1>3. DOMAIN read = DOMAIN r.read \cup {path}
  BY PutDomain
<1>4. next = [r EXCEPT !.read = read, !.pc = pc]
  BY DEF Handler
<1>5. pc \in {"load_docs", "read"} /\ (pc = "load_docs" <=> DOMAIN r.read \cup {path} = r.paths)
  OBVIOUS
<1>. HIDE DEF read, pc, next
<1>6. next \in Handler
  BY <1>2, <1>4, <1>5 DEF Handler, Pcs
<1>7. /\ next.paths = r.paths /\ next.pc = pc /\ next.parsed = r.parsed /\ next.read = read
      /\ next.docs = r.docs
  BY <1>4 DEF Handler
<1>8. DOMAIN r.parsed = r.paths /\ DOMAIN r.read \subseteq r.paths /\ Distinct(r.docs)
  BY DEF Progress
<1>9. Progress(next)
  BY <1>3, <1>5, <1>7, <1>8 DEF Progress
<1>. QED  BY <1>6, <1>9 DEF next, pc

\* After its index is logged a scan reads the files again, if there are any.
LEMMA LoggedOne ==
  ASSUME NEW r \in Handler, Progress(r), r.pc = "log", r.op = "scan"
  PROVE  LET next == [r EXCEPT !.pc = IF r.paths = {} THEN "load_docs" ELSE "read"]
         IN  next \in Handler /\ Progress(next)
<1>. DEFINE pc == IF r.paths = {} THEN "load_docs" ELSE "read"
            next == [r EXCEPT !.pc = pc]
<1>1. next \in Handler
  BY DEF Handler, Pcs
<1>2. /\ next.paths = r.paths /\ next.pc = pc /\ next.parsed = r.parsed /\ next.read = r.read
      /\ next.docs = r.docs
  BY DEF Handler
<1>3. pc \in {"load_docs", "read"} /\ (pc = "load_docs" <=> r.paths = {})
  OBVIOUS
<1>. HIDE DEF pc, next
<1>4. DOMAIN r.parsed = r.paths /\ DOMAIN r.read = {} /\ Distinct(r.docs)
  BY DEF Progress
<1>5. Progress(next)
  BY <1>2, <1>3, <1>4 DEF Progress
<1>. QED  BY <1>1, <1>5 DEF pc, next

\* A step that only goes on, or that loads documents or an index.
LEMMA Onward ==
  ASSUME NEW r \in Handler, Progress(r), NEW pc \in Pcs, NEW docs \in SUBSET DOMAIN Doc, Distinct(docs),
         NEW index \in Indexes,
         \/ r.pc = "save_index" /\ pc = "log"
         \/ r.pc = "load_docs" /\ pc = "save_scan"
         \/ r.pc = "save_scan" /\ pc = "save_latest"
         \/ r.pc = "load_index" /\ pc = "load_pack"
         \/ r.pc = "load_pack" /\ pc = "save_graph"
         \/ r.pc = "save_graph" /\ pc = "log"
  PROVE  LET next == [r EXCEPT !.docs = docs, !.index = index, !.pc = pc]
         IN  next \in Handler /\ Progress(next)
<1>. DEFINE next == [r EXCEPT !.docs = docs, !.index = index, !.pc = pc]
<1>1. next \in Handler
  BY DEF Handler, Pcs
<1>2. /\ next.paths = r.paths /\ next.pc = pc /\ next.parsed = r.parsed /\ next.read = r.read
      /\ next.docs = docs /\ next.op = r.op
  BY DEF Handler
<1>. HIDE DEF next
<1>3. Progress(next)
  BY <1>2 DEF Progress
<1>. QED  BY <1>1, <1>3 DEF next

-----------------------------------------------------------------------------
(* The invariant *)

SourcesOK ==
    /\ tree \in FileReadings /\ shelf \subseteq DOMAIN Doc /\ Distinct(shelf)
    /\ head \in Nat /\ edits \in 0..MaxEdits /\ head <= edits

ScanIds == {s.id : s \in savedScans}

StoresOK ==
    /\ savedIndex \in Indexes /\ savedGraph \subseteq GraphInputs
    /\ \A s \in savedScans : s.id \in 1..requests /\ s.made \in ScanInputs /\ Distinct(s.made.docs)
    /\ latest \subseteq ScanIds
    /\ audit \subseteq 1..requests /\ evals \subseteq (1..requests) \X BOOLEAN
    /\ ledger \in Seq(Events)

HandlersOK ==
    /\ worker \in [Workers -> {Idle} \cup Handler]
    /\ \A w \in Workers : worker[w] = Idle \/ HandlerOK(worker[w], requests, ScanIds)

WorkspaceInv ==
    /\ requests \in Nat /\ aborts \in Nat
    /\ SourcesOK /\ StoresOK /\ HandlersOK

LEMMA StillOK ==
  ASSUME NEW r, NEW n \in Nat, NEW m \in Nat, n <= m, NEW ids, NEW more, ids \subseteq more,
         HandlerOK(r, n, ids)
  PROVE  HandlerOK(r, m, more)
<1>1. 1..n \subseteq 1..m
  OBVIOUS
<1>. QED  BY <1>1 DEF HandlerOK

\* Where one worker's step leaves the others alone, only that worker's counts.
LEMMA OneWorker ==
  ASSUME HandlersOK, requests \in Nat, requests' \in Nat, requests <= requests', ScanIds \subseteq ScanIds',
         NEW w \in Workers, NEW r \in {Idle} \cup Handler,
         r = Idle \/ HandlerOK(r, requests', ScanIds'),
         worker' = [worker EXCEPT ![w] = r]
  PROVE  HandlersOK'
<1>1. worker' \in [Workers -> {Idle} \cup Handler]
  BY DEF HandlersOK
<1>2. ASSUME NEW v \in Workers PROVE worker'[v] = Idle \/ HandlerOK(worker'[v], requests', ScanIds')
  <2>1. CASE v = w
    BY <2>1 DEF HandlersOK
  <2>2. CASE v # w
    <3>1. worker'[v] = worker[v]
      BY <2>2 DEF HandlersOK
    <3>. QED  BY <3>1, StillOK DEF HandlersOK
  <2>. QED  BY <2>1, <2>2
<1>. QED  BY <1>1, <1>2 DEF HandlersOK

\* A step of the environment, or a request about a stored scan.
LEMMA NoWorker ==
  ASSUME HandlersOK, requests \in Nat, requests' \in Nat, requests <= requests', ScanIds \subseteq ScanIds',
         UNCHANGED worker
  PROVE  HandlersOK'
<1>1. ASSUME NEW v \in Workers PROVE worker'[v] = Idle \/ HandlerOK(worker'[v], requests', ScanIds')
  BY StillOK DEF HandlersOK
<1>. QED  BY <1>1 DEF HandlersOK

LEMMA AtWork ==
  ASSUME HandlersOK, NEW w \in Workers, NEW pc \in Pcs, At(w, pc)
  PROVE  /\ worker[w] \in Handler /\ Progress(worker[w]) /\ HandlerOK(worker[w], requests, ScanIds)
         /\ worker[w].pc = pc
<1>1. Idle.pc = "idle" /\ "idle" \notin Pcs
  BY DEF Idle, Pcs
<1>2. worker[w].pc = pc
  BY DEF At
<1>3. HandlerOK(worker[w], requests, ScanIds)
  BY <1>1, <1>2 DEF HandlersOK
<1>. QED  BY <1>2, <1>3 DEF HandlerOK

\* The stored data stay right as requests are counted.
LEMMA SameStores ==
  ASSUME StoresOK, requests \in Nat, requests' \in Nat, requests <= requests', UNCHANGED stores
  PROVE  StoresOK' /\ ScanIds' = ScanIds
<1>1. 1..requests \subseteq 1..requests'
  OBVIOUS
<1>2. ScanIds' = ScanIds
  BY DEF ScanIds, stores
<1>3. evals \subseteq (1..requests') \X BOOLEAN
  BY <1>1 DEF StoresOK
<1>. QED  BY <1>1, <1>2, <1>3 DEF StoresOK, stores

\* A step of a worker that goes on and changes nothing but what it holds.
LEMMA LocalStep ==
  ASSUME WorkspaceInv, NEW w \in Workers, NEW next \in Handler,
         HandlerOK(worker[w], requests, ScanIds), Progress(next),
         next.id = worker[w].id, next.pc # "save_latest", Local(w, next)
  PROVE  WorkspaceInv'
<1>1. UNCHANGED <<sources, stores, bounds>> /\ worker' = [worker EXCEPT ![w] = next]
  BY DEF Local
<1>2. UNCHANGED <<tree, shelf, head, edits, requests, aborts>> /\ UNCHANGED stores
  BY <1>1 DEF sources, bounds
<1>3. StoresOK' /\ ScanIds' = ScanIds
  BY <1>2, SameStores DEF WorkspaceInv
<1>4. HandlerOK(next, requests', ScanIds')
  BY <1>2 DEF HandlerOK
<1>5. HandlersOK'
  <2>1. HandlersOK /\ requests \in Nat /\ requests' \in Nat /\ requests <= requests'
    BY <1>2 DEF WorkspaceInv
  <2>2. ScanIds \subseteq ScanIds' /\ next \in {Idle} \cup Handler
    BY <1>3
  <2>. QED  BY <1>1, <1>4, <2>1, <2>2, OneWorker
<1>6. SourcesOK'
  BY <1>2 DEF WorkspaceInv, SourcesOK
<1>. QED  BY <1>2, <1>3, <1>5, <1>6 DEF WorkspaceInv

LEMMA FailStep ==
  ASSUME WorkspaceInv, NEW w \in Workers, Fail(w)
  PROVE  WorkspaceInv'
<1>1. UNCHANGED <<sources, stores, bounds>> /\ worker' = [worker EXCEPT ![w] = Idle]
  BY DEF Fail, Return
<1>2. UNCHANGED <<tree, shelf, head, edits, requests, aborts>> /\ UNCHANGED stores
  BY <1>1 DEF sources, bounds
<1>3. StoresOK' /\ ScanIds' = ScanIds
  BY <1>2, SameStores DEF WorkspaceInv
<1>4. HandlersOK'
  <2>1. HandlersOK /\ requests \in Nat /\ requests' \in Nat /\ requests <= requests'
    BY <1>2 DEF WorkspaceInv
  <2>2. ScanIds \subseteq ScanIds' /\ Idle \in {Idle} \cup Handler
    BY <1>3
  <2>. QED  BY <1>1, <2>1, <2>2, OneWorker
<1>5. SourcesOK'
  BY <1>2 DEF WorkspaceInv, SourcesOK
<1>. QED  BY <1>2, <1>3, <1>4, <1>5 DEF WorkspaceInv

LEMMA InitInv == Init => WorkspaceInv
<1>. SUFFICES ASSUME Init PROVE WorkspaceInv
  OBVIOUS
<1>1. tree \in FileReadings
  <2>1. \A p \in Paths : Versions[p][1] \in Range(Versions[p]) /\ Range(Versions[p]) \subseteq DOMAIN Text
    <3>. SUFFICES ASSUME NEW p \in Paths
                  PROVE  Versions[p][1] \in Range(Versions[p]) /\ Range(Versions[p]) \subseteq DOMAIN Text
      OBVIOUS
    <3>1. Versions[p] # <<>> /\ Versions[p] \in Seq(DOMAIN Text)
      BY ConstantsAssumption
    <3>. QED  BY <3>1 DEF Range
  <2>. DEFINE files == [p \in Paths |-> Versions[p][1]]
  <2>2. DOMAIN files = Paths /\ IsFunction(files) /\ \A p \in Paths : files[p] = Versions[p][1]
    BY DEF IsFunction
  <2>3. tree = files
    BY DEF Init
  <2>. HIDE DEF files
  <2>. QED  BY <2>1, <2>2, <2>3, FileReadingsForm
<1>2. SourcesOK
  BY <1>1, ConstantsAssumption DEF Init, SourcesOK, Distinct
<1>3. StoresOK
  BY DEF Init, StoresOK, Indexes
<1>4. HandlersOK
  BY DEF Init, HandlersOK
<1>. QED  BY <1>2, <1>3, <1>4 DEF Init, WorkspaceInv

LEMMA EditStep ==
  ASSUME WorkspaceInv, Edit, SourcesOK'
  PROVE  WorkspaceInv'
<1>1. UNCHANGED stores /\ UNCHANGED worker /\ requests' = requests /\ aborts' = aborts
  BY DEF Edit
<1>2. requests \in Nat /\ requests' \in Nat /\ requests <= requests' /\ StoresOK /\ HandlersOK
  BY <1>1 DEF WorkspaceInv
<1>3. StoresOK' /\ ScanIds' = ScanIds
  BY <1>1, <1>2, SameStores
<1>4. ScanIds \subseteq ScanIds'
  BY <1>3
<1>5. HandlersOK'
  BY <1>1, <1>2, <1>4, NoWorker
<1>. QED  BY <1>1, <1>3, <1>5 DEF WorkspaceInv

LEMMA EnvironmentInv ==
  ASSUME WorkspaceInv, Environment
  PROVE  WorkspaceInv'
<1>0. SourcesOK
  BY DEF WorkspaceInv
<1>1. Edit => edits' \in 0..MaxEdits /\ edits' = edits + 1
  BY <1>0, ConstantsAssumption DEF Edit, SourcesOK
<1>2. ASSUME NEW path \in Paths, NEW id \in Range(Versions[path]), WriteFile(path, id)
      PROVE  WorkspaceInv'
  <2>1. Put(tree, path, id) \in FileReadings
    BY <1>0, PutFile DEF SourcesOK
  <2>2. SourcesOK'
    BY <1>0, <1>1, <1>2, <2>1 DEF SourcesOK, WriteFile
  <2>. QED  BY <1>2, <2>2, EditStep DEF WriteFile
<1>3. ASSUME NEW path \in Paths, DeleteFile(path)
      PROVE  WorkspaceInv'
  <2>1. Restrict(tree, DOMAIN tree \ {path}) \in FileReadings
    BY <1>0, RestrictFile DEF SourcesOK
  <2>2. SourcesOK'
    BY <1>0, <1>1, <1>3, <2>1 DEF SourcesOK, DeleteFile
  <2>. QED  BY <1>3, <2>2, EditStep DEF DeleteFile
<1>4. ASSUME NEW id \in DOMAIN Doc, WriteDoc(id)
      PROVE  WorkspaceInv'
  <2>1. shelf' = {d \in shelf : Doc[d].path # Doc[id].path} \cup {id}
    BY <1>4 DEF WriteDoc
  <2>2. Distinct(shelf')
    BY <1>0, <2>1 DEF Distinct, SourcesOK
  <2>3. shelf' \subseteq DOMAIN Doc
    BY <1>0, <2>1 DEF SourcesOK
  <2>4. SourcesOK'
    BY <1>0, <1>1, <1>4, <2>2, <2>3 DEF SourcesOK, WriteDoc
  <2>. QED  BY <1>4, <2>4, EditStep DEF WriteDoc
<1>5. ASSUME Commit
      PROVE  WorkspaceInv'
  <2>1. SourcesOK'
    BY <1>0, <1>1, <1>5 DEF SourcesOK, Commit
  <2>. QED  BY <1>5, <2>1, EditStep DEF Commit
<1>. QED  BY <1>2, <1>3, <1>4, <1>5 DEF Environment

LEMMA ServeStep ==
  ASSUME WorkspaceInv, NEW w \in Workers, NEW op \in Ops, NEW pc \in Pcs, Serve(w, op, pc),
         pc \in {"list", "load_index"}, pc = "load_index" => op = "graph"
  PROVE  WorkspaceInv'
<1>. DEFINE r == [pc |-> pc, op |-> op, id |-> requests + 1, commit |-> head, paths |-> {},
                  parsed |-> None, read |-> None, docs |-> {}, index |-> {}]
<1>1. /\ UNCHANGED <<tree, shelf, head, edits, aborts>> /\ UNCHANGED stores
      /\ requests' = requests + 1 /\ worker' = [worker EXCEPT ![w] = r]
  BY DEF Serve, sources
<1>2. HandlersOK /\ requests \in Nat /\ requests' \in Nat /\ requests <= requests' /\ StoresOK /\ SourcesOK
  BY <1>1 DEF WorkspaceInv
<1>3. StoresOK' /\ ScanIds' = ScanIds
  BY <1>1, <1>2, SameStores
<1>4. head \in 0..MaxEdits
  BY <1>2, ConstantsAssumption DEF SourcesOK
<1>5. /\ r.pc = pc /\ r.op = op /\ r.id = requests + 1 /\ r.paths = {} /\ r.parsed = None /\ r.read = None
      /\ r.docs = {}
  OBVIOUS
<1>6. r \in Handler
  BY <1>2, <1>4, NothingRead DEF Handler, Indexes
<1>. HIDE DEF r
<1>7. Progress(r)
  BY <1>5, NothingRead DEF Progress, Distinct
<1>8. HandlerOK(r, requests', ScanIds')
  BY <1>1, <1>2, <1>5, <1>6, <1>7 DEF HandlerOK
<1>9. ScanIds \subseteq ScanIds' /\ r \in {Idle} \cup Handler
  BY <1>3, <1>6
<1>10. HandlersOK'
  BY <1>1, <1>2, <1>8, <1>9, OneWorker
<1>11. SourcesOK'
  BY <1>1, <1>2 DEF SourcesOK
<1>. QED  BY <1>1, <1>2, <1>3, <1>10, <1>11 DEF WorkspaceInv

\* Reviewing or evaluating a scan that is stored.
LEMMA RequestInv ==
  ASSUME WorkspaceInv, Request
  PROVE  WorkspaceInv'
<1>1. ASSUME NEW w \in Workers, IndexCodebase(w) \/ ScanMemory(w) \/ BuildGraph(w)
      PROVE  WorkspaceInv'
  <2>1. /\ "list" \in Pcs /\ "load_index" \in Pcs
        /\ "index" \in Ops /\ "scan" \in Ops /\ "graph" \in Ops
    BY DEF Pcs, Ops
  <2>2. CASE IndexCodebase(w)
    <3>1. Serve(w, "index", "list")
      BY <2>2 DEF IndexCodebase
    <3>. QED  BY <2>1, <3>1, ServeStep
  <2>3. CASE ScanMemory(w)
    <3>1. Serve(w, "scan", "list")
      BY <2>3 DEF ScanMemory
    <3>. QED  BY <2>1, <3>1, ServeStep
  <2>4. CASE BuildGraph(w)
    <3>1. Serve(w, "graph", "load_index")
      BY <2>4 DEF BuildGraph
    <3>. QED  BY <2>1, <3>1, ServeStep
  <2>. QED  BY <1>1, <2>2, <2>3, <2>4
<1>2. ASSUME NEW scan \in savedScans, EvaluateScan(scan) \/ ReviewScan(scan)
      PROVE  WorkspaceInv'
  <2>1. /\ UNCHANGED <<tree, shelf, head, edits, aborts, worker>>
        /\ UNCHANGED <<savedIndex, savedGraph, savedScans, latest, audit>>
        /\ requests' = requests + 1
    BY <1>2 DEF EvaluateScan, ReviewScan, sources
  <2>2. HandlersOK /\ requests \in Nat /\ requests' \in Nat /\ requests <= requests' /\ StoresOK /\ SourcesOK
    BY <2>1 DEF WorkspaceInv
  <2>3. 1..requests \subseteq 1..requests'
    BY <2>2
  <2>4. ScanIds' = ScanIds
    BY <2>1 DEF ScanIds
  <2>5. scan.id \in 1..requests /\ scan.made \in ScanInputs
    BY <2>2 DEF StoresOK
  <2>6. evals' \subseteq (1..requests') \X BOOLEAN
    <3>1. CASE EvaluateScan(scan)
      <4>1. evals' = evals \cup {<<scan.id, scan.made \in PassingScans>>}
        BY <3>1 DEF EvaluateScan
      <4>2. evals' = evals \cup {<<scan.id, TRUE>>}
        BY <2>5, <4>1, EveryScanPasses
      <4>3. scan.id \in 1..requests'
        BY <2>3, <2>5
      <4>4. evals \subseteq (1..requests') \X BOOLEAN
        BY <2>2, <2>3 DEF StoresOK
      <4>5. <<scan.id, TRUE>> \in (1..requests') \X BOOLEAN
        BY <4>3
      <4>. QED  BY <4>2, <4>4, <4>5
    <3>2. CASE ReviewScan(scan)
      BY <2>2, <2>3, <3>2 DEF ReviewScan, StoresOK
    <3>. QED  BY <1>2, <3>1, <3>2
  <2>7. ledger' \in Seq(Events)
    <3>1. CASE EvaluateScan(scan)
      BY <2>2, <3>1 DEF EvaluateScan, StoresOK
    <3>2. CASE ReviewScan(scan)
      <4>1. PICK claim \in ScanTable[scan.made].claims, new \in Decisions :
                ledger' = Append(ledger, EventOf(ScanTable[scan.made].claims, claim, new))
        BY <3>2 DEF ReviewScan
      <4>2. EventOf(ScanTable[scan.made].claims, claim, new) \in Events
        BY <2>5 DEF Events
      <4>. QED  BY <2>2, <4>1, <4>2 DEF StoresOK
    <3>. QED  BY <1>2, <3>1, <3>2
  <2>8. StoresOK'
    BY <2>1, <2>2, <2>3, <2>4, <2>6, <2>7 DEF StoresOK
  <2>9. ScanIds \subseteq ScanIds'
    BY <2>4
  <2>10. HandlersOK'
    BY <2>1, <2>2, <2>9, NoWorker
  <2>11. SourcesOK'
    BY <2>1, <2>2 DEF SourcesOK
  <2>. QED  BY <2>1, <2>2, <2>8, <2>10, <2>11 DEF WorkspaceInv
<1>. QED  BY <1>1, <1>2 DEF Request

-----------------------------------------------------------------------------
(* The steps of a handler *)

LEMMA ListStep ==
  ASSUME WorkspaceInv, NEW w \in Workers, List(w)
  PROVE  WorkspaceInv'
<1>. DEFINE next == [worker[w] EXCEPT !.paths = DOMAIN tree,
                                      !.pc = IF tree = None THEN "save_index" ELSE "extract"]
<1>1. At(w, "list") /\ Local(w, next) /\ "list" \in Pcs
  BY DEF List, Pcs
<1>2. /\ worker[w] \in Handler /\ Progress(worker[w]) /\ HandlerOK(worker[w], requests, ScanIds)
      /\ worker[w].pc = "list"
  BY <1>1, AtWork DEF WorkspaceInv
<1>3. tree \in FileReadings
  BY DEF WorkspaceInv, SourcesOK
<1>4. next \in Handler /\ Progress(next)
  BY <1>2, <1>3, ListedAll
<1>5. next.id = worker[w].id /\ next.pc # "save_latest"
  BY <1>2 DEF Handler
<1>. HIDE DEF next
<1>. QED  BY <1>1, <1>2, <1>4, <1>5, LocalStep

LEMMA ExtractStep ==
  ASSUME WorkspaceInv, NEW w \in Workers, Extract(w)
  PROVE  WorkspaceInv'
<1>. DEFINE r == worker[w]
            path == First(r.paths \ DOMAIN r.parsed)
            id == IF IsParsed(path) THEN tree[path] ELSE Unread
            next == [r EXCEPT !.parsed = Put(@, path, id),
                              !.pc = IF DOMAIN r.parsed \cup {path} = r.paths
                                     THEN "save_index" ELSE "extract"]
<1>1. At(w, "extract") /\ "extract" \in Pcs
  BY DEF Extract, Pcs
<1>2. r \in Handler /\ Progress(r) /\ HandlerOK(r, requests, ScanIds) /\ r.pc = "extract"
  BY <1>1, AtWork DEF WorkspaceInv
<1>3. CASE IsParsed(path) /\ path \notin DOMAIN tree
  BY <1>3, FailStep DEF Extract
<1>4. CASE ~(IsParsed(path) /\ path \notin DOMAIN tree)
  <2>1. Local(w, next)
    BY <1>4 DEF Extract
  <2>2. path \in r.paths \ DOMAIN r.parsed
    BY <1>2, PathsLeft
  <2>3. id \in Parsable(path)
    <3>1. \A p \in DOMAIN tree : tree[p] \in Range(Versions[p])
      BY FileReadingsForm DEF WorkspaceInv, SourcesOK
    <3>. HIDE DEF path
    <3>. QED  BY <1>4, <3>1 DEF Parsable
  <2>. HIDE DEF r, path, id
  <2>4. next \in Handler /\ Progress(next)
    BY <1>2, <2>2, <2>3, ExtractedOne
  <2>5. next.id = r.id /\ next.pc # "save_latest"
    BY <1>2 DEF Handler
  <2>. HIDE DEF next
  <2>. QED  BY <1>2, <2>1, <2>4, <2>5, LocalStep DEF r
<1>. QED  BY <1>3, <1>4

LEMMA ReadStep ==
  ASSUME WorkspaceInv, NEW w \in Workers, Read(w)
  PROVE  WorkspaceInv'
<1>. DEFINE r == worker[w]
            path == First(r.paths \ DOMAIN r.read)
            next == [r EXCEPT !.read = Put(@, path, tree[path]),
                              !.pc = IF DOMAIN r.read \cup {path} = r.paths THEN "load_docs" ELSE "read"]
<1>1. At(w, "read") /\ "read" \in Pcs
  BY DEF Read, Pcs
<1>2. r \in Handler /\ Progress(r) /\ HandlerOK(r, requests, ScanIds) /\ r.pc = "read"
  BY <1>1, AtWork DEF WorkspaceInv
<1>3. CASE path \notin DOMAIN tree
  BY <1>3, FailStep DEF Read
<1>4. CASE path \in DOMAIN tree
  <2>1. Local(w, next)
    BY <1>4 DEF Read
  <2>2. path \in r.paths \ DOMAIN r.read
    BY <1>2, PathsLeft
  <2>3. tree[path] \in Range(Versions[path])
    <3>1. \A p \in DOMAIN tree : tree[p] \in Range(Versions[p])
      BY FileReadingsForm DEF WorkspaceInv, SourcesOK
    <3>. HIDE DEF path
    <3>. QED  BY <1>4, <3>1
  <2>. HIDE DEF r, path
  <2>4. next \in Handler /\ Progress(next)
    BY <1>2, <2>2, <2>3, ReadOne
  <2>5. next.id = r.id /\ next.pc # "save_latest"
    BY <1>2 DEF Handler
  <2>. HIDE DEF next
  <2>. QED  BY <1>2, <2>1, <2>4, <2>5, LocalStep DEF r
<1>. QED  BY <1>3, <1>4

\* The documents and the index are loaded in one step each.
LEMMA LoadStep ==
  ASSUME WorkspaceInv, NEW w \in Workers, LoadDocs(w) \/ LoadIndex(w) \/ LoadPack(w)
  PROVE  WorkspaceInv'
<1>1. SourcesOK /\ StoresOK /\ HandlersOK
  BY DEF WorkspaceInv
<1>2. PICK pc, next :
          /\ At(w, pc) /\ Local(w, next)
          /\ \/ pc = "load_docs" /\ next = [worker[w] EXCEPT !.docs = shelf, !.pc = "save_scan"]
             \/ pc = "load_index" /\ next = [worker[w] EXCEPT !.index = savedIndex, !.pc = "load_pack"]
             \/ pc = "load_pack" /\ next = [worker[w] EXCEPT !.docs = shelf, !.pc = "save_graph"]
  BY DEF LoadDocs, LoadIndex, LoadPack
<1>3. pc \in Pcs
  BY <1>2 DEF Pcs
<1>. DEFINE r == worker[w]
<1>4. r \in Handler /\ Progress(r) /\ HandlerOK(r, requests, ScanIds) /\ r.pc = pc
  BY <1>1, <1>2, <1>3, AtWork
<1>5. /\ r.docs \in SUBSET DOMAIN Doc /\ Distinct(r.docs) /\ r.index \in Indexes
      /\ shelf \in SUBSET DOMAIN Doc /\ Distinct(shelf) /\ savedIndex \in Indexes
  BY <1>1, <1>4 DEF Handler, Progress, SourcesOK, StoresOK
<1>6. {"save_scan", "load_pack", "save_graph"} \subseteq Pcs
  BY DEF Pcs
<1>7. next \in Handler /\ Progress(next) /\ next.id = r.id /\ next.pc # "save_latest"
  <2>1. CASE pc = "load_docs"
    <3>1. next = [r EXCEPT !.docs = shelf, !.index = r.index, !.pc = "save_scan"]
      BY <1>2, <1>4, <2>1 DEF Handler
    <3>. HIDE DEF r
    <3>2. next \in Handler /\ Progress(next)
      BY <1>4, <1>5, <1>6, <2>1, <3>1, Onward
    <3>. QED  BY <1>4, <3>1, <3>2 DEF Handler
  <2>2. CASE pc = "load_index"
    <3>1. next = [r EXCEPT !.docs = r.docs, !.index = savedIndex, !.pc = "load_pack"]
      BY <1>2, <1>4, <2>2 DEF Handler
    <3>. HIDE DEF r
    <3>2. next \in Handler /\ Progress(next)
      BY <1>4, <1>5, <1>6, <2>2, <3>1, Onward
    <3>. QED  BY <1>4, <3>1, <3>2 DEF Handler
  <2>3. CASE pc = "load_pack"
    <3>1. next = [r EXCEPT !.docs = shelf, !.index = r.index, !.pc = "save_graph"]
      BY <1>2, <1>4, <2>3 DEF Handler
    <3>. HIDE DEF r
    <3>2. next \in Handler /\ Progress(next)
      BY <1>4, <1>5, <1>6, <2>3, <3>1, Onward
    <3>. QED  BY <1>4, <3>1, <3>2 DEF Handler
  <2>. QED  BY <1>2, <2>1, <2>2, <2>3
<1>. QED  BY <1>2, <1>4, <1>7, LocalStep

\* A handler that goes on without loading anything.
LEMMA GoesOn ==
  ASSUME HandlersOK, NEW w \in Workers, NEW r, r = worker[w], HandlerOK(r, requests, ScanIds),
         NEW pc \in Pcs, GoTo(w, pc),
         \/ r.pc = "save_index" /\ pc = "log"
         \/ r.pc = "save_scan" /\ pc = "save_latest"
         \/ r.pc = "save_graph" /\ pc = "log"
  PROVE  \E next \in Handler : /\ Progress(next) /\ next.id = r.id /\ next.pc = pc
                               /\ worker' = [worker EXCEPT ![w] = next]
<1>1. r \in Handler /\ Progress(r)
  BY DEF HandlerOK
<1>2. r.docs \in SUBSET DOMAIN Doc /\ Distinct(r.docs) /\ r.index \in Indexes
  BY <1>1 DEF Handler, Progress
<1>. DEFINE next == [r EXCEPT !.pc = pc]
<1>3. next = [r EXCEPT !.docs = r.docs, !.index = r.index, !.pc = pc]
  BY <1>1 DEF Handler
<1>4. next \in Handler /\ Progress(next)
  <2>. HIDE DEF next
  <2>. QED  BY <1>1, <1>2, <1>3, Onward
<1>5. next.id = r.id /\ next.pc = pc
  BY <1>1 DEF Handler
<1>6. worker' = [worker EXCEPT ![w] = next]
  BY DEF GoTo, HandlersOK
<1>. HIDE DEF next
<1>. QED  BY <1>4, <1>5, <1>6

\* What of the stores and the counters stays as it is while a handler saves.
LEMMA SavingStep ==
  ASSUME WorkspaceInv, UNCHANGED <<sources, bounds>>, ScanIds \subseteq ScanIds', StoresOK',
         NEW w \in Workers, NEW r \in {Idle} \cup Handler,
         r = Idle \/ HandlerOK(r, requests, ScanIds'),
         worker' = [worker EXCEPT ![w] = r]
  PROVE  WorkspaceInv'
<1>1. UNCHANGED <<tree, shelf, head, edits, requests, aborts>>
  BY DEF sources, bounds
<1>2. HandlersOK /\ SourcesOK /\ requests \in Nat /\ requests' \in Nat /\ requests <= requests'
  BY <1>1 DEF WorkspaceInv
<1>3. r = Idle \/ HandlerOK(r, requests', ScanIds')
  BY <1>1
<1>4. HandlersOK'
  BY <1>2, <1>3, OneWorker
<1>5. SourcesOK'
  BY <1>1, <1>2 DEF SourcesOK
<1>. QED  BY <1>1, <1>2, <1>4, <1>5 DEF WorkspaceInv

LEMMA SaveIndexStep ==
  ASSUME WorkspaceInv, NEW w \in Workers, SaveIndex(w)
  PROVE  WorkspaceInv'
<1>1. /\ At(w, "save_index") /\ GoTo(w, "log") /\ savedIndex' = {worker[w].parsed}
      /\ UNCHANGED <<sources, bounds>>
      /\ UNCHANGED <<savedGraph, savedScans, latest, ledger, evals, audit, requests>>
      /\ {"save_index", "log"} \subseteq Pcs
  BY DEF SaveIndex, Pcs, bounds
<1>2. HandlersOK /\ StoresOK
  BY DEF WorkspaceInv
<1>3. HandlerOK(worker[w], requests, ScanIds) /\ worker[w].pc = "save_index" /\ worker[w] \in Handler
  BY <1>1, <1>2, AtWork
<1>4. PICK next \in Handler : /\ Progress(next) /\ next.id = worker[w].id /\ next.pc = "log"
                              /\ worker' = [worker EXCEPT ![w] = next]
  BY <1>1, <1>2, <1>3, GoesOn
<1>5. savedIndex' \in Indexes
  BY <1>1, <1>3 DEF Indexes, Handler
<1>6. ScanIds' = ScanIds
  BY <1>1 DEF ScanIds
<1>7. StoresOK'
  BY <1>1, <1>2, <1>5, <1>6 DEF StoresOK
<1>8. HandlerOK(next, requests, ScanIds')
  BY <1>3, <1>4 DEF HandlerOK
<1>9. ScanIds \subseteq ScanIds' /\ next \in {Idle} \cup Handler
  BY <1>6
<1>. QED  BY <1>1, <1>4, <1>7, <1>8, <1>9, SavingStep

LEMMA SaveGraphStep ==
  ASSUME WorkspaceInv, NEW w \in Workers, SaveGraph(w)
  PROVE  WorkspaceInv'
<1>1. /\ At(w, "save_graph") /\ GoTo(w, "log")
      /\ savedGraph' = {[docs |-> worker[w].docs, index |-> worker[w].index]}
      /\ UNCHANGED <<sources, bounds>>
      /\ UNCHANGED <<savedIndex, savedScans, latest, ledger, evals, audit, requests>>
      /\ {"save_graph", "log"} \subseteq Pcs
  BY DEF SaveGraph, Pcs, bounds
<1>2. HandlersOK /\ StoresOK
  BY DEF WorkspaceInv
<1>3. HandlerOK(worker[w], requests, ScanIds) /\ worker[w].pc = "save_graph" /\ worker[w] \in Handler
  BY <1>1, <1>2, AtWork
<1>4. PICK next \in Handler : /\ Progress(next) /\ next.id = worker[w].id /\ next.pc = "log"
                              /\ worker' = [worker EXCEPT ![w] = next]
  BY <1>1, <1>2, <1>3, GoesOn
<1>5. savedGraph' \subseteq GraphInputs
  <2>1. worker[w].docs \in SUBSET DOMAIN Doc /\ worker[w].index \in Indexes
    BY <1>3 DEF Handler
  <2>. QED  BY <1>1, <2>1 DEF GraphInputs, Indexes
<1>6. ScanIds' = ScanIds
  BY <1>1 DEF ScanIds
<1>7. StoresOK'
  BY <1>1, <1>2, <1>5, <1>6 DEF StoresOK
<1>8. HandlerOK(next, requests, ScanIds')
  BY <1>3, <1>4 DEF HandlerOK
<1>9. ScanIds \subseteq ScanIds' /\ next \in {Idle} \cup Handler
  BY <1>6
<1>. QED  BY <1>1, <1>4, <1>7, <1>8, <1>9, SavingStep

\* What is stored as a scan was read of the files the index was made of.
LEMMA SaveScanStep ==
  ASSUME WorkspaceInv, NEW w \in Workers, SaveScan(w)
  PROVE  WorkspaceInv'
<1>. DEFINE r == worker[w]
            made == [parsed |-> r.parsed, read |-> r.read, docs |-> r.docs, commit |-> r.commit]
<1>1. /\ At(w, "save_scan") /\ GoTo(w, "save_latest")
      /\ savedScans' = savedScans \cup {[id |-> r.id, made |-> made]}
      /\ UNCHANGED <<sources, bounds>>
      /\ UNCHANGED <<savedIndex, savedGraph, latest, ledger, evals, audit, requests>>
      /\ {"save_scan", "save_latest"} \subseteq Pcs
  BY DEF SaveScan, Pcs, bounds
<1>2. HandlersOK /\ StoresOK
  BY DEF WorkspaceInv
<1>3. HandlerOK(r, requests, ScanIds) /\ r.pc = "save_scan" /\ r \in Handler /\ Progress(r)
  BY <1>1, <1>2, AtWork
<1>4. PICK next \in Handler : /\ Progress(next) /\ next.id = r.id /\ next.pc = "save_latest"
                              /\ worker' = [worker EXCEPT ![w] = next]
  BY <1>1, <1>2, <1>3, GoesOn
<1>5. made \in ScanInputs
  <2>1. /\ r.parsed \in Readings /\ r.read \in FileReadings /\ r.docs \in SUBSET DOMAIN Doc
        /\ r.commit \in 0..MaxEdits
    BY <1>3 DEF Handler
  <2>2. DOMAIN r.parsed = DOMAIN r.read
    BY <1>3 DEF Progress
  <2>3. \A p \in DOMAIN r.read : r.read[p] \in Range(Versions[p])
    BY <2>1, FileReadingsForm
  <2>4. r.read \in UNION {[S -> DOMAIN Text] : S \in SUBSET Paths}
    BY <2>1 DEF FileReadings
  <2>. HIDE DEF r
  <2>. QED  BY <2>1, <2>2, <2>3, <2>4 DEF ScanInputs
<1>6. Distinct(made.docs)
  BY <1>3 DEF Progress
<1>7. r.id \in 1..requests
  BY <1>3 DEF HandlerOK
<1>. HIDE DEF made
<1>8. ScanIds' = ScanIds \cup {r.id}
  <2>1. PICK new : new = [id |-> r.id, made |-> made]
    OBVIOUS
  <2>2. savedScans' = savedScans \cup {new} /\ new.id = r.id
    BY <1>1, <2>1
  <2>. HIDE DEF r
  <2>. QED  BY <2>2 DEF ScanIds
<1>9. StoresOK'
  <2>1. ASSUME NEW s \in savedScans'
        PROVE  s.id \in 1..requests /\ s.made \in ScanInputs /\ Distinct(s.made.docs)
    BY <1>1, <1>2, <1>5, <1>6, <1>7 DEF StoresOK
  <2>2. latest' \subseteq ScanIds'
    BY <1>1, <1>2, <1>8 DEF StoresOK
  <2>. QED  BY <1>1, <1>2, <2>1, <2>2 DEF StoresOK
<1>10. HandlerOK(next, requests, ScanIds')
  BY <1>4, <1>7, <1>8 DEF HandlerOK
<1>11. ScanIds \subseteq ScanIds' /\ next \in {Idle} \cup Handler
  BY <1>8
<1>. QED  BY <1>1, <1>4, <1>9, <1>10, <1>11, SavingStep

LEMMA SaveLatestStep ==
  ASSUME WorkspaceInv, NEW w \in Workers, SaveLatest(w)
  PROVE  WorkspaceInv'
<1>1. /\ At(w, "save_latest") /\ worker' = [worker EXCEPT ![w] = Idle]
      /\ latest' = {worker[w].id}
      /\ UNCHANGED <<sources, bounds>>
      /\ UNCHANGED <<savedIndex, savedGraph, savedScans, ledger, evals, audit, requests>>
      /\ "save_latest" \in Pcs
  BY DEF SaveLatest, Return, Pcs, bounds
<1>2. HandlersOK /\ StoresOK
  BY DEF WorkspaceInv
<1>3. worker[w].id \in ScanIds
  BY <1>1, <1>2, AtWork DEF HandlerOK
<1>4. ScanIds' = ScanIds
  BY <1>1 DEF ScanIds
<1>5. StoresOK'
  BY <1>1, <1>2, <1>3, <1>4 DEF StoresOK
<1>6. ScanIds \subseteq ScanIds' /\ Idle \in {Idle} \cup Handler
  BY <1>4
<1>. QED  BY <1>1, <1>5, <1>6, SavingStep

LEMMA LogStep ==
  ASSUME WorkspaceInv, NEW w \in Workers, Log(w)
  PROVE  WorkspaceInv'
<1>. DEFINE r == worker[w]
            next == [r EXCEPT !.pc = IF r.paths = {} THEN "load_docs" ELSE "read"]
<1>1. /\ At(w, "log") /\ audit' = audit \cup {r.id}
      /\ UNCHANGED <<sources, bounds>>
      /\ UNCHANGED <<savedIndex, savedGraph, savedScans, latest, ledger, evals, requests>>
      /\ "log" \in Pcs
  BY DEF Log, Pcs, bounds
<1>2. HandlersOK /\ StoresOK
  BY DEF WorkspaceInv
<1>3. HandlerOK(r, requests, ScanIds) /\ r.pc = "log" /\ r \in Handler /\ Progress(r)
  BY <1>1, <1>2, AtWork
<1>4. r.id \in 1..requests
  BY <1>3 DEF HandlerOK
<1>5. ScanIds' = ScanIds
  BY <1>1 DEF ScanIds
<1>6. StoresOK'
  BY <1>1, <1>2, <1>4, <1>5 DEF StoresOK
<1>7. ScanIds \subseteq ScanIds'
  BY <1>5
<1>8. CASE r.op # "scan"
  <2>1. worker' = [worker EXCEPT ![w] = Idle]
    BY <1>8 DEF Log, Return
  <2>. QED  BY <1>1, <1>6, <1>7, <2>1, SavingStep
<1>9. CASE r.op = "scan"
  <2>1. worker' = [worker EXCEPT ![w] = next]
    BY <1>2, <1>9 DEF Log, GoTo, HandlersOK
  <2>2. next.id = r.id /\ next.pc # "save_latest"
    BY <1>3 DEF Handler
  <2>. HIDE DEF r
  <2>3. next \in Handler /\ Progress(next)
    BY <1>3, <1>9, LoggedOne
  <2>. HIDE DEF next
  <2>4. HandlerOK(next, requests, ScanIds')
    BY <1>4, <2>2, <2>3 DEF HandlerOK
  <2>5. next \in {Idle} \cup Handler
    BY <2>3
  <2>. QED  BY <1>1, <1>6, <1>7, <2>1, <2>4, <2>5, SavingStep
<1>. QED  BY <1>8, <1>9

LEMMA AbortStep ==
  ASSUME WorkspaceInv, NEW w \in Workers, Abort(w)
  PROVE  WorkspaceInv'
<1>1. /\ UNCHANGED <<tree, shelf, head, edits, requests>> /\ UNCHANGED stores
      /\ aborts' = aborts + 1 /\ worker' = [worker EXCEPT ![w] = Idle]
  BY DEF Abort, Return, sources
<1>2. HandlersOK /\ requests \in Nat /\ requests' \in Nat /\ requests <= requests' /\ StoresOK /\ SourcesOK
  BY <1>1 DEF WorkspaceInv
<1>3. StoresOK' /\ ScanIds' = ScanIds
  BY <1>1, <1>2, SameStores
<1>4. ScanIds \subseteq ScanIds' /\ Idle \in {Idle} \cup Handler
  BY <1>3
<1>5. HandlersOK'
  BY <1>1, <1>2, <1>4, OneWorker
<1>6. SourcesOK'
  BY <1>1, <1>2 DEF SourcesOK
<1>. QED  BY <1>1, <1>2, <1>3, <1>5, <1>6 DEF WorkspaceInv

LEMMA InvHolds == Spec => []WorkspaceInv
<1>1. WorkspaceInv /\ [Next]_vars => WorkspaceInv'
  <2>. SUFFICES ASSUME WorkspaceInv, [Next]_vars PROVE WorkspaceInv'
    OBVIOUS
  <2>1. CASE Environment
    BY <2>1, EnvironmentInv
  <2>2. CASE Request
    BY <2>2, RequestInv
  <2>3. ASSUME NEW w \in Workers, Step(w) PROVE WorkspaceInv'
    BY <2>3, ListStep, ExtractStep, SaveIndexStep, LogStep, ReadStep, LoadStep, SaveScanStep,
       SaveLatestStep, SaveGraphStep DEF Step
  <2>4. ASSUME NEW w \in Workers, Abort(w) PROVE WorkspaceInv'
    BY <2>4, AbortStep
  <2>5. CASE UNCHANGED vars
    BY <2>5 DEF vars, sources, stores, bounds, WorkspaceInv, SourcesOK, StoresOK, HandlersOK, ScanIds
  <2>. QED  BY <2>1, <2>2, <2>3, <2>4, <2>5 DEF Next
<1>. QED  BY <1>1, InitInv, PTL DEF Spec

-----------------------------------------------------------------------------
(* Theorems *)

LEMMA BusyForm ==
  ASSUME NEW v, HandlerOK(v, requests, ScanIds), requests \in Nat
  PROVE  IsBusy(v)
<1>1. v \in Handler /\ v.id \in 1..requests
  BY DEF HandlerOK
<1>2. /\ v.pc \in Pcs /\ v.op \in Ops /\ v.commit \in Nat
      /\ v.paths \subseteq Paths /\ v.docs \subseteq DOMAIN Doc
      /\ v.parsed \in Readings /\ v.read \in FileReadings /\ v.index \in Indexes
  BY <1>1, ConstantsAssumption DEF Handler
<1>3. IsReading(v.parsed) /\ IsReading(v.read)
  BY <1>2, ReadingsAreReadings
<1>4. \A parsed \in v.index : IsReading(parsed)
  BY <1>2, ReadingsAreReadings DEF Indexes
<1>. QED  BY <1>1, <1>2, <1>3, <1>4 DEF IsBusy

\* The variables keep their types, for any repository, workers and bounds: what
\* is stored as an index, a graph or a scan was read of files there were, and
\* the latest scan is one that is stored.
THEOREM TypeCorrect == Spec => []TypeOK
<1>1. WorkspaceInv => TypeOK
  <2>. SUFFICES ASSUME WorkspaceInv PROVE TypeOK
    OBVIOUS
  <2>1. SourcesOK /\ StoresOK /\ HandlersOK /\ requests \in Nat /\ aborts \in Nat
    BY DEF WorkspaceInv
  <2>2. /\ IsReading(tree) /\ shelf \subseteq DOMAIN Doc /\ head \in Nat /\ edits \in Nat
    BY <2>1, ReadingsAreReadings, ConstantsAssumption DEF SourcesOK
  <2>3. \A parsed \in savedIndex : IsReading(parsed)
    BY <2>1, ReadingsAreReadings DEF StoresOK, Indexes
  <2>4. \A w \in Workers : worker[w] = Idle \/ IsBusy(worker[w])
    BY <2>1, BusyForm DEF HandlersOK
  <2>5. /\ savedGraph \subseteq GraphInputs
        /\ \A s \in savedScans : s.id \in 1..requests /\ s.made \in ScanInputs
        /\ latest \subseteq {s.id : s \in savedScans} /\ audit \subseteq 1..requests
        /\ evals \subseteq (1..requests) \X BOOLEAN
    BY <2>1 DEF StoresOK, ScanIds
  <2>. QED  BY <2>1, <2>2, <2>3, <2>4, <2>5 DEF TypeOK
<1>. QED  BY <1>1, InvHolds, PTL

\* Every scan that is stored passes its evaluation, whatever was edited between
\* its two readings: each claim cites a span of the scan's sources, no blocked
\* claim leaves quarantine, and distilling approves nothing semantic.
THEOREM GuardrailsKept == Spec => []GuardrailsHold
<1>1. WorkspaceInv => GuardrailsHold
  BY EveryScanPasses DEF WorkspaceInv, StoresOK, GuardrailsHold
<1>. QED  BY <1>1, InvHolds, PTL

\* Every edge of a stored graph joins two of its nodes, and no two nodes share
\* an id, whatever the documents refer to, in whatever order documents and
\* files are added, and whichever index was stored when the graph was built.
THEOREM GraphsClosed == Spec => []GraphIsClosed
<1>1. WorkspaceInv => GraphIsClosed
  BY EveryGraphIsClosed DEF WorkspaceInv, StoresOK, GraphIsClosed
<1>. QED  BY <1>1, InvHolds, PTL

\* Whatever else the graph is made of, a document that names a file by its
\* path is linked to that file, if nothing else bears that path: an alias
\* stays with the node that had it first.
THEOREM RelatedCodeLinked ==
  ASSUME PathsAreUnique
  PROVE  Spec => []RelatedCodeIsLinked
<1>1. GraphInputs \subseteq LinkedGraphs
  BY EveryPathIsLinked
<1>2. WorkspaceInv => RelatedCodeIsLinked
  BY <1>1 DEF WorkspaceInv, StoresOK, RelatedCodeIsLinked
<1>. QED  BY <1>2, InvHolds, PTL

\* Two stored scans whose difference adds and removes no claim saw the same
\* files with the same texts and the same documents.
THEOREM DiffComplete == Spec => []DiffShowsEveryEdit
<1>1. WorkspaceInv => DiffShowsEveryEdit
  <2>. SUFFICES ASSUME WorkspaceInv PROVE DiffShowsEveryEdit
    OBVIOUS
  <2>1. {x.made : x \in savedScans} \subseteq ScanInputs
    BY DEF WorkspaceInv, StoresOK
  <2>2. \A s, t \in {x.made : x \in savedScans} :
            /\ Diff(ScanTable[s].claims, ScanTable[t].claims).added = {}
            /\ Diff(ScanTable[s].claims, ScanTable[t].claims).removed = {}
            => /\ DOMAIN s.read = DOMAIN t.read
               /\ \A p \in DOMAIN s.read : Content(TextOf(s.read[p])) = Content(TextOf(t.read[p]))
               /\ DocTexts(s) = DocTexts(t)
    BY <2>1, SameClaims
  <2>. QED  BY <2>2 DEF DiffShowsEveryEdit
<1>. QED  BY <1>1, InvHolds, PTL

\* A later event there is, if there is any.
LEMMA LastEvent ==
  ASSUME NEW n \in Nat, NEW S \in SUBSET (1..n), S # {}
  PROVE  (CHOOSE i \in S : \A j \in S : j <= i) \in S
<1>. DEFINE T == {n - i : i \in S}
<1>1. \A i \in S : n - i \in Nat
  OBVIOUS
<1>2. T \subseteq Nat /\ T # {}
  BY <1>1
<1>3. PICK m \in T : \A k \in T : m <= k
  BY <1>2, LeastNat
<1>4. PICK i \in S : m = n - i
  BY <1>3
<1>5. \A j \in S : j <= i
  BY <1>3, <1>4
<1>. QED  BY <1>5

\* What a search serves of any stored scan is what code says, or what a reviewer
\* approved who was shown the text that this scan cites.
THEOREM ServedReviewed == Spec => []ServedIsReviewed
<1>1. WorkspaceInv => ServedIsReviewed
  <2>. SUFFICES ASSUME WorkspaceInv,
                       NEW s \in savedScans, NEW c \in ScanTable[s.made].claims,
                       Effective(c) = "approved", c.method # "structural"
                PROVE  \E i \in DOMAIN ledger :
                           /\ ledger[i].claim = ClaimId(c) /\ ledger[i].new = "approved"
                           /\ ledger[i].shown = TextIn(s.made, c.span.source.path)
    <3>1. \A made : \A c \in ServedClaims(ScanTable[made].claims, {}, Effective) :
              c \in ScanTable[made].claims /\ Effective(c) = "approved"
      BY DEF ServedClaims
    <3>. QED  BY <3>1 DEF ServedIsReviewed
  <2>1. s.made \in ScanInputs /\ Distinct(s.made.docs) /\ ledger \in Seq(Events)
    BY DEF WorkspaceInv, StoresOK
  <2>2. c.status # "approved" /\ c.span.source.content = TextIn(s.made, c.span.source.path)
    BY <2>1, CitedText
  <2>. DEFINE about == {i \in DOMAIN ledger : ledger[i].claim = ClaimId(c)}
              last == CHOOSE i \in about : \A j \in about : j <= i
  <2>3. Effective(c) = IF about = {} THEN c.status ELSE ledger[last].new
    BY DEF Effective
  <2>4. about # {} /\ ledger[last].new = "approved"
    <3>. HIDE DEF about, last
    <3>. QED  BY <2>2, <2>3
  <2>5. about \in SUBSET (1..Len(ledger)) /\ Len(ledger) \in Nat
    BY <2>1
  <2>6. last \in about
    <3>. HIDE DEF about
    <3>. QED  BY <2>4, <2>5, LastEvent
  <2>7. last \in DOMAIN ledger /\ ledger[last].claim = ClaimId(c) /\ ledger[last] \in Events
    <3>. HIDE DEF last
    <3>. QED  BY <2>1, <2>6
  <2>8. PICK b : ledger[last].claim = ClaimId(b) /\ ledger[last].shown = b.span.source.content
    <3>. HIDE DEF last
    <3>. QED  BY <2>7, EventForm
  <2>9. b.span = c.span
    BY <2>7, <2>8, SameIdSameSpan
  <2>. HIDE DEF last
  <2>. QED  BY <2>2, <2>4, <2>7, <2>8, <2>9
<1>. QED  BY <1>1, InvHolds, PTL

\* The unified search, whatever the documents, the code, the graph and the
\* query: it gives as many items as it may, none twice, among them graph
\* evidence if any was found and k >= 4, and no category takes more than its
\* places while another one has nothing.
THEOREM SelectionBalanced == Spec => []SelectionIsBalanced
<1>1. ASSUME NEW ask \in Searches PROVE IsBalanced(Evidence(ask), Search(ask), ask.k)
  <2>1. IsEvidence(Evidence(ask)) /\ IsInjective(Evidence(ask)) /\ ask.k \in Nat
    BY SearchesAssumption, EvidenceFacts, SearchForm
  <2>. QED  BY <2>1, BalancedTopKFacts DEF Search
<1>2. SelectionIsBalanced
  BY <1>1 DEF SelectionIsBalanced
<1>. QED  BY <1>2, PTL
=============================================================================
