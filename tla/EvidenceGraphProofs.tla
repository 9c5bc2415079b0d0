------------------------ MODULE EvidenceGraphProofs ------------------------
(***************************************************************************)
(* Lemmas about EvidenceGraph, for any documents and any index: a graph    *)
(* that is built is finite, has one node of an id, and its aliases and its *)
(* edges are of nodes it has.                                              *)
(*                                                                         *)
(* N is everything nodes are made of; it bounds the graphs that the folds  *)
(* of Graph pass through, so that FoldWithin applies.  IsClosed is the     *)
(* invariant of the building and Grows what a later step may rely on: no   *)
(* node and no edge goes away, and an alias stays with its node.  Each     *)
(* operation has a lemma, and each fold over it a second one.              *)
(***************************************************************************)
EXTENDS EvidenceGraph, FoldProofs

-----------------------------------------------------------------------------
(* Graphs under construction, of nodes made of the parts of N *)

IsNode(n) ==
    n = [id |-> n.id, type |-> n.type, title |-> n.title, path |-> n.path, about |-> n.about,
         aliases |-> n.aliases, concepts |-> n.concepts]

Ids(N) == {n.id : n \in N}

Names(N) == UNION {n.aliases : n \in N}

NodesOf(N) ==
    [id : Ids(N), type : {n.type : n \in N}, title : {n.title : n \in N}, path : {n.path : n \in N},
     about : {n.about : n \in N}, aliases : SUBSET Names(N), concepts : SUBSET UNION {n.concepts : n \in N}]

EdgesOf(N, types) == [from : Ids(N), type : types, to : Ids(N)]

\* Every alias was one of the node it belongs to from the start.
IsOwned(g, N) ==
    \A name \in DOMAIN g.aliases : \E n \in N : n.id = g.aliases[name] /\ name \in n.aliases

GraphsOf(N, types) ==
    {g \in [nodes : SUBSET NodesOf(N), aliases : UNION {[D -> Ids(N)] : D \in SUBSET Names(N)},
            edges : SUBSET EdgesOf(N, types)] : IsOwned(g, N)}

HasNode(g, id) == \E n \in g.nodes : n.id = id

\* Finitely many nodes, one of an id; aliases and edges are of nodes, and
\* all that nodes have as aliases are aliases.
IsClosed(g) ==
    /\ IsFiniteSet(g.nodes)
    /\ \A n, m \in g.nodes : n.id = m.id => n = m
    /\ \A n \in g.nodes : n.aliases \subseteq DOMAIN g.aliases
    /\ \A name \in DOMAIN g.aliases : HasNode(g, g.aliases[name])
    /\ \A e \in g.edges : e.from # e.to /\ HasNode(g, e.from) /\ HasNode(g, e.to)

Grows(g, h) ==
    /\ \A n \in g.nodes : HasNode(h, n.id)
    /\ \A name \in DOMAIN g.aliases : name \in DOMAIN h.aliases /\ h.aliases[name] = g.aliases[name]
    /\ g.edges \subseteq h.edges

\* What g may become.
Above(g, N, types) == {h \in GraphsOf(N, types) : IsClosed(h) /\ Grows(g, h)}

LEMMA GrowsTransitive ==
  ASSUME NEW g, NEW h, NEW k, Grows(g, h), Grows(h, k)
  PROVE  Grows(g, k)
  BY DEF Grows, HasNode

LEMMA AboveTransitive ==
  ASSUME NEW N, NEW types, NEW g, NEW h \in Above(g, N, types), NEW k \in Above(h, N, types)
  PROVE  k \in Above(g, N, types)
  BY GrowsTransitive DEF Above

LEMMA AboveItself ==
  ASSUME NEW N, NEW types, NEW g \in GraphsOf(N, types), IsClosed(g)
  PROVE  g \in Above(g, N, types)
  BY DEF Above, Grows, HasNode

LEMMA MemberIsPart ==
  ASSUME NEW N, \A n \in N : IsNode(n)
  PROVE  N \subseteq NodesOf(N)
<1>. SUFFICES ASSUME NEW n \in N PROVE n \in NodesOf(N)
  OBVIOUS
<1>1. n = [id |-> n.id, type |-> n.type, title |-> n.title, path |-> n.path, about |-> n.about,
           aliases |-> n.aliases, concepts |-> n.concepts]
  BY DEF IsNode
<1>2. /\ n.id \in Ids(N) /\ n.type \in {m.type : m \in N} /\ n.title \in {m.title : m \in N}
      /\ n.path \in {m.path : m \in N} /\ n.about \in {m.about : m \in N} /\ n.aliases \in SUBSET Names(N)
      /\ n.concepts \in SUBSET UNION {m.concepts : m \in N}
  BY DEF Ids, Names
<1>. QED  BY <1>1, <1>2 DEF NodesOf

LEMMA AddNodeFacts ==
  ASSUME NEW N, NEW types, \A n \in N : IsNode(n),
         NEW node \in N, NEW g \in GraphsOf(N, types), IsClosed(g)
  PROVE  LET h == AddNode(node, g)
         IN  /\ h \in Above(g, N, types)
             /\ HasNode(h, node.id) /\ node.aliases \subseteq DOMAIN h.aliases
<1>. DEFINE old == {n \in g.nodes : n.id = node.id}
            Merged(n) == [n EXCEPT !.aliases = @ \cup node.aliases, !.concepts = @ \cup node.concepts,
                                   !.path = IF @ = {} THEN node.path ELSE @,
                                   !.about = IF node.about = {} THEN @ ELSE node.about]
            new == IF old = {} THEN node ELSE Merged(CHOOSE n \in old : TRUE)
            names == new.aliases \ DOMAIN g.aliases
            h == AddNode(node, g)
            owner == [name \in DOMAIN g.aliases \cup names |-> IF name \in names THEN node.id ELSE g.aliases[name]]
<1>1. /\ g = [nodes |-> g.nodes, aliases |-> g.aliases, edges |-> g.edges]
      /\ g.nodes \subseteq NodesOf(N) /\ g.edges \subseteq EdgesOf(N, types)
      /\ DOMAIN g.aliases \subseteq Names(N) /\ \A name \in DOMAIN g.aliases : g.aliases[name] \in Ids(N)
  BY DEF GraphsOf
<1>2. node \in NodesOf(N) /\ node.id \in Ids(N)
  BY MemberIsPart DEF Ids
<1>3. /\ new \in NodesOf(N) /\ new.id = node.id /\ node.aliases \subseteq new.aliases
      /\ new.aliases \subseteq node.aliases \cup DOMAIN g.aliases
  <2>1. CASE old = {}
    BY <1>2, <2>1
  <2>2. CASE old # {}
    <3>. DEFINE n == CHOOSE n \in old : TRUE
    <3>1. n \in old
      BY <2>2
    <3>. HIDE DEF n
    <3>2. n \in NodesOf(N) /\ n.id = node.id /\ n.aliases \subseteq DOMAIN g.aliases
      BY <1>1, <3>1 DEF IsClosed
    <3>3. /\ n.aliases \cup node.aliases \in SUBSET Names(N)
          /\ n.concepts \cup node.concepts \in SUBSET UNION {m.concepts : m \in N}
          /\ (IF n.path = {} THEN node.path ELSE n.path) \in {m.path : m \in N}
          /\ (IF node.about = {} THEN n.about ELSE node.about) \in {m.about : m \in N}
      BY <1>2, <3>2 DEF NodesOf
    <3>4. /\ Merged(n) \in NodesOf(N) /\ Merged(n).id = node.id
          /\ Merged(n).aliases = n.aliases \cup node.aliases
      BY <3>2, <3>3 DEF NodesOf
    <3>5. new = Merged(n)
      BY <2>2 DEF n
    <3>6. n.aliases \cup node.aliases \subseteq node.aliases \cup DOMAIN g.aliases
      BY <3>2
    <3>. HIDE DEF new, Merged
    <3>. QED  BY <3>4, <3>5, <3>6
  <2>. QED  BY <2>1, <2>2
<1>4. h = [nodes |-> (g.nodes \ old) \cup {new}, aliases |-> owner, edges |-> g.edges]
  <2>1. h = [g EXCEPT !.nodes = (@ \ old) \cup {new},
                      !.aliases = [name \in DOMAIN @ \cup names |-> IF name \in names THEN node.id ELSE @[name]]]
    BY DEF AddNode
  <2>. HIDE DEF old, new, names, h
  <2>. QED  BY <1>1, <2>1
<1>. HIDE DEF h, new
<1>5. owner \in UNION {[D -> Ids(N)] : D \in SUBSET Names(N)}
  <2>1. DOMAIN owner \subseteq Names(N)
    BY <1>1, <1>3 DEF NodesOf
  <2>2. \A name \in DOMAIN owner : owner[name] \in Ids(N)
    BY <1>1, <1>2
  <2>3. owner = [name \in DOMAIN owner |-> owner[name]]
    OBVIOUS
  <2>. HIDE DEF owner
  <2>4. owner \in [DOMAIN owner -> Ids(N)]
    BY <2>2, <2>3
  <2>. QED  BY <2>1, <2>4
<1>6. h \in GraphsOf(N, types)
  <2>1. (g.nodes \ old) \cup {new} \subseteq NodesOf(N)
    BY <1>1, <1>3
  <2>2. ASSUME NEW name \in DOMAIN owner PROVE \E n \in N : n.id = owner[name] /\ name \in n.aliases
    <3>1. CASE name \in names
      BY <1>3, <3>1
    <3>2. CASE name \notin names
      <4>1. name \in DOMAIN g.aliases /\ owner[name] = g.aliases[name]
        BY <2>2, <3>2
      <4>. HIDE DEF owner, names
      <4>. QED  BY <4>1 DEF GraphsOf, IsOwned
    <3>. QED  BY <3>1, <3>2
  <2>. HIDE DEF old, owner
  <2>3. IsOwned([nodes |-> (g.nodes \ old) \cup {new}, aliases |-> owner, edges |-> g.edges], N)
    BY <2>2 DEF IsOwned
  <2>. QED  BY <1>1, <1>4, <1>5, <2>1, <2>3 DEF GraphsOf
<1>7. h.nodes = (g.nodes \ old) \cup {new} /\ h.aliases = owner /\ h.edges = g.edges
  BY <1>4
<1>8. HasNode(h, node.id) /\ \A n \in g.nodes : HasNode(h, n.id)
  BY <1>3, <1>7 DEF HasNode
<1>9. \A id : HasNode(g, id) => HasNode(h, id)
  BY <1>8 DEF HasNode
<1>10. IsClosed(h)
  <2>1. \A n, m \in h.nodes : n.id = m.id => n = m
    BY <1>3, <1>7 DEF IsClosed
  <2>2. \A name \in DOMAIN h.aliases : HasNode(h, h.aliases[name])
    BY <1>7, <1>8, <1>9 DEF IsClosed
  <2>3. \A e \in h.edges : e.from # e.to /\ HasNode(h, e.from) /\ HasNode(h, e.to)
    BY <1>7, <1>9 DEF IsClosed
  <2>4. IsFiniteSet(h.nodes)
    <3>. DEFINE rest == g.nodes \ old
    <3>1. IsFiniteSet(rest)
      BY FS_Subset DEF IsClosed
    <3>2. h.nodes = rest \cup {new}
      BY <1>7
    <3>. HIDE DEF rest
    <3>. QED  BY <3>1, <3>2, FS_AddElement
  <2>5. \A n \in h.nodes : n.aliases \subseteq DOMAIN h.aliases
    BY <1>7 DEF IsClosed
  <2>. QED  BY <2>1, <2>2, <2>3, <2>4, <2>5 DEF IsClosed
<1>11. Grows(g, h) /\ node.aliases \subseteq DOMAIN h.aliases
  <2>1. \A name \in DOMAIN g.aliases : name \in DOMAIN h.aliases /\ h.aliases[name] = g.aliases[name]
    BY <1>7
  <2>2. node.aliases \subseteq DOMAIN h.aliases
    BY <1>3, <1>7
  <2>. QED  BY <1>7, <1>8, <2>1, <2>2 DEF Grows
<1>. QED  BY <1>6, <1>8, <1>10, <1>11 DEF Above, h

\* An edge of two nodes there are.
Joins(edge, g, types) ==
    /\ edge = [from |-> edge.from, type |-> edge.type, to |-> edge.to]
    /\ edge.type \in types /\ HasNode(g, edge.from) /\ HasNode(g, edge.to)

LEMMA AddEdgesFacts ==
  ASSUME NEW N, NEW types, NEW g \in GraphsOf(N, types), IsClosed(g),
         NEW edges, \A e \in edges : Joins(e, g, types)
  PROVE  AddEdges(edges, g) \in Above(g, N, types)
<1>. DEFINE h == AddEdges(edges, g)
            added == {e \in edges : e.from # e.to}
<1>1. /\ g = [nodes |-> g.nodes, aliases |-> g.aliases, edges |-> g.edges]
      /\ g.nodes \subseteq NodesOf(N) /\ g.edges \subseteq EdgesOf(N, types)
      /\ g.aliases \in UNION {[D -> Ids(N)] : D \in SUBSET Names(N)}
  BY DEF GraphsOf
<1>2. h = [nodes |-> g.nodes, aliases |-> g.aliases, edges |-> g.edges \cup added]
  <2>1. h = [g EXCEPT !.edges = @ \cup added]
    BY DEF AddEdges
  <2>. HIDE DEF h, added
  <2>. QED  BY <1>1, <2>1
<1>3. \A id : HasNode(g, id) => id \in Ids(N)
  BY <1>1 DEF HasNode, NodesOf
<1>4. added \subseteq EdgesOf(N, types)
  BY <1>3 DEF Joins, EdgesOf
<1>5. h \in GraphsOf(N, types)
  <2>1. IsOwned(h, N)
    BY <1>2 DEF GraphsOf, IsOwned
  <2>. HIDE DEF added
  <2>. QED  BY <1>1, <1>2, <1>4, <2>1 DEF GraphsOf
<1>. HIDE DEF h
<1>6. IsClosed(h)
  BY <1>2 DEF IsClosed, Joins, HasNode
<1>7. Grows(g, h)
  BY <1>2 DEF Grows, HasNode
<1>. QED  BY <1>5, <1>6, <1>7 DEF Above, h

-----------------------------------------------------------------------------
(* The folds of the builder *)

Picked(S) == [s \in SUBSET S |-> CHOOSE x \in s : TRUE]

LEMMA PickedInside ==
  ASSUME NEW S
  PROVE  \A s \in SUBSET S : s # {} => Picked(S)[s] \in s
  BY DEF Picked

LEMMA AddNodesFacts ==
  ASSUME NEW N, NEW types, \A n \in N : IsNode(n),
         NEW g \in GraphsOf(N, types), IsClosed(g),
         NEW nodes \in SUBSET N, IsFiniteSet(nodes)
  PROVE  LET h == AddNodes(nodes, g)
         IN  /\ h \in Above(g, N, types)
             /\ \A n \in nodes : HasNode(h, n.id) /\ n.aliases \subseteq DOMAIN h.aliases
<1>. DEFINE U == Above(g, N, types)
            step == [x \in nodes |-> [h \in U |-> AddNode(x, h)]]
            F(f) == f = [s \in SUBSET nodes |->
                            IF s = {} THEN g
                            ELSE LET x == CHOOSE x \in s : TRUE IN AddNode(x, f[s \ {x}])]
            c == CHOOSE f : F(f)
            Has(h, n) == HasNode(h, n.id) /\ n.aliases \subseteq DOMAIN h.aliases
<1>1. g \in U
  BY AboveItself
<1>2. ASSUME NEW x \in nodes, NEW h \in U
      PROVE  AddNode(x, h) \in U /\ AddNode(x, h) \in Above(h, N, types) /\ Has(AddNode(x, h), x)
  <2>1. h \in GraphsOf(N, types) /\ IsClosed(h)
    BY DEF Above
  <2>2. AddNode(x, h) \in Above(h, N, types) /\ Has(AddNode(x, h), x)
    BY <2>1, AddNodeFacts
  <2>. QED  BY <2>2, AboveTransitive
<1>. HIDE DEF U, Has
<1>3. \A x \in nodes : \A h \in U : step[x][h] \in U /\ step[x][h] = AddNode(x, h)
  BY <1>2
<1>4. PICK f : /\ IsFold(f, SUBSET nodes, Picked(nodes), step, g)
               /\ \A s \in SUBSET nodes : f[s] \in U
  <2>1. \A x \in nodes : \A h \in U : step[x][h] \in U
    BY <1>3
  <2>2. \A s \in SUBSET nodes : s # {} => Picked(nodes)[s] \in s
    BY PickedInside
  <2>. HIDE DEF step
  <2>. QED  BY <1>1, <2>1, <2>2, FoldWithin
<1>5. F(f)
  <2>1. \A s \in SUBSET nodes : s # {} =>
            LET x == CHOOSE x \in s : TRUE
            IN  x \in nodes /\ s \ {x} \in SUBSET nodes /\ Picked(nodes)[s] = x
    BY DEF Picked
  <2>2. f = [s \in SUBSET nodes |->
                IF s = {} THEN g ELSE step[Picked(nodes)[s]][f[s \ {Picked(nodes)[s]}]]]
    BY <1>4 DEF IsFold
  <2>3. ASSUME NEW s \in SUBSET nodes, s # {}
        PROVE  LET x == CHOOSE x \in s : TRUE
               IN  step[Picked(nodes)[s]][f[s \ {Picked(nodes)[s]}]] = AddNode(x, f[s \ {x}])
    <3>. DEFINE x == CHOOSE x \in s : TRUE
    <3>. HIDE DEF step
    <3>1. x \in nodes /\ s \ {x} \in SUBSET nodes /\ Picked(nodes)[s] = x
      BY <2>1, <2>3
    <3>. HIDE DEF x
    <3>2. f[s \ {x}] \in U
      BY <1>4, <3>1
    <3>3. step[x][f[s \ {x}]] = AddNode(x, f[s \ {x}])
      BY <1>3, <3>1, <3>2
    <3>4. step[Picked(nodes)[s]][f[s \ {Picked(nodes)[s]}]] = AddNode(x, f[s \ {x}])
      BY <3>1, <3>3
    <3>. QED  BY <3>4 DEF x
  <2>. HIDE DEF step
  <2>. QED  BY <2>2, <2>3
<1>6. F(c)
  <2>. HIDE DEF F
  <2>. QED  BY <1>5
<1>7. AddNodes(nodes, g) = c[nodes]
  BY DEF AddNodes, FoldSet, MapThenFoldSet
<1>. HIDE DEF c
<1>8. /\ c[{}] = g
      /\ \A s \in SUBSET nodes : s # {} =>
            \E x \in s : s \ {x} \in SUBSET nodes /\ c[s] = AddNode(x, c[s \ {x}])
  BY <1>6
<1>. DEFINE Good == {s \in SUBSET nodes : c[s] \in U /\ \A n \in s : Has(c[s], n)}
<1>9. ASSUME NEW s \in SUBSET nodes, s # {} PROVE \E x \in s : s \ {x} \in Good => s \in Good
  <2>1. PICK x \in s : s \ {x} \in SUBSET nodes /\ c[s] = AddNode(x, c[s \ {x}])
    BY <1>8, <1>9
  <2>2. SUFFICES ASSUME s \ {x} \in Good PROVE s \in Good
    BY <2>1
  <2>. DEFINE h == c[s \ {x}]
  <2>3. h \in U /\ \A n \in s \ {x} : Has(h, n)
    BY <2>2
  <2>. HIDE DEF h
  <2>4. c[s] = AddNode(x, h)
    BY <2>1 DEF h
  <2>5. c[s] \in U /\ Has(c[s], x) /\ Grows(h, c[s])
    BY <1>2, <2>3, <2>4 DEF Above
  <2>6. \A n \in s \ {x} : Has(c[s], n)
    BY <2>3, <2>5 DEF Has, Grows, HasNode
  <2>. QED  BY <2>5, <2>6
<1>10. {} \in Good
  BY <1>1, <1>8
<1>11. nodes \in Good
  <2>. HIDE DEF Good
  <2>. QED  BY <1>9, <1>10, SubsetInduction
<1>. QED  BY <1>7, <1>11 DEF U, Has

LEMMA NodesHaveForm ==
  /\ \A doc : IsNode(DocNode(doc))
  /\ \A concept : IsNode(ConceptNode(concept))
  /\ \A node : IsNode(FileNodeOf(node))
  /\ \A symbol : IsNode(SymbolNode(symbol))
  /\ \A path, type : IsNode(StubNode(path, type))
  BY DEF IsNode, DocNode, ConceptNode, FileNodeOf, SymbolNode, StubNode, Node

\* The nodes of a document, and what a graph that has them knows.
Stocked(doc, N) == DocNode(doc) \in N /\ ConceptNodes(doc.concepts) \subseteq N /\ IsFiniteSet(doc.concepts)

Knows(h, doc) ==
    /\ HasNode(h, DocNode(doc).id)
    /\ \A concept \in doc.concepts : HasNode(h, ConceptNode(concept).id) /\ ConceptText(concept) \in DOMAIN h.aliases

LEMMA KnowsStays ==
  ASSUME NEW g, NEW h, Grows(g, h), NEW doc, Knows(g, doc)
  PROVE  Knows(h, doc)
  BY DEF Knows, Grows, HasNode

LEMMA ConceptNodesFinite ==
  ASSUME NEW concepts, IsFiniteSet(concepts)
  PROVE  IsFiniteSet(ConceptNodes(concepts))
<1>. DEFINE f == [c \in concepts |-> ConceptNode(c)]
<1>1. f \in Surjection(concepts, ConceptNodes(concepts))
  BY DEF ConceptNodes, Surjection
<1>. HIDE DEF f
<1>. QED  BY <1>1, FS_Surjection

LEMMA EdgeJoins ==
  ASSUME NEW g, NEW types, NEW n, NEW m, NEW type \in types, HasNode(g, n.id), HasNode(g, m.id)
  PROVE  Joins(Edge(n, type, m), g, types)
  BY DEF Joins, Edge

Types == {"MENTIONED_IN", "DEFINED_IN", "IMPLEMENTED_BY", "TESTED_BY", "AFFECTS"}

LEMMA AddDocumentFacts ==
  ASSUME NEW N, NEW types, \A n \in N : IsNode(n), Types \subseteq types,
         NEW g \in GraphsOf(N, types), IsClosed(g), NEW doc, Stocked(doc, N)
  PROVE  LET h == AddDocument(g, doc) IN h \in Above(g, N, types) /\ Knows(h, doc)
<1>. DEFINE h1 == AddNode(DocNode(doc), g)
            h2 == AddNodes(ConceptNodes(doc.concepts), h1)
            edges == {Edge(ConceptNode(c), "MENTIONED_IN", DocNode(doc)) : c \in doc.concepts}
            h3 == AddEdges(edges, h2)
<1>1. h1 \in Above(g, N, types) /\ HasNode(h1, DocNode(doc).id)
  BY AddNodeFacts DEF Stocked
<1>. HIDE DEF h1
<1>2. /\ h2 \in Above(h1, N, types)
      /\ \A n \in ConceptNodes(doc.concepts) : HasNode(h2, n.id) /\ n.aliases \subseteq DOMAIN h2.aliases
  <2>1. h1 \in GraphsOf(N, types) /\ IsClosed(h1)
    BY <1>1 DEF Above
  <2>2. IsFiniteSet(ConceptNodes(doc.concepts)) /\ ConceptNodes(doc.concepts) \in SUBSET N
    BY ConceptNodesFinite DEF Stocked
  <2>. QED  BY <2>1, <2>2, AddNodesFacts
<1>3. Knows(h2, doc)
  <2>1. HasNode(h2, DocNode(doc).id)
    BY <1>1, <1>2 DEF Above, Grows, HasNode
  <2>2. ASSUME NEW c \in doc.concepts
        PROVE  HasNode(h2, ConceptNode(c).id) /\ ConceptText(c) \in DOMAIN h2.aliases
    <3>1. ConceptNode(c) \in ConceptNodes(doc.concepts)
      BY DEF ConceptNodes
    <3>2. ConceptText(c) \in ConceptNode(c).aliases
      BY DEF ConceptNode, Node
    <3>. QED  BY <1>2, <3>1, <3>2
  <2>. QED  BY <2>1, <2>2 DEF Knows
<1>. HIDE DEF h2
<1>4. h3 \in Above(h2, N, types)
  <2>1. h2 \in GraphsOf(N, types) /\ IsClosed(h2)
    BY <1>2 DEF Above
  <2>2. \A e \in edges : Joins(e, h2, types)
    BY <1>3, EdgeJoins DEF Knows, Types
  <2>. HIDE DEF edges
  <2>. QED  BY <2>1, <2>2, AddEdgesFacts
<1>5. AddDocument(g, doc) = h3
  BY DEF AddDocument, h1, h2
<1>. HIDE DEF h3
<1>6. h3 \in Above(g, N, types)
  BY <1>1, <1>2, <1>4, AboveTransitive
<1>7. Knows(h3, doc)
  BY <1>3, <1>4, KnowsStays DEF Above
<1>. QED  BY <1>5, <1>6, <1>7

LEMMA AddDocumentsFacts ==
  ASSUME NEW N, NEW types, \A n \in N : IsNode(n), Types \subseteq types,
         NEW g \in GraphsOf(N, types), IsClosed(g),
         NEW D, NEW docs \in Seq(D), \A doc \in D : Stocked(doc, N)
  PROVE  LET h == FoldLeft(AddDocument, g, docs)
         IN  h \in Above(g, N, types) /\ \A i \in DOMAIN docs : Knows(h, docs[i])
<1>. DEFINE U == Above(g, N, types)
            step == [x \in DOMAIN docs |-> [h \in U |-> AddDocument(h, docs[x])]]
            F(f) == f = [s \in SUBSET DOMAIN docs |->
                            IF s = {} THEN g
                            ELSE LET x == Max(s) IN AddDocument(f[s \ {x}], docs[x])]
            c == CHOOSE f : F(f)
<1>1. g \in U
  BY AboveItself
<1>2. ASSUME NEW x \in DOMAIN docs, NEW h \in U
      PROVE  /\ AddDocument(h, docs[x]) \in U /\ Grows(h, AddDocument(h, docs[x]))
             /\ Knows(AddDocument(h, docs[x]), docs[x])
  <2>1. h \in GraphsOf(N, types) /\ IsClosed(h)
    BY DEF Above
  <2>2. docs[x] \in D
    OBVIOUS
  <2>3. AddDocument(h, docs[x]) \in Above(h, N, types) /\ Knows(AddDocument(h, docs[x]), docs[x])
    BY <2>1, <2>2, AddDocumentFacts
  <2>4. Grows(h, AddDocument(h, docs[x]))
    BY <2>3 DEF Above
  <2>. QED  BY <2>3, <2>4, AboveTransitive
<1>. HIDE DEF U
<1>3. \A x \in DOMAIN docs : \A h \in U : step[x][h] \in U /\ step[x][h] = AddDocument(h, docs[x])
  BY <1>2
<1>4. PICK f : /\ IsFold(f, SUBSET DOMAIN docs, Greatest(DOMAIN docs), step, g)
               /\ \A s \in SUBSET DOMAIN docs : f[s] \in U
  <2>. DEFINE S == DOMAIN docs
              pick == Greatest(DOMAIN docs)
              base == g
  <2>1. \A x \in S : \A h \in U : step[x][h] \in U
    BY <1>3
  <2>2. \A s \in SUBSET S : s # {} => pick[s] \in s
    BY GreatestInside
  <2>3. IsFiniteSet(S)
    BY GreatestInside
  <2>4. base \in U
    BY <1>1
  <2>. HIDE DEF step, S, pick, base
  <2>5. \E f : IsFold(f, SUBSET S, pick, step, base) /\ \A s \in SUBSET S : f[s] \in U
    BY <2>1, <2>2, <2>3, <2>4, FoldWithin
  <2>. QED  BY <2>5 DEF S, pick, base
<1>5. F(f)
  <2>1. ASSUME NEW s \in SUBSET DOMAIN docs, s # {}
        PROVE  LET x == Max(s)
               IN  x \in DOMAIN docs /\ s \ {x} \in SUBSET DOMAIN docs /\ Greatest(DOMAIN docs)[s] = x
    <3>1. (Max(s)) \in s /\ Greatest(DOMAIN docs)[s] = (Max(s))
      BY <2>1, GreatestInside DEF Greatest
    <3>. QED  BY <3>1
  <2>2. f = [s \in SUBSET DOMAIN docs |->
                IF s = {} THEN g ELSE step[Greatest(DOMAIN docs)[s]][f[s \ {Greatest(DOMAIN docs)[s]}]]]
    BY <1>4 DEF IsFold
  <2>3. \A s \in SUBSET DOMAIN docs : s # {} =>
            LET x == Max(s)
            IN  step[Greatest(DOMAIN docs)[s]][f[s \ {Greatest(DOMAIN docs)[s]}]] = AddDocument(f[s \ {x}], docs[x])
    <3>. HIDE DEF step
    <3>. QED  BY <1>3, <1>4, <2>1
  <2>. HIDE DEF step
  <2>. QED  BY <2>2, <2>3
<1>6. F(c)
  <2>. HIDE DEF F
  <2>. QED  BY <1>5
<1>7. FoldLeft(AddDocument, g, docs) = c[DOMAIN docs]
  BY DEF FoldLeft, MapThenFoldSet
<1>. HIDE DEF c, step
<1>8. /\ c[{}] = g
      /\ \A s \in SUBSET DOMAIN docs : s # {} =>
            \E x \in s : s \ {x} \in SUBSET DOMAIN docs /\ c[s] = AddDocument(c[s \ {x}], docs[x])
  <2>1. ASSUME NEW s \in SUBSET DOMAIN docs, s # {}
        PROVE  LET x == Max(s) IN x \in s /\ s \ {x} \in SUBSET DOMAIN docs
    <3>1. (Max(s)) \in s
      BY <2>1, GreatestInside DEF Greatest
    <3>. QED  BY <3>1
  <2>. QED  BY <1>6, <2>1
<1>. DEFINE Good == {s \in SUBSET DOMAIN docs : c[s] \in U /\ \A i \in s : Knows(c[s], docs[i])}
<1>9. ASSUME NEW s \in SUBSET DOMAIN docs, s # {} PROVE \E x \in s : s \ {x} \in Good => s \in Good
  <2>1. PICK x \in s : s \ {x} \in SUBSET DOMAIN docs /\ c[s] = AddDocument(c[s \ {x}], docs[x])
    BY <1>8, <1>9
  <2>2. SUFFICES ASSUME s \ {x} \in Good PROVE s \in Good
    BY <2>1
  <2>. DEFINE h == c[s \ {x}]
  <2>3. h \in U /\ \A i \in s \ {x} : Knows(h, docs[i])
    BY <2>2
  <2>. HIDE DEF h
  <2>4. c[s] = AddDocument(h, docs[x])
    BY <2>1 DEF h
  <2>5. c[s] \in U /\ Knows(c[s], docs[x]) /\ Grows(h, c[s])
    BY <1>2, <2>3, <2>4
  <2>6. \A i \in s \ {x} : Knows(c[s], docs[i])
    BY <2>3, <2>5, KnowsStays
  <2>. QED  BY <2>5, <2>6
<1>10. {} \in Good
  BY <1>1, <1>8
<1>11. DOMAIN docs \in Good
  <2>. DEFINE S == DOMAIN docs
  <2>1. IsFiniteSet(S)
    BY GreatestInside
  <2>. HIDE DEF Good
  <2>2. \A s \in SUBSET S : s # {} => \E x \in s : s \ {x} \in Good => s \in Good
    BY <1>9
  <2>. HIDE DEF S
  <2>3. \A s \in SUBSET S : s \in Good
    BY <1>10, <2>1, <2>2, SubsetInduction
  <2>4. S \in Good
    BY <2>3
  <2>. QED  BY <2>4 DEF S
<1>. QED  BY <1>7, <1>11 DEF U
-----------------------------------------------------------------------------
(* An index, as far as its nodes are in N *)

SymbolStocked(symbol, N) ==
    /\ SymbolNode(symbol) \in N /\ SymbolFile(symbol) \in N
    /\ ConceptNodes(symbol.concepts) \subseteq N /\ IsFiniteSet(symbol.concepts)

TestStocked(mapping, N) ==
    StubNode(mapping.source, "code_file") \in N /\ StubNode(mapping.test, "test_file") \in N

CodeStubs(paths) == {StubNode(p, "code_file") : p \in paths}

TestStubs(paths) == {StubNode(p, "test_file") : p \in paths}

ConceptStocked(mapping, N) ==
    /\ ConceptNode(mapping.concept) \in N /\ IsFiniteSet(mapping.files) /\ IsFiniteSet(mapping.tests)
    /\ CodeStubs(mapping.files) \subseteq N /\ TestStubs(mapping.tests) \subseteq N

FilesStocked(index, N) == IsFiniteSet(index.files) /\ \A n \in index.files : FileNodeOf(n) \in N

IndexStocked(index, N) ==
    /\ FilesStocked(index, N)
    /\ index.symbols \in Seq(Range(index.symbols))
    /\ \A symbol \in Range(index.symbols) : SymbolStocked(symbol, N)
    /\ IsFiniteSet(index.tests) /\ \A mapping \in index.tests : TestStocked(mapping, N)
    /\ IsFiniteSet(index.concepts) /\ \A mapping \in index.concepts : ConceptStocked(mapping, N)

LEMMA StubsFinite ==
  ASSUME NEW paths, IsFiniteSet(paths)
  PROVE  IsFiniteSet(CodeStubs(paths)) /\ IsFiniteSet(TestStubs(paths))
<1>. DEFINE f == [p \in paths |-> StubNode(p, "code_file")]
            h == [p \in paths |-> StubNode(p, "test_file")]
<1>1. f \in Surjection(paths, CodeStubs(paths))
  BY DEF CodeStubs, Surjection
<1>2. h \in Surjection(paths, TestStubs(paths))
  BY DEF TestStubs, Surjection
<1>. HIDE DEF f, h
<1>. QED  BY <1>1, <1>2, FS_Surjection

\* A graph that has the file of a path.
HasFile(h, index, path) ==
    \A n \in index.files : n.path = path => FileNodeOf(n).aliases \subseteq DOMAIN h.aliases

LEMMA AddFileFacts ==
  ASSUME NEW N, NEW types, \A n \in N : IsNode(n),
         NEW g \in GraphsOf(N, types), IsClosed(g), NEW path, NEW index, FilesStocked(index, N)
  PROVE  LET h == AddFile(g, path, index) IN h \in Above(g, N, types) /\ HasFile(h, index, path)
<1>. DEFINE found == {m \in index.files : m.path = path}
            nodes == {FileNodeOf(n) : n \in found}
            f == [n \in found |-> FileNodeOf(n)]
<1>1. IsFiniteSet(found)
  BY FS_Subset DEF FilesStocked
<1>2. f \in Surjection(found, nodes)
  BY DEF Surjection
<1>3. nodes \in SUBSET N
  BY DEF FilesStocked
<1>4. AddFile(g, path, index) = AddNodes(nodes, g)
  BY DEF AddFile
<1>6. \A n \in index.files : n.path = path => FileNodeOf(n) \in nodes
  OBVIOUS
<1>. HIDE DEF f, found, nodes
<1>5. IsFiniteSet(nodes)
  BY <1>1, <1>2, FS_Surjection
<1>7. LET h == AddNodes(nodes, g)
      IN  h \in Above(g, N, types) /\ \A n \in nodes : n.aliases \subseteq DOMAIN h.aliases
  BY <1>3, <1>5, AddNodesFacts
<1>. QED  BY <1>4, <1>6, <1>7 DEF HasFile

LEMMA AddSymbolFacts ==
  ASSUME NEW N, NEW types, \A n \in N : IsNode(n), Types \subseteq types,
         NEW g \in GraphsOf(N, types), IsClosed(g), NEW symbol, SymbolStocked(symbol, N)
  PROVE  AddSymbol(g, symbol) \in Above(g, N, types)
<1>. DEFINE node == SymbolNode(symbol)
            file == SymbolFile(symbol)
            h1 == AddNode(node, g)
            h2 == AddNode(file, h1)
            h3 == AddNodes(ConceptNodes(symbol.concepts), h2)
            edges == {Edge(node, "DEFINED_IN", file)}
                       \cup {Edge(ConceptNode(c), "IMPLEMENTED_BY", node) : c \in symbol.concepts}
            h4 == AddEdges(edges, h3)
<1>1. node \in N /\ file \in N
  BY DEF SymbolStocked
<1>2. AddSymbol(g, symbol) = h4
  BY DEF AddSymbol
<1>. HIDE DEF node, file, h1, h2, h3, h4
<1>3. h1 \in Above(g, N, types) /\ HasNode(h1, node.id)
  BY <1>1, AddNodeFacts DEF h1
<1>4. h1 \in GraphsOf(N, types) /\ IsClosed(h1)
  BY <1>3 DEF Above
<1>5. h2 \in Above(h1, N, types) /\ HasNode(h2, file.id)
  BY <1>1, <1>4, AddNodeFacts DEF h2
<1>6. h2 \in GraphsOf(N, types) /\ IsClosed(h2)
  BY <1>5 DEF Above
<1>7. /\ h3 \in Above(h2, N, types)
      /\ \A n \in ConceptNodes(symbol.concepts) : HasNode(h3, n.id)
  <2>1. IsFiniteSet(ConceptNodes(symbol.concepts)) /\ ConceptNodes(symbol.concepts) \in SUBSET N
    BY ConceptNodesFinite DEF SymbolStocked
  <2>. QED  BY <1>6, <2>1, AddNodesFacts DEF h3
<1>8. h3 \in GraphsOf(N, types) /\ IsClosed(h3)
  BY <1>7 DEF Above
<1>9. HasNode(h3, node.id) /\ HasNode(h3, file.id) /\ \A c \in symbol.concepts : HasNode(h3, ConceptNode(c).id)
  <2>1. HasNode(h3, node.id) /\ HasNode(h3, file.id)
    BY <1>3, <1>5, <1>7 DEF Above, Grows, HasNode
  <2>2. \A c \in symbol.concepts : ConceptNode(c) \in ConceptNodes(symbol.concepts)
    BY DEF ConceptNodes
  <2>. QED  BY <1>7, <2>1, <2>2
<1>10. h4 \in Above(h3, N, types)
  <2>1. \A e \in edges : Joins(e, h3, types)
    BY <1>9, EdgeJoins DEF Types
  <2>. HIDE DEF edges
  <2>. QED  BY <1>8, <2>1, AddEdgesFacts DEF h4
<1>. QED  BY <1>2, <1>3, <1>5, <1>7, <1>10, AboveTransitive

LEMMA AddTestFacts ==
  ASSUME NEW N, NEW types, \A n \in N : IsNode(n), Types \subseteq types,
         NEW g \in GraphsOf(N, types), IsClosed(g), NEW mapping, TestStocked(mapping, N)
  PROVE  AddTest(mapping, g) \in Above(g, N, types)
<1>. DEFINE source == StubNode(mapping.source, "code_file")
            test == StubNode(mapping.test, "test_file")
            h1 == AddNode(source, g)
            h2 == AddNode(test, h1)
            h3 == AddEdges({Edge(source, "TESTED_BY", test)}, h2)
<1>1. source \in N /\ test \in N
  BY DEF TestStocked
<1>2. AddTest(mapping, g) = h3
  BY DEF AddTest
<1>. HIDE DEF source, test, h1, h2, h3
<1>3. h1 \in Above(g, N, types) /\ HasNode(h1, source.id)
  BY <1>1, AddNodeFacts DEF h1
<1>4. h1 \in GraphsOf(N, types) /\ IsClosed(h1)
  BY <1>3 DEF Above
<1>5. h2 \in Above(h1, N, types) /\ HasNode(h2, test.id)
  BY <1>1, <1>4, AddNodeFacts DEF h2
<1>6. h2 \in GraphsOf(N, types) /\ IsClosed(h2) /\ HasNode(h2, source.id)
  BY <1>3, <1>5 DEF Above, Grows, HasNode
<1>7. h3 \in Above(h2, N, types)
  <2>1. Joins(Edge(source, "TESTED_BY", test), h2, types)
    BY <1>5, <1>6, EdgeJoins DEF Types
  <2>. QED  BY <1>6, <2>1, AddEdgesFacts DEF h3
<1>. QED  BY <1>2, <1>3, <1>5, <1>7, AboveTransitive

LEMMA AddConceptFacts ==
  ASSUME NEW N, NEW types, \A n \in N : IsNode(n), Types \subseteq types,
         NEW g \in GraphsOf(N, types), IsClosed(g), NEW mapping, ConceptStocked(mapping, N)
  PROVE  AddConcept(mapping, g) \in Above(g, N, types)
<1>. DEFINE concept == ConceptNode(mapping.concept)
            h1 == AddNode(concept, g)
            h2 == AddNodes(CodeStubs(mapping.files), h1)
            h3 == AddNodes(TestStubs(mapping.tests), h2)
            h4 == AddEdges(ConceptEdges(mapping), h3)
<1>1. concept \in N
  BY DEF ConceptStocked
<1>2. AddConcept(mapping, g) = h4
  BY DEF AddConcept, CodeStubs, TestStubs
<1>. HIDE DEF concept, h1, h2, h3, h4
<1>3. h1 \in Above(g, N, types) /\ HasNode(h1, concept.id)
  BY <1>1, AddNodeFacts DEF h1
<1>4. h1 \in GraphsOf(N, types) /\ IsClosed(h1)
  BY <1>3 DEF Above
<1>5. h2 \in Above(h1, N, types) /\ \A n \in CodeStubs(mapping.files) : HasNode(h2, n.id)
  <2>1. IsFiniteSet(CodeStubs(mapping.files)) /\ CodeStubs(mapping.files) \in SUBSET N
    BY StubsFinite DEF ConceptStocked
  <2>. QED  BY <1>4, <2>1, AddNodesFacts DEF h2
<1>6. h2 \in GraphsOf(N, types) /\ IsClosed(h2)
  BY <1>5 DEF Above
<1>7. h3 \in Above(h2, N, types) /\ \A n \in TestStubs(mapping.tests) : HasNode(h3, n.id)
  <2>1. IsFiniteSet(TestStubs(mapping.tests)) /\ TestStubs(mapping.tests) \in SUBSET N
    BY StubsFinite DEF ConceptStocked
  <2>. QED  BY <1>6, <2>1, AddNodesFacts DEF h3
<1>8. h3 \in GraphsOf(N, types) /\ IsClosed(h3)
  BY <1>7 DEF Above
<1>9. /\ HasNode(h3, concept.id)
      /\ \A p \in mapping.files : HasNode(h3, StubNode(p, "code_file").id)
      /\ \A p \in mapping.tests : HasNode(h3, StubNode(p, "test_file").id)
  <2>1. \A p \in mapping.files : StubNode(p, "code_file") \in CodeStubs(mapping.files)
    BY DEF CodeStubs
  <2>2. \A p \in mapping.tests : StubNode(p, "test_file") \in TestStubs(mapping.tests)
    BY DEF TestStubs
  <2>3. \A id : HasNode(h2, id) => HasNode(h3, id)
    BY <1>7 DEF Above, Grows, HasNode
  <2>4. HasNode(h2, concept.id)
    BY <1>3, <1>5 DEF Above, Grows, HasNode
  <2>. QED  BY <1>5, <1>7, <2>1, <2>2, <2>3, <2>4
<1>10. h4 \in Above(h3, N, types)
  <2>1. \A e \in ConceptEdges(mapping) : Joins(e, h3, types)
    BY <1>9, EdgeJoins DEF Types, ConceptEdges, concept
  <2>. QED  BY <1>8, <2>1, AddEdgesFacts DEF h4
<1>. QED  BY <1>2, <1>3, <1>5, <1>7, <1>10, AboveTransitive

LEMMA AddFilesFacts ==
  ASSUME NEW N, NEW types, \A n \in N : IsNode(n), Types \subseteq types,
         NEW g \in GraphsOf(N, types), IsClosed(g),
         NEW X, PathOrder \in Seq(X), NEW index, FilesStocked(index, N)
  PROVE  LET h == AddFiles(g, index)
         IN  h \in Above(g, N, types) /\ \A i \in DOMAIN PathOrder : HasFile(h, index, PathOrder[i])
<1>. DEFINE U == Above(g, N, types)
            step == [x \in DOMAIN PathOrder |-> [h \in U |-> AddFile(h, PathOrder[x], index)]]
            F(f) == f = [s \in SUBSET DOMAIN PathOrder |->
                            IF s = {} THEN g
                            ELSE LET x == Max(s) IN AddFile(f[s \ {x}], PathOrder[x], index)]
            c == CHOOSE f : F(f)
<1>1. g \in U
  BY AboveItself
<1>2. ASSUME NEW x \in DOMAIN PathOrder, NEW h \in U
      PROVE  LET k == AddFile(h, PathOrder[x], index)
             IN  k \in U /\ Grows(h, k) /\ HasFile(k, index, PathOrder[x])
  <2>1. h \in GraphsOf(N, types) /\ IsClosed(h)
    BY DEF Above
  <2>2. /\ AddFile(h, PathOrder[x], index) \in Above(h, N, types)
        /\ HasFile(AddFile(h, PathOrder[x], index), index, PathOrder[x])
    BY <2>1, AddFileFacts
  <2>3. Grows(h, AddFile(h, PathOrder[x], index))
    BY <2>2 DEF Above
  <2>. QED  BY <2>2, <2>3, AboveTransitive
<1>. HIDE DEF U
<1>3. \A x \in DOMAIN PathOrder : \A h \in U : step[x][h] \in U /\ step[x][h] = AddFile(h, PathOrder[x], index)
  BY <1>2
<1>4. PICK f : /\ IsFold(f, SUBSET DOMAIN PathOrder, Greatest(DOMAIN PathOrder), step, g)
               /\ \A s \in SUBSET DOMAIN PathOrder : f[s] \in U
  <2>. DEFINE S == DOMAIN PathOrder
              pick == Greatest(DOMAIN PathOrder)
              base == g
  <2>1. \A x \in S : \A h \in U : step[x][h] \in U
    BY <1>3
  <2>2. \A s \in SUBSET S : s # {} => pick[s] \in s
    BY GreatestInside
  <2>3. IsFiniteSet(S)
    BY GreatestInside
  <2>4. base \in U
    BY <1>1
  <2>. HIDE DEF step, S, pick, base
  <2>5. \E f : IsFold(f, SUBSET S, pick, step, base) /\ \A s \in SUBSET S : f[s] \in U
    BY <2>1, <2>2, <2>3, <2>4, FoldWithin
  <2>. QED  BY <2>5 DEF S, pick, base
<1>5. F(f)
  <2>1. ASSUME NEW s \in SUBSET DOMAIN PathOrder, s # {}
        PROVE  LET x == Max(s)
               IN  x \in DOMAIN PathOrder /\ s \ {x} \in SUBSET DOMAIN PathOrder /\ Greatest(DOMAIN PathOrder)[s] = x
    <3>1. (Max(s)) \in s /\ Greatest(DOMAIN PathOrder)[s] = (Max(s))
      BY <2>1, GreatestInside DEF Greatest
    <3>. QED  BY <3>1
  <2>2. f = [s \in SUBSET DOMAIN PathOrder |->
                IF s = {} THEN g ELSE step[Greatest(DOMAIN PathOrder)[s]][f[s \ {Greatest(DOMAIN PathOrder)[s]}]]]
    BY <1>4 DEF IsFold
  <2>3. \A s \in SUBSET DOMAIN PathOrder : s # {} =>
            LET x == Max(s)
            IN  step[Greatest(DOMAIN PathOrder)[s]][f[s \ {Greatest(DOMAIN PathOrder)[s]}]] = AddFile(f[s \ {x}], PathOrder[x], index)
    <3>. HIDE DEF step
    <3>. QED  BY <1>3, <1>4, <2>1
  <2>. HIDE DEF step
  <2>. QED  BY <2>2, <2>3
<1>6. F(c)
  <2>. HIDE DEF F
  <2>. QED  BY <1>5
<1>7. AddFiles(g, index) = c[DOMAIN PathOrder]
  BY DEF AddFiles, FoldLeft, MapThenFoldSet
<1>. HIDE DEF c, step
<1>8. /\ c[{}] = g
      /\ \A s \in SUBSET DOMAIN PathOrder : s # {} =>
            \E x \in s : s \ {x} \in SUBSET DOMAIN PathOrder /\ c[s] = AddFile(c[s \ {x}], PathOrder[x], index)
  <2>1. ASSUME NEW s \in SUBSET DOMAIN PathOrder, s # {}
        PROVE  LET x == Max(s) IN x \in s /\ s \ {x} \in SUBSET DOMAIN PathOrder
    <3>1. (Max(s)) \in s
      BY <2>1, GreatestInside DEF Greatest
    <3>. QED  BY <3>1
  <2>. QED  BY <1>6, <2>1
<1>. DEFINE Good == {s \in SUBSET DOMAIN PathOrder : c[s] \in U /\ \A i \in s : HasFile(c[s], index, PathOrder[i])}
<1>9. ASSUME NEW s \in SUBSET DOMAIN PathOrder, s # {} PROVE \E x \in s : s \ {x} \in Good => s \in Good
  <2>1. PICK x \in s : s \ {x} \in SUBSET DOMAIN PathOrder /\ c[s] = AddFile(c[s \ {x}], PathOrder[x], index)
    BY <1>8, <1>9
  <2>2. SUFFICES ASSUME s \ {x} \in Good PROVE s \in Good
    BY <2>1
  <2>. DEFINE h == c[s \ {x}]
  <2>3. h \in U /\ \A i \in s \ {x} : HasFile(h, index, PathOrder[i])
    BY <2>2
  <2>. HIDE DEF h
  <2>4. c[s] = AddFile(h, PathOrder[x], index)
    BY <2>1 DEF h
  <2>5. c[s] \in U /\ Grows(h, c[s]) /\ HasFile(c[s], index, PathOrder[x])
    BY <1>2, <2>3, <2>4
  <2>6. \A i \in s \ {x} : HasFile(c[s], index, PathOrder[i])
    BY <2>3, <2>5 DEF HasFile, Grows
  <2>. QED  BY <2>5, <2>6
<1>10. {} \in Good
  BY <1>1, <1>8
<1>11. DOMAIN PathOrder \in Good
  <2>. DEFINE S == DOMAIN PathOrder
  <2>1. IsFiniteSet(S)
    BY GreatestInside
  <2>. HIDE DEF Good
  <2>2. \A s \in SUBSET S : s # {} => \E x \in s : s \ {x} \in Good => s \in Good
    BY <1>9
  <2>. HIDE DEF S
  <2>3. \A s \in SUBSET S : s \in Good
    BY <1>10, <2>1, <2>2, SubsetInduction
  <2>4. S \in Good
    BY <2>3
  <2>. QED  BY <2>4 DEF S
<1>. QED  BY <1>7, <1>11 DEF U

LEMMA AddSymbolsFacts ==
  ASSUME NEW N, NEW types, \A n \in N : IsNode(n), Types \subseteq types,
         NEW g \in GraphsOf(N, types), IsClosed(g),
         NEW X, NEW symbols \in Seq(X), \A i \in DOMAIN symbols : SymbolStocked(symbols[i], N)
  PROVE  FoldLeft(AddSymbol, g, symbols) \in Above(g, N, types)
<1>. DEFINE U == Above(g, N, types)
            step == [x \in DOMAIN symbols |-> [h \in U |-> AddSymbol(h, symbols[x])]]
            F(f) == f = [s \in SUBSET DOMAIN symbols |->
                            IF s = {} THEN g
                            ELSE LET x == Max(s) IN AddSymbol(f[s \ {x}], symbols[x])]
            c == CHOOSE f : F(f)
<1>1. g \in U
  BY AboveItself
<1>2. ASSUME NEW x \in DOMAIN symbols, NEW h \in U PROVE AddSymbol(h, symbols[x]) \in U
  <2>1. h \in GraphsOf(N, types) /\ IsClosed(h)
    BY DEF Above
  <2>3. AddSymbol(h, symbols[x]) \in Above(h, N, types)
    BY <2>1, AddSymbolFacts
  <2>. QED  BY <2>3, AboveTransitive
<1>. HIDE DEF U
<1>3. \A x \in DOMAIN symbols : \A h \in U : step[x][h] \in U /\ step[x][h] = AddSymbol(h, symbols[x])
  BY <1>2
<1>4. PICK f : /\ IsFold(f, SUBSET DOMAIN symbols, Greatest(DOMAIN symbols), step, g)
               /\ \A s \in SUBSET DOMAIN symbols : f[s] \in U
  <2>. DEFINE S == DOMAIN symbols
              pick == Greatest(DOMAIN symbols)
              base == g
  <2>1. \A x \in S : \A h \in U : step[x][h] \in U
    BY <1>3
  <2>2. \A s \in SUBSET S : s # {} => pick[s] \in s
    BY GreatestInside
  <2>3. IsFiniteSet(S)
    BY GreatestInside
  <2>4. base \in U
    BY <1>1
  <2>. HIDE DEF step, S, pick, base
  <2>5. \E f : IsFold(f, SUBSET S, pick, step, base) /\ \A s \in SUBSET S : f[s] \in U
    BY <2>1, <2>2, <2>3, <2>4, FoldWithin
  <2>. QED  BY <2>5 DEF S, pick, base
<1>5. F(f)
  <2>1. ASSUME NEW s \in SUBSET DOMAIN symbols, s # {}
        PROVE  LET x == Max(s)
               IN  x \in DOMAIN symbols /\ s \ {x} \in SUBSET DOMAIN symbols /\ Greatest(DOMAIN symbols)[s] = x
    <3>1. (Max(s)) \in s /\ Greatest(DOMAIN symbols)[s] = (Max(s))
      BY <2>1, GreatestInside DEF Greatest
    <3>. QED  BY <3>1
  <2>2. f = [s \in SUBSET DOMAIN symbols |->
                IF s = {} THEN g ELSE step[Greatest(DOMAIN symbols)[s]][f[s \ {Greatest(DOMAIN symbols)[s]}]]]
    BY <1>4 DEF IsFold
  <2>3. \A s \in SUBSET DOMAIN symbols : s # {} =>
            LET x == Max(s)
            IN  step[Greatest(DOMAIN symbols)[s]][f[s \ {Greatest(DOMAIN symbols)[s]}]] = AddSymbol(f[s \ {x}], symbols[x])
    <3>. HIDE DEF step
    <3>. QED  BY <1>3, <1>4, <2>1
  <2>. HIDE DEF step
  <2>. QED  BY <2>2, <2>3
<1>6. F(c)
  <2>. HIDE DEF F
  <2>. QED  BY <1>5
<1>7. FoldLeft(AddSymbol, g, symbols) = c[DOMAIN symbols]
  BY DEF FoldLeft, MapThenFoldSet
<1>. HIDE DEF c, step
<1>8. /\ c[{}] = g
      /\ \A s \in SUBSET DOMAIN symbols : s # {} =>
            \E x \in s : s \ {x} \in SUBSET DOMAIN symbols /\ c[s] = AddSymbol(c[s \ {x}], symbols[x])
  <2>1. ASSUME NEW s \in SUBSET DOMAIN symbols, s # {}
        PROVE  LET x == Max(s) IN x \in s /\ s \ {x} \in SUBSET DOMAIN symbols
    <3>1. (Max(s)) \in s
      BY <2>1, GreatestInside DEF Greatest
    <3>. QED  BY <3>1
  <2>. QED  BY <1>6, <2>1
<1>. DEFINE S == DOMAIN symbols
<1>9. IsFiniteSet(S)
  BY GreatestInside
<1>10. Inherits(c, S, U)
  <2>1. ASSUME NEW s \in SUBSET S, s # {} PROVE \E x \in s : c[s \ {x}] \in U => c[s] \in U
    BY <1>2, <1>8, <2>1
  <2>2. c[{}] \in U
    BY <1>1, <1>8
  <2>. QED  BY <2>1, <2>2 DEF Inherits
<1>11. c[S] \in U
  <2>. HIDE DEF S
  <2>. QED  BY <1>9, <1>10, FoldInherits
<1>. QED  BY <1>7, <1>11 DEF U

LEMMA AddTestsFacts ==
  ASSUME NEW N, NEW types, \A n \in N : IsNode(n), Types \subseteq types,
         NEW g \in GraphsOf(N, types), IsClosed(g),
         NEW mappings, IsFiniteSet(mappings), \A m \in mappings : TestStocked(m, N)
  PROVE  FoldSet(AddTest, g, mappings) \in Above(g, N, types)
<1>. DEFINE U == Above(g, N, types)
            step == [x \in mappings |-> [h \in U |-> AddTest(x, h)]]
            F(f) == f = [s \in SUBSET mappings |->
                            IF s = {} THEN g
                            ELSE LET x == CHOOSE x \in s : TRUE IN AddTest(x, f[s \ {x}])]
            c == CHOOSE f : F(f)
<1>1. g \in U
  BY AboveItself
<1>2. ASSUME NEW x \in mappings, NEW h \in U PROVE AddTest(x, h) \in U
  <2>1. h \in GraphsOf(N, types) /\ IsClosed(h)
    BY DEF Above
  <2>3. AddTest(x, h) \in Above(h, N, types)
    BY <2>1, AddTestFacts
  <2>. QED  BY <2>3, AboveTransitive
<1>. HIDE DEF U
<1>3. \A x \in mappings : \A h \in U : step[x][h] \in U /\ step[x][h] = AddTest(x, h)
  BY <1>2
<1>4. PICK f : /\ IsFold(f, SUBSET mappings, Picked(mappings), step, g)
               /\ \A s \in SUBSET mappings : f[s] \in U
  <2>. DEFINE S == mappings
              pick == Picked(mappings)
              base == g
  <2>1. \A x \in S : \A h \in U : step[x][h] \in U
    BY <1>3
  <2>2. \A s \in SUBSET S : s # {} => pick[s] \in s
    BY PickedInside
  <2>3. IsFiniteSet(S)
    OBVIOUS
  <2>4. base \in U
    BY <1>1
  <2>. HIDE DEF step, S, pick, base
  <2>5. \E f : IsFold(f, SUBSET S, pick, step, base) /\ \A s \in SUBSET S : f[s] \in U
    BY <2>1, <2>2, <2>3, <2>4, FoldWithin
  <2>. QED  BY <2>5 DEF S, pick, base
<1>5. F(f)
  <2>1. ASSUME NEW s \in SUBSET mappings, s # {}
        PROVE  LET x == CHOOSE x \in s : TRUE
               IN  x \in mappings /\ s \ {x} \in SUBSET mappings /\ Picked(mappings)[s] = x
    <3>1. (CHOOSE x \in s : TRUE) \in s /\ Picked(mappings)[s] = (CHOOSE x \in s : TRUE)
      BY <2>1, PickedInside DEF Picked
    <3>. QED  BY <3>1
  <2>2. f = [s \in SUBSET mappings |->
                IF s = {} THEN g ELSE step[Picked(mappings)[s]][f[s \ {Picked(mappings)[s]}]]]
    BY <1>4 DEF IsFold
  <2>3. ASSUME NEW s \in SUBSET mappings, s # {}
        PROVE  LET x == CHOOSE x \in s : TRUE
               IN  step[Picked(mappings)[s]][f[s \ {Picked(mappings)[s]}]] = AddTest(x, f[s \ {x}])
    <3>. DEFINE x == CHOOSE x \in s : TRUE
    <3>. HIDE DEF step
    <3>1. x \in mappings /\ s \ {x} \in SUBSET mappings /\ Picked(mappings)[s] = x
      BY <2>1, <2>3
    <3>. HIDE DEF x
    <3>2. f[s \ {x}] \in U
      BY <1>4, <3>1
    <3>3. step[x][f[s \ {x}]] = AddTest(x, f[s \ {x}])
      BY <1>3, <3>1, <3>2
    <3>4. step[Picked(mappings)[s]][f[s \ {Picked(mappings)[s]}]] = AddTest(x, f[s \ {x}])
      BY <3>1, <3>3
    <3>. QED  BY <3>4 DEF x
  <2>. HIDE DEF step
  <2>. QED  BY <2>2, <2>3
<1>6. F(c)
  <2>. HIDE DEF F
  <2>. QED  BY <1>5
<1>7. FoldSet(AddTest, g, mappings) = c[mappings]
  BY DEF FoldSet, MapThenFoldSet
<1>. HIDE DEF c, step
<1>8. /\ c[{}] = g
      /\ \A s \in SUBSET mappings : s # {} =>
            \E x \in s : s \ {x} \in SUBSET mappings /\ c[s] = AddTest(x, c[s \ {x}])
  <2>1. ASSUME NEW s \in SUBSET mappings, s # {}
        PROVE  LET x == CHOOSE x \in s : TRUE IN x \in s /\ s \ {x} \in SUBSET mappings
    <3>1. (CHOOSE x \in s : TRUE) \in s
      BY <2>1, PickedInside DEF Picked
    <3>. QED  BY <3>1
  <2>. QED  BY <1>6, <2>1
<1>. DEFINE S == mappings
<1>9. IsFiniteSet(S)
  OBVIOUS
<1>10. Inherits(c, S, U)
  <2>1. ASSUME NEW s \in SUBSET S, s # {} PROVE \E x \in s : c[s \ {x}] \in U => c[s] \in U
    BY <1>2, <1>8, <2>1
  <2>2. c[{}] \in U
    BY <1>1, <1>8
  <2>. QED  BY <2>1, <2>2 DEF Inherits
<1>11. c[S] \in U
  <2>. HIDE DEF S
  <2>. QED  BY <1>9, <1>10, FoldInherits
<1>. QED  BY <1>7, <1>11 DEF U

LEMMA AddConceptsFacts ==
  ASSUME NEW N, NEW types, \A n \in N : IsNode(n), Types \subseteq types,
         NEW g \in GraphsOf(N, types), IsClosed(g),
         NEW mappings, IsFiniteSet(mappings), \A m \in mappings : ConceptStocked(m, N)
  PROVE  FoldSet(AddConcept, g, mappings) \in Above(g, N, types)
<1>. DEFINE U == Above(g, N, types)
            step == [x \in mappings |-> [h \in U |-> AddConcept(x, h)]]
            F(f) == f = [s \in SUBSET mappings |->
                            IF s = {} THEN g
                            ELSE LET x == CHOOSE x \in s : TRUE IN AddConcept(x, f[s \ {x}])]
            c == CHOOSE f : F(f)
<1>1. g \in U
  BY AboveItself
<1>2. ASSUME NEW x \in mappings, NEW h \in U PROVE AddConcept(x, h) \in U
  <2>1. h \in GraphsOf(N, types) /\ IsClosed(h)
    BY DEF Above
  <2>3. AddConcept(x, h) \in Above(h, N, types)
    BY <2>1, AddConceptFacts
  <2>. QED  BY <2>3, AboveTransitive
<1>. HIDE DEF U
<1>3. \A x \in mappings : \A h \in U : step[x][h] \in U /\ step[x][h] = AddConcept(x, h)
  BY <1>2
<1>4. PICK f : /\ IsFold(f, SUBSET mappings, Picked(mappings), step, g)
               /\ \A s \in SUBSET mappings : f[s] \in U
  <2>. DEFINE S == mappings
              pick == Picked(mappings)
              base == g
  <2>1. \A x \in S : \A h \in U : step[x][h] \in U
    BY <1>3
  <2>2. \A s \in SUBSET S : s # {} => pick[s] \in s
    BY PickedInside
  <2>3. IsFiniteSet(S)
    OBVIOUS
  <2>4. base \in U
    BY <1>1
  <2>. HIDE DEF step, S, pick, base
  <2>5. \E f : IsFold(f, SUBSET S, pick, step, base) /\ \A s \in SUBSET S : f[s] \in U
    BY <2>1, <2>2, <2>3, <2>4, FoldWithin
  <2>. QED  BY <2>5 DEF S, pick, base
<1>5. F(f)
  <2>1. ASSUME NEW s \in SUBSET mappings, s # {}
        PROVE  LET x == CHOOSE x \in s : TRUE
               IN  x \in mappings /\ s \ {x} \in SUBSET mappings /\ Picked(mappings)[s] = x
    <3>1. (CHOOSE x \in s : TRUE) \in s /\ Picked(mappings)[s] = (CHOOSE x \in s : TRUE)
      BY <2>1, PickedInside DEF Picked
    <3>. QED  BY <3>1
  <2>2. f = [s \in SUBSET mappings |->
                IF s = {} THEN g ELSE step[Picked(mappings)[s]][f[s \ {Picked(mappings)[s]}]]]
    BY <1>4 DEF IsFold
  <2>3. ASSUME NEW s \in SUBSET mappings, s # {}
        PROVE  LET x == CHOOSE x \in s : TRUE
               IN  step[Picked(mappings)[s]][f[s \ {Picked(mappings)[s]}]] = AddConcept(x, f[s \ {x}])
    <3>. DEFINE x == CHOOSE x \in s : TRUE
    <3>. HIDE DEF step
    <3>1. x \in mappings /\ s \ {x} \in SUBSET mappings /\ Picked(mappings)[s] = x
      BY <2>1, <2>3
    <3>. HIDE DEF x
    <3>2. f[s \ {x}] \in U
      BY <1>4, <3>1
    <3>3. step[x][f[s \ {x}]] = AddConcept(x, f[s \ {x}])
      BY <1>3, <3>1, <3>2
    <3>4. step[Picked(mappings)[s]][f[s \ {Picked(mappings)[s]}]] = AddConcept(x, f[s \ {x}])
      BY <3>1, <3>3
    <3>. QED  BY <3>4 DEF x
  <2>. HIDE DEF step
  <2>. QED  BY <2>2, <2>3
<1>6. F(c)
  <2>. HIDE DEF F
  <2>. QED  BY <1>5
<1>7. FoldSet(AddConcept, g, mappings) = c[mappings]
  BY DEF FoldSet, MapThenFoldSet
<1>. HIDE DEF c, step
<1>8. /\ c[{}] = g
      /\ \A s \in SUBSET mappings : s # {} =>
            \E x \in s : s \ {x} \in SUBSET mappings /\ c[s] = AddConcept(x, c[s \ {x}])
  <2>1. ASSUME NEW s \in SUBSET mappings, s # {}
        PROVE  LET x == CHOOSE x \in s : TRUE IN x \in s /\ s \ {x} \in SUBSET mappings
    <3>1. (CHOOSE x \in s : TRUE) \in s
      BY <2>1, PickedInside DEF Picked
    <3>. QED  BY <3>1
  <2>. QED  BY <1>6, <2>1
<1>. DEFINE S == mappings
<1>9. IsFiniteSet(S)
  OBVIOUS
<1>10. Inherits(c, S, U)
  <2>1. ASSUME NEW s \in SUBSET S, s # {} PROVE \E x \in s : c[s \ {x}] \in U => c[s] \in U
    BY <1>2, <1>8, <2>1
  <2>2. c[{}] \in U
    BY <1>1, <1>8
  <2>. QED  BY <2>1, <2>2 DEF Inherits
<1>11. c[S] \in U
  <2>. HIDE DEF S
  <2>. QED  BY <1>9, <1>10, FoldInherits
<1>. QED  BY <1>7, <1>11 DEF U

LEMMA AddCodebaseFacts ==
  ASSUME NEW N, NEW types, \A n \in N : IsNode(n), Types \subseteq types,
         NEW g \in GraphsOf(N, types), IsClosed(g), NEW index, IndexStocked(index, N), PathOrder \in Seq(Paths)
  PROVE  LET h == AddFiles(g, index)
         IN  h \in Above(g, N, types) /\ AddCodebase(index, g) \in Above(h, N, types)
<1>. DEFINE h1 == AddFiles(g, index)
            h2 == FoldLeft(AddSymbol, h1, index.symbols)
            h3 == FoldSet(AddTest, h2, index.tests)
            h4 == FoldSet(AddConcept, h3, index.concepts)
<1>1. AddCodebase(index, g) = h4
  BY DEF AddCodebase
<1>. HIDE DEF h1, h2, h3, h4
<1>2. h1 \in Above(g, N, types)
  BY AddFilesFacts DEF h1, IndexStocked
<1>3. h1 \in GraphsOf(N, types) /\ IsClosed(h1)
  BY <1>2 DEF Above
<1>4. h2 \in Above(h1, N, types)
  <2>1. index.symbols \in Seq(Range(index.symbols))
    BY DEF IndexStocked
  <2>2. \A i \in DOMAIN index.symbols : SymbolStocked(index.symbols[i], N)
    BY DEF IndexStocked, Range
  <2>. QED  BY <1>3, <2>1, <2>2, AddSymbolsFacts DEF h2
<1>5. h2 \in GraphsOf(N, types) /\ IsClosed(h2)
  BY <1>4 DEF Above
<1>6. h3 \in Above(h2, N, types)
  BY <1>5, AddTestsFacts DEF IndexStocked, h3
<1>7. h3 \in GraphsOf(N, types) /\ IsClosed(h3)
  BY <1>6 DEF Above
<1>8. h4 \in Above(h3, N, types)
  BY <1>7, AddConceptsFacts DEF IndexStocked, h4
<1>9. h4 \in Above(h1, N, types)
  BY <1>4, <1>6, <1>8, AboveTransitive
<1>. QED  BY <1>1, <1>2, <1>9 DEF h1

LEMMA AddCodebasesFacts ==
  ASSUME NEW N, NEW types, \A n \in N : IsNode(n), Types \subseteq types,
         NEW g \in GraphsOf(N, types), IsClosed(g),
         NEW indexes, IsFiniteSet(indexes), \A index \in indexes : IndexStocked(index, N),
         PathOrder \in Seq(Paths)
  PROVE  LET h == FoldSet(AddCodebase, g, indexes)
         IN  h \in Above(g, N, types) /\ \A index : indexes = {index} => h = AddCodebase(index, g)
<1>. DEFINE U == Above(g, N, types)
            step == [x \in indexes |-> [h \in U |-> AddCodebase(x, h)]]
            F(f) == f = [s \in SUBSET indexes |->
                            IF s = {} THEN g
                            ELSE LET x == CHOOSE x \in s : TRUE IN AddCodebase(x, f[s \ {x}])]
            c == CHOOSE f : F(f)
<1>1. g \in U
  BY AboveItself
<1>2. ASSUME NEW x \in indexes, NEW h \in U PROVE AddCodebase(x, h) \in U
  <2>1. h \in GraphsOf(N, types) /\ IsClosed(h)
    BY DEF Above
  <2>3. AddCodebase(x, h) \in Above(h, N, types)
    BY <2>1, AddCodebaseFacts, AboveTransitive
  <2>. QED  BY <2>3, AboveTransitive
<1>. HIDE DEF U
<1>3. \A x \in indexes : \A h \in U : step[x][h] \in U /\ step[x][h] = AddCodebase(x, h)
  BY <1>2
<1>4. PICK f : /\ IsFold(f, SUBSET indexes, Picked(indexes), step, g)
               /\ \A s \in SUBSET indexes : f[s] \in U
  <2>. DEFINE S == indexes
              pick == Picked(indexes)
              base == g
  <2>1. \A x \in S : \A h \in U : step[x][h] \in U
    BY <1>3
  <2>2. \A s \in SUBSET S : s # {} => pick[s] \in s
    BY PickedInside
  <2>3. IsFiniteSet(S)
    OBVIOUS
  <2>4. base \in U
    BY <1>1
  <2>. HIDE DEF step, S, pick, base
  <2>5. \E f : IsFold(f, SUBSET S, pick, step, base) /\ \A s \in SUBSET S : f[s] \in U
    BY <2>1, <2>2, <2>3, <2>4, FoldWithin
  <2>. QED  BY <2>5 DEF S, pick, base
<1>5. F(f)
  <2>1. ASSUME NEW s \in SUBSET indexes, s # {}
        PROVE  LET x == CHOOSE x \in s : TRUE
               IN  x \in indexes /\ s \ {x} \in SUBSET indexes /\ Picked(indexes)[s] = x
    <3>1. (CHOOSE x \in s : TRUE) \in s /\ Picked(indexes)[s] = (CHOOSE x \in s : TRUE)
      BY <2>1, PickedInside DEF Picked
    <3>. QED  BY <3>1
  <2>2. f = [s \in SUBSET indexes |->
                IF s = {} THEN g ELSE step[Picked(indexes)[s]][f[s \ {Picked(indexes)[s]}]]]
    BY <1>4 DEF IsFold
  <2>3. ASSUME NEW s \in SUBSET indexes, s # {}
        PROVE  LET x == CHOOSE x \in s : TRUE
               IN  step[Picked(indexes)[s]][f[s \ {Picked(indexes)[s]}]] = AddCodebase(x, f[s \ {x}])
    <3>. DEFINE x == CHOOSE x \in s : TRUE
    <3>. HIDE DEF step
    <3>1. x \in indexes /\ s \ {x} \in SUBSET indexes /\ Picked(indexes)[s] = x
      BY <2>1, <2>3
    <3>. HIDE DEF x
    <3>2. f[s \ {x}] \in U
      BY <1>4, <3>1
    <3>3. step[x][f[s \ {x}]] = AddCodebase(x, f[s \ {x}])
      BY <1>3, <3>1, <3>2
    <3>4. step[Picked(indexes)[s]][f[s \ {Picked(indexes)[s]}]] = AddCodebase(x, f[s \ {x}])
      BY <3>1, <3>3
    <3>. QED  BY <3>4 DEF x
  <2>. HIDE DEF step
  <2>. QED  BY <2>2, <2>3
<1>6. F(c)
  <2>. HIDE DEF F
  <2>. QED  BY <1>5
<1>7. FoldSet(AddCodebase, g, indexes) = c[indexes]
  BY DEF FoldSet, MapThenFoldSet
<1>. HIDE DEF c, step
<1>8. /\ c[{}] = g
      /\ \A s \in SUBSET indexes : s # {} =>
            \E x \in s : s \ {x} \in SUBSET indexes /\ c[s] = AddCodebase(x, c[s \ {x}])
  <2>1. ASSUME NEW s \in SUBSET indexes, s # {}
        PROVE  LET x == CHOOSE x \in s : TRUE IN x \in s /\ s \ {x} \in SUBSET indexes
    <3>1. (CHOOSE x \in s : TRUE) \in s
      BY <2>1, PickedInside DEF Picked
    <3>. QED  BY <3>1
  <2>. QED  BY <1>6, <2>1
<1>. DEFINE S == indexes
<1>9. IsFiniteSet(S)
  OBVIOUS
<1>10. Inherits(c, S, U)
  <2>1. ASSUME NEW s \in SUBSET S, s # {} PROVE \E x \in s : c[s \ {x}] \in U => c[s] \in U
    BY <1>2, <1>8, <2>1
  <2>2. c[{}] \in U
    BY <1>1, <1>8
  <2>. QED  BY <2>1, <2>2 DEF Inherits
<1>11. c[S] \in U
  <2>. HIDE DEF S
  <2>. QED  BY <1>9, <1>10, FoldInherits
<1>12. ASSUME NEW index, indexes = {index} PROVE c[indexes] = AddCodebase(index, g)
  <2>1. PICK x \in indexes : c[indexes] = AddCodebase(x, c[indexes \ {x}])
    BY <1>8, <1>12
  <2>2. x = index /\ indexes \ {x} = {}
    BY <1>12
  <2>. QED  BY <1>8, <2>1, <2>2
<1>. QED  BY <1>7, <1>11, <1>12 DEF U
-----------------------------------------------------------------------------
(* What documents refer to *)

LEMMA ResolveFacts ==
  ASSUME NEW g, IsClosed(g), NEW path
  PROVE  \A id \in Resolve(g, path) : HasNode(g, id)
  BY DEF Resolve, IsClosed

CodeStocked(path, N) == StubNode(path, "code_file") \in N /\ StubNode(path, "test_file") \in N

\* The edge from a document to what a path names in g, if that is another node.
LinksTo(g, h, doc, path) ==
    /\ PathText(path) \in DOMAIN g.aliases
    /\ g.aliases[PathText(path)] # DocNode(doc).id
    => [from |-> DocNode(doc).id, type |-> "AFFECTS", to |-> g.aliases[PathText(path)]] \in h.edges

LEMMA LinksStay ==
  ASSUME NEW g, NEW h, NEW k, NEW doc, NEW path
  PROVE  /\ LinksTo(g, h, doc, path) /\ Grows(h, k) => LinksTo(g, k, doc, path)
         /\ Grows(g, h) /\ LinksTo(h, k, doc, path) => LinksTo(g, k, doc, path)
  BY DEF LinksTo, Grows

LEMMA LinkCodeFacts ==
  ASSUME NEW N, NEW types, \A n \in N : IsNode(n), Types \subseteq types,
         NEW g \in GraphsOf(N, types), IsClosed(g),
         NEW doc, Knows(g, doc), NEW path, CodeStocked(path, N)
  PROVE  LET h == LinkCode(g, doc, path) IN h \in Above(g, N, types) /\ LinksTo(g, h, doc, path)
<1>. DEFINE stub == StubNode(path, IF LooksLikeTest(path) THEN "test_file" ELSE "code_file")
            held == IF Resolve(g, path) = {} THEN AddNode(stub, g) ELSE g
            to == CHOOSE id \in Resolve(held, path) : TRUE
            edges == {[from |-> DocNode(doc).id, type |-> "AFFECTS", to |-> to]}
                       \cup {[from |-> ConceptNode(c).id, type |-> "IMPLEMENTED_BY", to |-> to] :
                                c \in doc.concepts}
            h == AddEdges(edges, held)
<1>1. LinkCode(g, doc, path) = h
  BY DEF LinkCode
<1>2. stub \in N /\ PathText(path) \in stub.aliases
  BY DEF CodeStocked, StubNode, PathAliases, Node
<1>. HIDE DEF stub, h
<1>3. held \in Above(g, N, types) /\ Resolve(held, path) # {}
  <2>1. CASE Resolve(g, path) = {}
    <3>1. held = AddNode(stub, g)
      BY <2>1
    <3>2. held \in Above(g, N, types) /\ stub.aliases \subseteq DOMAIN held.aliases
      BY <1>2, <3>1, AddNodeFacts
    <3>. HIDE DEF held
    <3>. QED  BY <1>2, <3>2 DEF Resolve
  <2>2. CASE Resolve(g, path) # {}
    BY <2>2, AboveItself
  <2>. QED  BY <2>1, <2>2
<1>4. PathText(path) \in DOMAIN g.aliases => Resolve(g, path) = {g.aliases[PathText(path)]} /\ held = g
  BY DEF Resolve
<1>. HIDE DEF held
<1>5. held \in GraphsOf(N, types) /\ IsClosed(held) /\ Knows(held, doc)
  BY <1>3, KnowsStays DEF Above
<1>6. HasNode(held, to)
  BY <1>3, <1>5, ResolveFacts
<1>7. PathText(path) \in DOMAIN g.aliases => to = g.aliases[PathText(path)] /\ held = g
  BY <1>4
<1>. HIDE DEF to
<1>8. \A e \in edges : Joins(e, held, types)
  BY <1>5, <1>6 DEF Joins, Knows, Types
<1>9. [from |-> DocNode(doc).id, type |-> "AFFECTS", to |-> to] \in edges
  OBVIOUS
<1>. HIDE DEF edges
<1>10. h \in Above(held, N, types)
  BY <1>5, <1>8, AddEdgesFacts DEF h
<1>11. \A e \in edges : e.from # e.to => e \in h.edges
  <2>1. held = [nodes |-> held.nodes, aliases |-> held.aliases, edges |-> held.edges]
    BY <1>5 DEF GraphsOf
  <2>2. h = [held EXCEPT !.edges = @ \cup {e \in edges : e.from # e.to}]
    BY DEF h, AddEdges
  <2>. QED  BY <2>1, <2>2
<1>12. LinksTo(g, h, doc, path)
  BY <1>7, <1>9, <1>11 DEF LinksTo
<1>. QED  BY <1>1, <1>3, <1>10, <1>12, AboveTransitive

LEMMA AddRelatedCodeFacts ==
  ASSUME NEW N, NEW types, \A n \in N : IsNode(n), Types \subseteq types,
         NEW g \in GraphsOf(N, types), IsClosed(g),
         NEW doc, Knows(g, doc), NEW X, doc.relatedCode \in Seq(X),
         \A i \in DOMAIN doc.relatedCode : CodeStocked(doc.relatedCode[i], N)
  PROVE  LET h == AddRelatedCode(g, doc)
         IN  /\ h \in Above(g, N, types)
             /\ \A i \in DOMAIN doc.relatedCode : LinksTo(g, h, doc, doc.relatedCode[i])
<1>. DEFINE U == Above(g, N, types)
            step == [x \in DOMAIN doc.relatedCode |-> [h \in U |-> LinkCode(h, doc, doc.relatedCode[x])]]
            F(f) == f = [s \in SUBSET DOMAIN doc.relatedCode |->
                            IF s = {} THEN g
                            ELSE LET x == Max(s) IN LinkCode(f[s \ {x}], doc, doc.relatedCode[x])]
            c == CHOOSE f : F(f)
<1>1. g \in U
  BY AboveItself
<1>2. ASSUME NEW x \in DOMAIN doc.relatedCode, NEW h \in U
      PROVE  LET k == LinkCode(h, doc, doc.relatedCode[x])
             IN  k \in U /\ Grows(h, k) /\ LinksTo(g, k, doc, doc.relatedCode[x])
  <2>1. h \in GraphsOf(N, types) /\ IsClosed(h)
    BY DEF Above
  <2>2. Knows(h, doc)
    BY KnowsStays DEF Above
  <2>3. /\ LinkCode(h, doc, doc.relatedCode[x]) \in Above(h, N, types)
        /\ LinksTo(h, LinkCode(h, doc, doc.relatedCode[x]), doc, doc.relatedCode[x])
    BY <2>1, <2>2, LinkCodeFacts
  <2>4. Grows(h, LinkCode(h, doc, doc.relatedCode[x])) /\ Grows(g, h)
    BY <2>3 DEF Above
  <2>5. LinksTo(g, LinkCode(h, doc, doc.relatedCode[x]), doc, doc.relatedCode[x])
    BY <2>3, <2>4, LinksStay
  <2>. QED  BY <2>3, <2>4, <2>5, AboveTransitive
<1>. HIDE DEF U
<1>3. \A x \in DOMAIN doc.relatedCode : \A h \in U : step[x][h] \in U /\ step[x][h] = LinkCode(h, doc, doc.relatedCode[x])
  BY <1>2
<1>4. PICK f : /\ IsFold(f, SUBSET DOMAIN doc.relatedCode, Greatest(DOMAIN doc.relatedCode), step, g)
               /\ \A s \in SUBSET DOMAIN doc.relatedCode : f[s] \in U
  <2>. DEFINE S == DOMAIN doc.relatedCode
              pick == Greatest(DOMAIN doc.relatedCode)
              base == g
  <2>1. \A x \in S : \A h \in U : step[x][h] \in U
    BY <1>3
  <2>2. \A s \in SUBSET S : s # {} => pick[s] \in s
    BY GreatestInside
  <2>3. IsFiniteSet(S)
    BY GreatestInside
  <2>4. base \in U
    BY <1>1
  <2>. HIDE DEF step, S, pick, base
  <2>5. \E f : IsFold(f, SUBSET S, pick, step, base) /\ \A s \in SUBSET S : f[s] \in U
    BY <2>1, <2>2, <2>3, <2>4, FoldWithin
  <2>. QED  BY <2>5 DEF S, pick, base
<1>5. F(f)
  <2>1. ASSUME NEW s \in SUBSET DOMAIN doc.relatedCode, s # {}
        PROVE  LET x == Max(s)
               IN  x \in DOMAIN doc.relatedCode /\ s \ {x} \in SUBSET DOMAIN doc.relatedCode /\ Greatest(DOMAIN doc.relatedCode)[s] = x
    <3>1. (Max(s)) \in s /\ Greatest(DOMAIN doc.relatedCode)[s] = (Max(s))
      BY <2>1, GreatestInside DEF Greatest
    <3>. QED  BY <3>1
  <2>2. f = [s \in SUBSET DOMAIN doc.relatedCode |->
                IF s = {} THEN g ELSE step[Greatest(DOMAIN doc.relatedCode)[s]][f[s \ {Greatest(DOMAIN doc.relatedCode)[s]}]]]
    BY <1>4 DEF IsFold
  <2>3. \A s \in SUBSET DOMAIN doc.relatedCode : s # {} =>
            LET x == Max(s)
            IN  step[Greatest(DOMAIN doc.relatedCode)[s]][f[s \ {Greatest(DOMAIN doc.relatedCode)[s]}]] = LinkCode(f[s \ {x}], doc, doc.relatedCode[x])
    <3>. HIDE DEF step
    <3>. QED  BY <1>3, <1>4, <2>1
  <2>. HIDE DEF step
  <2>. QED  BY <2>2, <2>3
<1>6. F(c)
  <2>. HIDE DEF F
  <2>. QED  BY <1>5
<1>7. AddRelatedCode(g, doc) = c[DOMAIN doc.relatedCode]
  BY DEF AddRelatedCode, FoldLeft, MapThenFoldSet
<1>. HIDE DEF c, step
<1>8. /\ c[{}] = g
      /\ \A s \in SUBSET DOMAIN doc.relatedCode : s # {} =>
            \E x \in s : s \ {x} \in SUBSET DOMAIN doc.relatedCode /\ c[s] = LinkCode(c[s \ {x}], doc, doc.relatedCode[x])
  <2>1. ASSUME NEW s \in SUBSET DOMAIN doc.relatedCode, s # {}
        PROVE  LET x == Max(s) IN x \in s /\ s \ {x} \in SUBSET DOMAIN doc.relatedCode
    <3>1. (Max(s)) \in s
      BY <2>1, GreatestInside DEF Greatest
    <3>. QED  BY <3>1
  <2>. QED  BY <1>6, <2>1
<1>. DEFINE Good == {s \in SUBSET DOMAIN doc.relatedCode : c[s] \in U /\ \A i \in s : LinksTo(g, c[s], doc, doc.relatedCode[i])}
<1>9. ASSUME NEW s \in SUBSET DOMAIN doc.relatedCode, s # {} PROVE \E x \in s : s \ {x} \in Good => s \in Good
  <2>1. PICK x \in s : s \ {x} \in SUBSET DOMAIN doc.relatedCode /\ c[s] = LinkCode(c[s \ {x}], doc, doc.relatedCode[x])
    BY <1>8, <1>9
  <2>2. SUFFICES ASSUME s \ {x} \in Good PROVE s \in Good
    BY <2>1
  <2>. DEFINE h == c[s \ {x}]
  <2>3. h \in U /\ \A i \in s \ {x} : LinksTo(g, h, doc, doc.relatedCode[i])
    BY <2>2
  <2>. HIDE DEF h
  <2>4. c[s] = LinkCode(h, doc, doc.relatedCode[x])
    BY <2>1 DEF h
  <2>5. c[s] \in U /\ Grows(h, c[s]) /\ LinksTo(g, c[s], doc, doc.relatedCode[x])
    BY <1>2, <2>3, <2>4
  <2>6. \A i \in s \ {x} : LinksTo(g, c[s], doc, doc.relatedCode[i])
    BY <2>3, <2>5, LinksStay
  <2>. QED  BY <2>5, <2>6
<1>10. {} \in Good
  BY <1>1, <1>8
<1>11. DOMAIN doc.relatedCode \in Good
  <2>. DEFINE S == DOMAIN doc.relatedCode
  <2>1. IsFiniteSet(S)
    BY GreatestInside
  <2>. HIDE DEF Good
  <2>2. \A s \in SUBSET S : s # {} => \E x \in s : s \ {x} \in Good => s \in Good
    BY <1>9
  <2>. HIDE DEF S
  <2>3. \A s \in SUBSET S : s \in Good
    BY <1>10, <2>1, <2>2, SubsetInduction
  <2>4. S \in Good
    BY <2>3
  <2>. QED  BY <2>4 DEF S
<1>. QED  BY <1>7, <1>11 DEF U

LEMMA AddRelatedFacts ==
  ASSUME NEW N, NEW types, NEW g \in GraphsOf(N, types), IsClosed(g), NEW doc, Knows(g, doc),
         \A r \in doc.related : r.type \in types
  PROVE  AddRelated(g, doc) \in Above(g, N, types)
<1>. DEFINE from == {DocNode(doc).id} \cup {g.aliases[ConceptText(c)] : c \in doc.concepts}
            Of(r) == {[from |-> f, type |-> r.type, to |-> to] : f \in from, to \in Resolve(g, r.ref)}
            edges == UNION {Of(r) : r \in doc.related}
<1>1. AddRelated(g, doc) = AddEdges(edges, g)
  BY DEF AddRelated
<1>2. \A f \in from : HasNode(g, f)
  BY DEF Knows, IsClosed
<1>3. ASSUME NEW r \in doc.related, NEW e \in Of(r) PROVE Joins(e, g, types)
  <2>1. PICK f \in from, to \in Resolve(g, r.ref) : e = [from |-> f, type |-> r.type, to |-> to]
    OBVIOUS
  <2>2. HasNode(g, f) /\ HasNode(g, to)
    BY <1>2, ResolveFacts
  <2>. QED  BY <2>1, <2>2 DEF Joins
<1>4. \A e \in edges : Joins(e, g, types)
  BY <1>3
<1>. HIDE DEF edges
<1>. QED  BY <1>1, <1>4, AddEdgesFacts

\* A document, as far as what it refers to is in N.
Referring(doc, N, types) ==
    /\ Stocked(doc, N)
    /\ doc.relatedCode \in Seq(Range(doc.relatedCode))
    /\ \A path \in Range(doc.relatedCode) : CodeStocked(path, N)
    /\ \A r \in doc.related : r.type \in types

\* Every path a document names.
AllLinked(g, h, doc) == \A path \in Range(doc.relatedCode) : LinksTo(g, h, doc, path)

LEMMA AllLinksStay ==
  ASSUME NEW g, NEW h, NEW k, NEW doc
  PROVE  /\ AllLinked(g, h, doc) /\ Grows(h, k) => AllLinked(g, k, doc)
         /\ Grows(g, h) /\ AllLinked(h, k, doc) => AllLinked(g, k, doc)
  BY LinksStay DEF AllLinked

LEMMA RelateFacts ==
  ASSUME NEW N, NEW types, \A n \in N : IsNode(n), Types \subseteq types,
         NEW g \in GraphsOf(N, types), IsClosed(g), NEW doc, Knows(g, doc), Referring(doc, N, types)
  PROVE  LET h == Relate(g, doc) IN h \in Above(g, N, types) /\ AllLinked(g, h, doc)
<1>. DEFINE h == AddRelatedCode(g, doc)
<1>1. h \in Above(g, N, types) /\ AllLinked(g, h, doc)
  <2>1. doc.relatedCode \in Seq(Range(doc.relatedCode))
    BY DEF Referring
  <2>2. \A i \in DOMAIN doc.relatedCode : CodeStocked(doc.relatedCode[i], N)
    BY DEF Referring, Range
  <2>3. h \in Above(g, N, types) /\ \A i \in DOMAIN doc.relatedCode : LinksTo(g, h, doc, doc.relatedCode[i])
    BY <2>1, <2>2, AddRelatedCodeFacts
  <2>. QED  BY <2>3 DEF AllLinked, Range
<1>. HIDE DEF h
<1>2. h \in GraphsOf(N, types) /\ IsClosed(h) /\ Knows(h, doc)
  BY <1>1, KnowsStays DEF Above
<1>3. AddRelated(h, doc) \in Above(h, N, types)
  BY <1>2, AddRelatedFacts DEF Referring
<1>4. Relate(g, doc) = AddRelated(h, doc)
  BY DEF Relate, h
<1>5. AllLinked(g, AddRelated(h, doc), doc)
  BY <1>1, <1>3, AllLinksStay DEF Above
<1>. QED  BY <1>1, <1>3, <1>4, <1>5, AboveTransitive

LEMMA RelateAllFacts ==
  ASSUME NEW N, NEW types, \A n \in N : IsNode(n), Types \subseteq types,
         NEW g \in GraphsOf(N, types), IsClosed(g),
         NEW D, NEW docs \in Seq(D), \A i \in DOMAIN docs : Knows(g, docs[i]) /\ Referring(docs[i], N, types)
  PROVE  LET h == FoldLeft(Relate, g, docs)
         IN  h \in Above(g, N, types) /\ \A i \in DOMAIN docs : AllLinked(g, h, docs[i])
<1>. DEFINE U == Above(g, N, types)
            step == [x \in DOMAIN docs |-> [h \in U |-> Relate(h, docs[x])]]
            F(f) == f = [s \in SUBSET DOMAIN docs |->
                            IF s = {} THEN g
                            ELSE LET x == Max(s) IN Relate(f[s \ {x}], docs[x])]
            c == CHOOSE f : F(f)
<1>1. g \in U
  BY AboveItself
<1>2. ASSUME NEW x \in DOMAIN docs, NEW h \in U
      PROVE  /\ Relate(h, docs[x]) \in U /\ Grows(h, Relate(h, docs[x]))
             /\ AllLinked(g, Relate(h, docs[x]), docs[x])
  <2>1. h \in GraphsOf(N, types) /\ IsClosed(h)
    BY DEF Above
  <2>2. Knows(h, docs[x])
    BY KnowsStays DEF Above
  <2>3. Relate(h, docs[x]) \in Above(h, N, types) /\ AllLinked(h, Relate(h, docs[x]), docs[x])
    BY <2>1, <2>2, RelateFacts
  <2>4. Grows(h, Relate(h, docs[x])) /\ Grows(g, h)
    BY <2>3 DEF Above
  <2>5. AllLinked(g, Relate(h, docs[x]), docs[x])
    BY <2>3, <2>4, AllLinksStay
  <2>. QED  BY <2>3, <2>4, <2>5, AboveTransitive
<1>. HIDE DEF U
<1>3. \A x \in DOMAIN docs : \A h \in U : step[x][h] \in U /\ step[x][h] = Relate(h, docs[x])
  BY <1>2
<1>4. PICK f : /\ IsFold(f, SUBSET DOMAIN docs, Greatest(DOMAIN docs), step, g)
               /\ \A s \in SUBSET DOMAIN docs : f[s] \in U
  <2>. DEFINE S == DOMAIN docs
              pick == Greatest(DOMAIN docs)
              base == g
  <2>1. \A x \in S : \A h \in U : step[x][h] \in U
    BY <1>3
  <2>2. \A s \in SUBSET S : s # {} => pick[s] \in s
    BY GreatestInside
  <2>3. IsFiniteSet(S)
    BY GreatestInside
  <2>4. base \in U
    BY <1>1
  <2>. HIDE DEF step, S, pick, base
  <2>5. \E f : IsFold(f, SUBSET S, pick, step, base) /\ \A s \in SUBSET S : f[s] \in U
    BY <2>1, <2>2, <2>3, <2>4, FoldWithin
  <2>. QED  BY <2>5 DEF S, pick, base
<1>5. F(f)
  <2>1. ASSUME NEW s \in SUBSET DOMAIN docs, s # {}
        PROVE  LET x == Max(s)
               IN  x \in DOMAIN docs /\ s \ {x} \in SUBSET DOMAIN docs /\ Greatest(DOMAIN docs)[s] = x
    <3>1. (Max(s)) \in s /\ Greatest(DOMAIN docs)[s] = (Max(s))
      BY <2>1, GreatestInside DEF Greatest
    <3>. QED  BY <3>1
  <2>2. f = [s \in SUBSET DOMAIN docs |->
                IF s = {} THEN g ELSE step[Greatest(DOMAIN docs)[s]][f[s \ {Greatest(DOMAIN docs)[s]}]]]
    BY <1>4 DEF IsFold
  <2>3. \A s \in SUBSET DOMAIN docs : s # {} =>
            LET x == Max(s)
            IN  step[Greatest(DOMAIN docs)[s]][f[s \ {Greatest(DOMAIN docs)[s]}]] = Relate(f[s \ {x}], docs[x])
    <3>. HIDE DEF step
    <3>. QED  BY <1>3, <1>4, <2>1
  <2>. HIDE DEF step
  <2>. QED  BY <2>2, <2>3
<1>6. F(c)
  <2>. HIDE DEF F
  <2>. QED  BY <1>5
<1>7. FoldLeft(Relate, g, docs) = c[DOMAIN docs]
  BY DEF FoldLeft, MapThenFoldSet
<1>. HIDE DEF c, step
<1>8. /\ c[{}] = g
      /\ \A s \in SUBSET DOMAIN docs : s # {} =>
            \E x \in s : s \ {x} \in SUBSET DOMAIN docs /\ c[s] = Relate(c[s \ {x}], docs[x])
  <2>1. ASSUME NEW s \in SUBSET DOMAIN docs, s # {}
        PROVE  LET x == Max(s) IN x \in s /\ s \ {x} \in SUBSET DOMAIN docs
    <3>1. (Max(s)) \in s
      BY <2>1, GreatestInside DEF Greatest
    <3>. QED  BY <3>1
  <2>. QED  BY <1>6, <2>1
<1>. DEFINE Good == {s \in SUBSET DOMAIN docs : c[s] \in U /\ \A i \in s : AllLinked(g, c[s], docs[i])}
<1>9. ASSUME NEW s \in SUBSET DOMAIN docs, s # {} PROVE \E x \in s : s \ {x} \in Good => s \in Good
  <2>1. PICK x \in s : s \ {x} \in SUBSET DOMAIN docs /\ c[s] = Relate(c[s \ {x}], docs[x])
    BY <1>8, <1>9
  <2>2. SUFFICES ASSUME s \ {x} \in Good PROVE s \in Good
    BY <2>1
  <2>. DEFINE h == c[s \ {x}]
  <2>3. h \in U /\ \A i \in s \ {x} : AllLinked(g, h, docs[i])
    BY <2>2
  <2>. HIDE DEF h
  <2>4. c[s] = Relate(h, docs[x])
    BY <2>1 DEF h
  <2>5. c[s] \in U /\ Grows(h, c[s]) /\ AllLinked(g, c[s], docs[x])
    BY <1>2, <2>3, <2>4
  <2>6. \A i \in s \ {x} : AllLinked(g, c[s], docs[i])
    BY <2>3, <2>5, AllLinksStay
  <2>. QED  BY <2>5, <2>6
<1>10. {} \in Good
  BY <1>1, <1>8
<1>11. DOMAIN docs \in Good
  <2>. DEFINE S == DOMAIN docs
  <2>1. IsFiniteSet(S)
    BY GreatestInside
  <2>. HIDE DEF Good
  <2>2. \A s \in SUBSET S : s # {} => \E x \in s : s \ {x} \in Good => s \in Good
    BY <1>9
  <2>. HIDE DEF S
  <2>3. \A s \in SUBSET S : s \in Good
    BY <1>10, <2>1, <2>2, SubsetInduction
  <2>4. S \in Good
    BY <2>3
  <2>. QED  BY <2>4 DEF S
<1>. QED  BY <1>7, <1>11 DEF U
-----------------------------------------------------------------------------
(* What indexing finds *)

\* The words of concepts.
Vocabulary ==
    (ImportantTokens \cup {"tracking", "long", "running", "collection"})
        \cup {"handling", "docs", "config", "job"}

LEMMA ConceptsFinite == IsFiniteSet(SUBSET Vocabulary)
<1>. DEFINE A == {"api", "async", "batch", "collector"}
            B == {"component", "controller", "execution", "failure"}
            C == {"job", "result", "service", "status"}
            D == {"test", "tracker", "workflow", "workflow"}
<1>1. IsFiniteSet(A) /\ IsFiniteSet(B) /\ IsFiniteSet(C) /\ IsFiniteSet(D)
  BY FourFinite
<1>2. ImportantTokens = ((A \cup B) \cup C) \cup D
  BY DEF ImportantTokens
<1>. HIDE DEF A, B, C, D
<1>3. IsFiniteSet(ImportantTokens)
  BY <1>1, <1>2, FS_Union
<1>4. IsFiniteSet({"tracking", "long", "running", "collection"})
  BY FourFinite
<1>5. IsFiniteSet({"handling", "docs", "config", "job"})
  BY FourFinite
<1>6. IsFiniteSet(Vocabulary)
  BY <1>3, <1>4, <1>5, FS_Union DEF Vocabulary
<1>. QED  BY <1>6, FS_SUBSET

Concepts == SUBSET Vocabulary

LEMMA PhrasesAreConcepts ==
  /\ KeyPhrases \subseteq Concepts
  /\ \A words : Tokens(words) \subseteq Concepts
  /\ \A words : PhrasesIn(words, NamedPhrases) \subseteq Concepts
  /\ \A words : PhrasesIn(words, SymbolPhrases) \subseteq Concepts
<1>1. KeyPhrases \subseteq Concepts
  BY DEF KeyPhrases, Concepts, Vocabulary, ImportantTokens
<1>2. \A words : Tokens(words) \subseteq Concepts
  BY DEF Tokens, Concepts, Vocabulary
<1>3. \A p \in NamedPhrases : p.concept \in Concepts
  <2>1. \A p \in {{"job", "execution"}, {"job", "status"}, {"async", "job"}, {"batch", "job"},
               {"status", "tracking"}} : p \in Concepts
    BY DEF Concepts, Vocabulary, ImportantTokens
  <2>2. {"status", "tracking"} \in Concepts /\ {"result", "collection"} \in Concepts
    BY DEF Concepts, Vocabulary, ImportantTokens
  <2>. HIDE DEF Concepts
  <2>. QED  BY <2>1, <2>2 DEF NamedPhrases
<1>4. \A p \in SymbolPhrases : p.concept \in Concepts
  <2>1. {"job", "execution"} \in Concepts /\ {"job", "status"} \in Concepts /\ {"status", "tracking"} \in Concepts
    BY DEF Concepts, Vocabulary, ImportantTokens
  <2>. HIDE DEF Concepts
  <2>. QED  BY <2>1 DEF SymbolPhrases
<1>5. \A words : PhrasesIn(words, NamedPhrases) \subseteq Concepts
  BY <1>3 DEF PhrasesIn
<1>6. \A words : PhrasesIn(words, SymbolPhrases) \subseteq Concepts
  BY <1>4 DEF PhrasesIn
<1>. QED  BY <1>1, <1>2, <1>5, <1>6

LEMMA FileConcepts ==
  ASSUME NEW path, NEW text
  PROVE  FileNode(path, text).concepts \subseteq Concepts /\ FileNode(path, text).path = path
<1>1. ConceptsFromPath(path) \subseteq Concepts
  BY DEF ConceptsFromPath, Concepts, Vocabulary, ImportantTokens
<1>2. DeriveConcepts(path, text.lines, Symbols(path, text.lines)) \subseteq Concepts
  BY PhrasesAreConcepts DEF DeriveConcepts
<1>. QED  BY <1>1, <1>2 DEF FileNode

LEMMA SymbolsAreSeq ==
  ASSUME NEW path, NEW lines, IsSeq(lines)
  PROVE  IsSeq(Symbols(path, lines))
<1>1. DOMAIN lines = 1..Len(lines) /\ Len(lines) \in Nat
  BY DEF IsSeq
<1>2. \A x : IsSeq(<<x>>)
  <2>1. \A x : <<x>> \in Seq({x})
    OBVIOUS
  <2>. QED  BY <2>1, SeqOver
<1>3. ASSUME NEW seqs, DOMAIN seqs = DOMAIN lines, IsFunction(seqs), \A n \in DOMAIN lines : IsSeq(seqs[n])
      PROVE  IsSeq(FlattenSeq(seqs))
  BY <1>1, <1>3, MadeSeq, FlattenIsSeq
<1>4. IsSeq(ExtractPython(path, lines))
  <2>. DEFINE Kind(n) == IF lines[n].kind = "class" THEN "class" ELSE "function"
              seqs == [n \in DOMAIN lines |->
                    IF lines[n].kind \notin {"class", "def"} THEN <<>>
                    ELSE <<[file |-> path, name |-> lines[n].name, kind |-> Kind(n), line |-> n]>>]
  <2>1. DOMAIN seqs = DOMAIN lines /\ IsFunction(seqs)
    BY DEF IsFunction
  <2>2. \A n \in DOMAIN lines : IsSeq(seqs[n])
    BY <1>2, EmptyIsSeq
  <2>3. ExtractPython(path, lines) = IF Declared(lines, "broken") # {} THEN <<>> ELSE FlattenSeq(seqs)
    BY DEF ExtractPython, SymbolsOf
  <2>. HIDE DEF seqs
  <2>. QED  BY EmptyIsSeq, <1>3, <2>1, <2>2, <2>3
<1>5. IsSeq(ExtractJava(path, lines))
  <2>. DEFINE Kind(n) == IF lines[n].kind # "method" THEN lines[n].kind
                   ELSE IF Declared(lines, "mapping") \cap {n - 1, n - 2} # {} THEN "endpoint"
                   ELSE "method"
              seqs == [n \in DOMAIN lines |->
                    IF lines[n].kind \notin {"class", "interface", "method"} THEN <<>>
                    ELSE <<[file |-> path, name |-> lines[n].name, kind |-> Kind(n), line |-> n]>>]
  <2>1. DOMAIN seqs = DOMAIN lines /\ IsFunction(seqs)
    BY DEF IsFunction
  <2>2. \A n \in DOMAIN lines : IsSeq(seqs[n])
    <3>. HIDE DEF Kind
    <3>. QED  BY <1>2, EmptyIsSeq
  <2>3. ExtractJava(path, lines) = FlattenSeq(seqs)
    BY DEF ExtractJava, SymbolsOf
  <2>. HIDE DEF seqs
  <2>. QED  BY <1>3, <2>1, <2>2, <2>3
<1>6. IsSeq(ExtractTypescript(path, lines))
  <2>. DEFINE Kind(n) == IF lines[n].kind = "call" THEN "method" ELSE lines[n].kind
              seqs == [n \in DOMAIN lines |->
                    IF lines[n].kind \notin {"class", "function", "method", "call"} THEN <<>>
                    ELSE <<[file |-> path, name |-> lines[n].name, kind |-> Kind(n), line |-> n]>>]
  <2>1. DOMAIN seqs = DOMAIN lines /\ IsFunction(seqs)
    BY DEF IsFunction
  <2>2. \A n \in DOMAIN lines : IsSeq(seqs[n])
    BY <1>2, EmptyIsSeq
  <2>3. ExtractTypescript(path, lines) = FlattenSeq(seqs)
    BY DEF ExtractTypescript, SymbolsOf
  <2>. HIDE DEF seqs
  <2>. QED  BY <1>3, <2>1, <2>2, <2>3
<1>. QED  BY EmptyIsSeq, <1>4, <1>5, <1>6 DEF Symbols

\* A reading: of finitely many files, each a sequence of lines.
IsRead(read) == IsFiniteSet(DOMAIN read) /\ \A path \in DOMAIN read : IsSeq(read[path].lines)

LEMMA SymbolNodesAreSeq ==
  ASSUME NEW path, NEW text, IsSeq(text.lines)
  PROVE  /\ IsSeq(SymbolNodes(path, text))
         /\ \A symbol \in Range(SymbolNodes(path, text)) : symbol.concepts \subseteq Concepts
<1>. DEFINE concepts == FileNode(path, text).concepts
            symbols == Symbols(path, text.lines)
            nodes == [i \in DOMAIN symbols |->
                [file |-> path, name |-> symbols[i].name, kind |-> symbols[i].kind,
                 line |-> symbols[i].line, concepts |-> ConceptsForSymbol(symbols[i], concepts)]]
<1>1. SymbolNodes(path, text) = IF ~text.utf8 THEN <<>> ELSE nodes
  BY DEF SymbolNodes
<1>2. \A symbol : ConceptsForSymbol(symbol, concepts) \subseteq Concepts
  BY FileConcepts, PhrasesAreConcepts DEF ConceptsForSymbol
<1>3. IsSeq(symbols)
  BY SymbolsAreSeq
<1>. HIDE DEF concepts, symbols
<1>4. IsSeq(nodes)
  <2>1. DOMAIN nodes = 1..Len(symbols) /\ Len(symbols) \in Nat
    BY <1>3 DEF IsSeq
  <2>2. IsFunction(nodes)
    BY DEF IsFunction
  <2>. HIDE DEF nodes
  <2>. QED  BY <2>1, <2>2, MadeSeq
<1>5. \A symbol \in Range(nodes) : symbol.concepts \subseteq Concepts
  BY <1>2 DEF Range
<1>. HIDE DEF nodes
<1>. QED  BY <1>1, <1>4, <1>5, EmptyIsSeq

LEMMA AllSymbolsAreSeq ==
  ASSUME NEW read, IsRead(read), PathOrder \in Seq(Paths)
  PROVE  /\ IsSeq(AllSymbols(read))
         /\ \A symbol \in Range(AllSymbols(read)) : symbol.concepts \subseteq Concepts
<1>. DEFINE Of(path) == IF path \in DOMAIN read THEN SymbolNodes(path, read[path]) ELSE <<>>
            seqs == [i \in DOMAIN PathOrder |-> Of(PathOrder[i])]
<1>1. AllSymbols(read) = FlattenSeq(seqs)
  BY DEF AllSymbols
<1>2. \A path : IsSeq(Of(path)) /\ \A symbol \in Range(Of(path)) : symbol.concepts \subseteq Concepts
  BY EmptyIsSeq, SymbolNodesAreSeq DEF IsRead
<1>. HIDE DEF Of
<1>3. DOMAIN seqs = 1..Len(PathOrder) /\ Len(PathOrder) \in Nat /\ IsFunction(seqs)
  BY DEF IsFunction
<1>4. \A i \in DOMAIN seqs : IsSeq(seqs[i]) /\ \A symbol \in Range(seqs[i]) : symbol.concepts \subseteq Concepts
  BY <1>2
<1>. HIDE DEF seqs
<1>5. IsSeq(seqs)
  BY <1>3, MadeSeq
<1>6. IsSeq(FlattenSeq(seqs)) /\ Range(FlattenSeq(seqs)) = UNION {Range(seqs[i]) : i \in DOMAIN seqs}
  BY <1>4, <1>5, FlattenIsSeq
<1>. QED  BY <1>1, <1>4, <1>6

\* What is finite of an index, and in order.
IsFinite(index) ==
    /\ IsFiniteSet(index.files)
    /\ IsSeq(index.symbols) /\ \A symbol \in Range(index.symbols) : IsFiniteSet(symbol.concepts)
    /\ IsFiniteSet(index.tests)
    /\ IsFiniteSet(index.concepts)
    /\ \A mapping \in index.concepts : IsFiniteSet(mapping.files) /\ IsFiniteSet(mapping.tests)

LEMMA ConceptMappingFinite ==
  ASSUME NEW nodes, IsFiniteSet(nodes), NEW symbols, IsSeq(symbols),
         NEW tests, IsFiniteSet(tests), NEW concept
  PROVE  LET mapping == ConceptMapping(concept, nodes, symbols, tests)
         IN  IsFiniteSet(mapping.files) /\ IsFiniteSet(mapping.tests)
<1>. DEFINE named == {n \in nodes : concept \in n.concepts}
            found == {s \in Range(symbols) : concept \in s.concepts}
            files == {n.path : n \in named} \cup {s.file : s \in found}
            mapped == {t \in tests : t.source \in files}
            marked == {m \in named : m.role = "test"}
            pathOf == [n \in named |-> n.path]
            fileOf == [s \in found |-> s.file]
            testOf == [m \in mapped |-> m.test]
            markOf == [n \in marked |-> n.path]
            mapping == ConceptMapping(concept, nodes, symbols, tests)
<1>1. mapping.files = files /\ mapping.tests = {m.test : m \in mapped} \cup {n.path : n \in marked}
  BY DEF ConceptMapping
<1>2. IsFiniteSet(named) /\ IsFiniteSet(marked)
  BY FS_Subset
<1>3. IsFiniteSet(found)
  BY RangeFinite, FS_Subset
<1>4. IsFiniteSet(mapped)
  BY FS_Subset
<1>. HIDE DEF named, found, files, mapped, marked, mapping
<1>5. IsFiniteSet({n.path : n \in named})
  <2>1. {pathOf[n] : n \in DOMAIN pathOf} = {n.path : n \in named} /\ DOMAIN pathOf = named
    OBVIOUS
  <2>. HIDE DEF pathOf
  <2>. QED  BY <1>2, <2>1, ImageFinite
<1>6. IsFiniteSet({s.file : s \in found})
  <2>1. {fileOf[s] : s \in DOMAIN fileOf} = {s.file : s \in found} /\ DOMAIN fileOf = found
    OBVIOUS
  <2>. HIDE DEF fileOf
  <2>. QED  BY <1>3, <2>1, ImageFinite
<1>7. IsFiniteSet({m.test : m \in mapped})
  <2>1. {testOf[m] : m \in DOMAIN testOf} = {m.test : m \in mapped} /\ DOMAIN testOf = mapped
    OBVIOUS
  <2>. HIDE DEF testOf
  <2>. QED  BY <1>4, <2>1, ImageFinite
<1>8. IsFiniteSet({n.path : n \in marked})
  <2>1. {markOf[n] : n \in DOMAIN markOf} = {n.path : n \in marked} /\ DOMAIN markOf = marked
    OBVIOUS
  <2>. HIDE DEF markOf
  <2>. QED  BY <1>2, <2>1, ImageFinite
<1>9. IsFiniteSet(files)
  BY <1>5, <1>6, FS_Union DEF files
<1>10. IsFiniteSet({m.test : m \in mapped} \cup {n.path : n \in marked})
  BY <1>7, <1>8, FS_Union
<1>. QED  BY <1>1, <1>9, <1>10 DEF mapping

LEMMA FileNodesFinite ==
  ASSUME NEW read, IsFiniteSet(DOMAIN read)
  PROVE  IsFiniteSet(FileNodes(read)) /\ \A n \in FileNodes(read) : n.concepts \subseteq Concepts
<1>. DEFINE f == [p \in DOMAIN read |-> FileNode(p, read[p])]
<1>1. {f[p] : p \in DOMAIN f} = FileNodes(read) /\ DOMAIN f = DOMAIN read
  BY DEF FileNodes
<1>. HIDE DEF f
<1>2. IsFiniteSet(FileNodes(read))
  BY <1>1, ImageFinite
<1>. QED  BY <1>2, FileConcepts DEF FileNodes

LEMMA MapTestsFinite ==
  ASSUME NEW nodes, IsFiniteSet(nodes)
  PROVE  IsFiniteSet(MapTests(nodes))
<1>. DEFINE Candidates(n) == {t \in nodes : t.role = "test" /\ n.path.stem \in SubSeqs(t.path.stem)}
            tested == {m \in nodes : m.role = "source" /\ Candidates(m) # {}}
            f == [n \in tested |-> [source |-> n.path, test |-> First({t.path : t \in Candidates(n)})]]
<1>1. {f[n] : n \in DOMAIN f} = MapTests(nodes) /\ DOMAIN f = tested
  BY DEF MapTests
<1>2. IsFiniteSet(tested)
  BY FS_Subset
<1>. HIDE DEF f
<1>. QED  BY <1>1, <1>2, ImageFinite

LEMMA IndexFinite ==
  ASSUME NEW read, IsRead(read), PathOrder \in Seq(Paths)
  PROVE  IsFinite(Index(read))
<1>. DEFINE nodes == FileNodes(read)
            symbols == AllSymbols(read)
            tests == MapTests(nodes)
            concepts == (UNION {n.concepts : n \in nodes}) \cup (UNION {s.concepts : s \in Range(symbols)})
            f == [c \in concepts |-> ConceptMapping(c, nodes, symbols, tests)]
            index == Index(read)
<1>1. /\ index.files = nodes /\ index.symbols = symbols /\ index.tests = tests
      /\ index.concepts = {ConceptMapping(c, nodes, symbols, tests) : c \in concepts}
  BY DEF Index
<1>2. IsFiniteSet(nodes) /\ \A n \in nodes : n.concepts \subseteq Concepts
  BY FileNodesFinite DEF IsRead
<1>3. IsSeq(symbols) /\ \A s \in Range(symbols) : s.concepts \subseteq Concepts
  BY AllSymbolsAreSeq
<1>4. IsFiniteSet(tests)
  BY <1>2, MapTestsFinite
<1>. HIDE DEF nodes, symbols, tests, index
<1>5. concepts \subseteq Concepts
  BY <1>2, <1>3
<1>6. IsFiniteSet(Concepts)
  BY ConceptsFinite DEF Concepts
<1>7. IsFiniteSet(concepts)
  BY <1>5, <1>6, FS_Subset
<1>. HIDE DEF concepts
<1>8. IsFiniteSet(index.concepts)
  <2>1. {f[c] : c \in DOMAIN f} = index.concepts /\ DOMAIN f = concepts
    BY <1>1
  <2>. HIDE DEF f
  <2>. QED  BY <1>7, <2>1, ImageFinite
<1>9. \A s \in Range(symbols) : IsFiniteSet(s.concepts)
  BY <1>3, <1>6, FS_Subset
<1>10. \A mapping \in index.concepts : IsFiniteSet(mapping.files) /\ IsFiniteSet(mapping.tests)
  <2>1. \A c : LET mapping == ConceptMapping(c, nodes, symbols, tests)
              IN  IsFiniteSet(mapping.files) /\ IsFiniteSet(mapping.tests)
    BY <1>2, <1>3, <1>4, ConceptMappingFinite
  <2>. QED  BY <1>1, <2>1
<1>. QED  BY <1>1, <1>2, <1>3, <1>4, <1>8, <1>9, <1>10 DEF IsFinite, index

-----------------------------------------------------------------------------
(* Everything a graph is made of *)

SymbolStock(symbol) == {SymbolNode(symbol), SymbolFile(symbol)} \cup ConceptNodes(symbol.concepts)

TestStock(mapping) == {StubNode(mapping.source, "code_file"), StubNode(mapping.test, "test_file")}

ConceptStock(mapping) ==
    {ConceptNode(mapping.concept)} \cup CodeStubs(mapping.files) \cup TestStubs(mapping.tests)

IndexNodes(index) ==
    {FileNodeOf(n) : n \in index.files}
    \cup (UNION {SymbolStock(s) : s \in Range(index.symbols)})
    \cup (UNION {TestStock(m) : m \in index.tests})
    \cup (UNION {ConceptStock(m) : m \in index.concepts})

DocNodes(doc) ==
    {DocNode(doc)} \cup ConceptNodes(doc.concepts)
    \cup CodeStubs(Range(doc.relatedCode)) \cup TestStubs(Range(doc.relatedCode))

Stock(D, indexes) == (UNION {DocNodes(doc) : doc \in D}) \cup (UNION {IndexNodes(index) : index \in indexes})

EdgeTypes(D) == Types \cup UNION {{r.type : r \in doc.related} : doc \in D}

LEMMA StockIsNodes ==
  ASSUME NEW D, NEW indexes
  PROVE  \A n \in Stock(D, indexes) : IsNode(n)
<1>1. \A concepts : \A n \in ConceptNodes(concepts) : IsNode(n)
  BY NodesHaveForm DEF ConceptNodes
<1>2. \A paths : (\A n \in CodeStubs(paths) : IsNode(n)) /\ (\A n \in TestStubs(paths) : IsNode(n))
  BY NodesHaveForm DEF CodeStubs, TestStubs
<1>3. \A symbol : IsNode(SymbolFile(symbol))
  BY NodesHaveForm DEF SymbolFile
<1>4. \A doc : \A n \in DocNodes(doc) : IsNode(n)
  BY <1>1, <1>2, NodesHaveForm DEF DocNodes
<1>5. \A symbol : \A n \in SymbolStock(symbol) : IsNode(n)
  BY <1>1, <1>3, NodesHaveForm DEF SymbolStock
<1>6. \A mapping : \A n \in TestStock(mapping) : IsNode(n)
  BY NodesHaveForm DEF TestStock
<1>7. \A mapping : \A n \in ConceptStock(mapping) : IsNode(n)
  BY <1>1, <1>2, NodesHaveForm DEF ConceptStock
<1>8. ASSUME NEW index, NEW n \in IndexNodes(index) PROVE IsNode(n)
  <2>. DEFINE A == {FileNodeOf(f) : f \in index.files}
              B == UNION {SymbolStock(s) : s \in Range(index.symbols)}
              C == UNION {TestStock(m) : m \in index.tests}
              E == UNION {ConceptStock(m) : m \in index.concepts}
  <2>1. n \in A \/ n \in B \/ n \in C \/ n \in E
    <3>1. IndexNodes(index) = ((A \cup B) \cup C) \cup E
      BY DEF IndexNodes
    <3>. HIDE DEF A, B, C, E
    <3>. QED  BY <1>8, <3>1
  <2>2. CASE n \in A
    BY <2>2, NodesHaveForm
  <2>3. CASE n \in B
    <3>1. PICK s \in Range(index.symbols) : n \in SymbolStock(s)
      BY <2>3
    <3>. QED  BY <1>5, <3>1
  <2>4. CASE n \in C
    <3>1. PICK m \in index.tests : n \in TestStock(m)
      BY <2>4
    <3>. QED  BY <1>6, <3>1
  <2>5. CASE n \in E
    <3>1. PICK m \in index.concepts : n \in ConceptStock(m)
      BY <2>5
    <3>. QED  BY <1>7, <3>1
  <2>. HIDE DEF A, B, C, E
  <2>. QED  BY <2>1, <2>2, <2>3, <2>4, <2>5
<1>9. ASSUME NEW n \in Stock(D, indexes) PROVE IsNode(n)
  <2>1. (\E doc \in D : n \in DocNodes(doc)) \/ \E index \in indexes : n \in IndexNodes(index)
    BY <1>9 DEF Stock
  <2>. QED  BY <1>4, <1>8, <2>1
<1>. QED  BY <1>9

LEMMA StockHasDocs ==
  ASSUME NEW D, NEW indexes, NEW doc \in D, IsFiniteSet(doc.concepts), IsSeq(doc.relatedCode)
  PROVE  Referring(doc, Stock(D, indexes), EdgeTypes(D))
<1>1. DocNodes(doc) \subseteq Stock(D, indexes)
  BY DEF Stock
<1>2. \A r \in doc.related : r.type \in EdgeTypes(D)
  BY DEF EdgeTypes
<1>3. \A path \in Range(doc.relatedCode) : CodeStocked(path, DocNodes(doc))
  BY DEF CodeStocked, DocNodes, CodeStubs, TestStubs
<1>4. DocNode(doc) \in DocNodes(doc) /\ ConceptNodes(doc.concepts) \subseteq DocNodes(doc)
  BY DEF DocNodes
<1>5. \A path \in Range(doc.relatedCode) : CodeStocked(path, Stock(D, indexes))
  BY <1>1, <1>3 DEF CodeStocked
<1>. QED  BY <1>1, <1>2, <1>4, <1>5 DEF Referring, Stocked, IsSeq

LEMMA StockHasIndex ==
  ASSUME NEW D, NEW indexes, NEW index \in indexes, IsFinite(index)
  PROVE  IndexStocked(index, Stock(D, indexes))
<1>. DEFINE N == IndexNodes(index)
<1>1. N \subseteq Stock(D, indexes)
  <2>. HIDE DEF N
  <2>1. N \in {IndexNodes(i) : i \in indexes}
    BY DEF N
  <2>. QED  BY <2>1 DEF Stock
<1>2. /\ \A n \in index.files : FileNodeOf(n) \in N
      /\ \A s \in Range(index.symbols) : SymbolStock(s) \subseteq N
      /\ \A m \in index.tests : TestStock(m) \subseteq N
      /\ \A m \in index.concepts : ConceptStock(m) \subseteq N
  <2>. DEFINE A == {FileNodeOf(f) : f \in index.files}
              B == UNION {SymbolStock(s) : s \in Range(index.symbols)}
              C == UNION {TestStock(m) : m \in index.tests}
              E == UNION {ConceptStock(m) : m \in index.concepts}
  <2>1. A \subseteq N /\ B \subseteq N /\ C \subseteq N /\ E \subseteq N
    <3>1. N = ((A \cup B) \cup C) \cup E
      BY DEF IndexNodes
    <3>. HIDE DEF A, B, C, E, N
    <3>. QED  BY <3>1
  <2>. HIDE DEF N
  <2>2. \A n \in index.files : FileNodeOf(n) \in A
    OBVIOUS
  <2>3. \A s \in Range(index.symbols) : SymbolStock(s) \subseteq B
    OBVIOUS
  <2>4. \A m \in index.tests : TestStock(m) \subseteq C
    OBVIOUS
  <2>5. \A m \in index.concepts : ConceptStock(m) \subseteq E
    OBVIOUS
  <2>. HIDE DEF A, B, C, E
  <2>. QED  BY <2>1, <2>2, <2>3, <2>4, <2>5
<1>. HIDE DEF N
<1>3. \A s \in Range(index.symbols) : SymbolNode(s) \in N /\ SymbolFile(s) \in N /\ ConceptNodes(s.concepts) \subseteq N
  BY <1>2 DEF SymbolStock
<1>4. \A m \in index.tests : StubNode(m.source, "code_file") \in N /\ StubNode(m.test, "test_file") \in N
  BY <1>2 DEF TestStock
<1>5. \A m \in index.concepts : ConceptNode(m.concept) \in N /\ CodeStubs(m.files) \subseteq N /\ TestStubs(m.tests) \subseteq N
  BY <1>2 DEF ConceptStock
<1>6. \A s \in Range(index.symbols) : SymbolStocked(s, Stock(D, indexes))
  BY <1>1, <1>3 DEF IsFinite, SymbolStocked
<1>7. \A m \in index.tests : TestStocked(m, Stock(D, indexes))
  BY <1>1, <1>4 DEF TestStocked
<1>8. \A m \in index.concepts : ConceptStocked(m, Stock(D, indexes))
  BY <1>1, <1>5 DEF IsFinite, ConceptStocked
<1>. QED  BY <1>1, <1>2, <1>6, <1>7, <1>8 DEF IsFinite, IsSeq, IndexStocked, FilesStocked

-----------------------------------------------------------------------------
(* The graph of some documents and an index *)

LEMMA EmptyFacts ==
  ASSUME NEW N, NEW types
  PROVE  Empty \in GraphsOf(N, types) /\ IsClosed(Empty)
<1>1. [name \in {} |-> {}] \in [{} -> Ids(N)]
  OBVIOUS
<1>2. IsFiniteSet({})
  BY FS_EmptySet
<1>. QED  BY <1>1, <1>2 DEF Empty, GraphsOf, IsOwned, IsClosed

LEMMA GraphFacts ==
  ASSUME NEW N, NEW types, \A n \in N : IsNode(n), Types \subseteq types,
         NEW D, NEW docs \in Seq(D), \A doc \in D : Referring(doc, N, types),
         NEW indexes, IsFiniteSet(indexes), \A index \in indexes : IndexStocked(index, N),
         PathOrder \in Seq(Paths)
  PROVE  LET graph == Graph(docs, indexes)
             ids == {n.id : n \in graph.nodes}
         IN  /\ IsFiniteSet(graph.nodes) /\ Cardinality(ids) = Cardinality(graph.nodes)
             /\ \A e \in graph.edges : e.from # e.to /\ e.from \in ids /\ e.to \in ids
<1>. DEFINE h1 == FoldLeft(AddDocument, Empty, docs)
            h2 == FoldSet(AddCodebase, h1, indexes)
            h3 == FoldLeft(Relate, h2, docs)
<1>1. Empty \in GraphsOf(N, types) /\ IsClosed(Empty)
  BY EmptyFacts
<1>2. h1 \in Above(Empty, N, types) /\ \A i \in DOMAIN docs : Knows(h1, docs[i])
  BY <1>1, AddDocumentsFacts DEF Referring
<1>. HIDE DEF h1
<1>3. h1 \in GraphsOf(N, types) /\ IsClosed(h1)
  BY <1>2 DEF Above
<1>4. h2 \in Above(h1, N, types)
  BY <1>3, AddCodebasesFacts
<1>. HIDE DEF h2
<1>5. h2 \in GraphsOf(N, types) /\ IsClosed(h2) /\ \A i \in DOMAIN docs : Knows(h2, docs[i])
  BY <1>2, <1>4, KnowsStays DEF Above
<1>6. h3 \in Above(h2, N, types)
  <2>1. \A i \in DOMAIN docs : Referring(docs[i], N, types)
    OBVIOUS
  <2>. QED  BY <1>5, <2>1, RelateAllFacts
<1>. HIDE DEF h3
<1>7. IsClosed(h3)
  BY <1>6 DEF Above
<1>. DEFINE graph == Graph(docs, indexes)
            ids == {n.id : n \in graph.nodes}
            f == [n \in h3.nodes |-> n.id]
<1>8. graph.nodes = h3.nodes /\ graph.edges = h3.edges
  BY DEF Graph, h1, h2, h3
<1>. HIDE DEF graph
<1>9. f \in Bijection(h3.nodes, ids)
  BY <1>7, <1>8 DEF Bijection, Injection, Surjection, IsInjective, IsClosed
<1>10. Cardinality(ids) = Cardinality(h3.nodes)
  BY <1>7, <1>9, FS_Bijection DEF ExistsBijection, IsClosed
<1>11. \A e \in graph.edges : e.from # e.to /\ e.from \in ids /\ e.to \in ids
  BY <1>7, <1>8 DEF IsClosed, HasNode
<1>12. IsFiniteSet(h3.nodes)
  BY <1>7 DEF IsClosed
<1>. QED  BY <1>8, <1>10, <1>11, <1>12 DEF graph

\* The same of everything that is read and indexed.
LEMMA BuiltGraphFacts ==
  ASSUME NEW docs, IsSeq(docs), \A doc \in Range(docs) : IsFiniteSet(doc.concepts) /\ IsSeq(doc.relatedCode),
         NEW indexes, IsFiniteSet(indexes), \A index \in indexes : IsFinite(index),
         PathOrder \in Seq(Paths)
  PROVE  LET graph == Graph(docs, indexes)
             ids == {n.id : n \in graph.nodes}
         IN  /\ IsFiniteSet(graph.nodes) /\ Cardinality(ids) = Cardinality(graph.nodes)
             /\ \A e \in graph.edges : e.from # e.to /\ e.from \in ids /\ e.to \in ids
<1>. DEFINE D == Range(docs)
            N == Stock(D, indexes)
            types == EdgeTypes(D)
<1>1. docs \in Seq(D) /\ \A doc \in D : IsFiniteSet(doc.concepts) /\ IsSeq(doc.relatedCode)
  BY DEF IsSeq
<1>. HIDE DEF D
<1>2. \A n \in N : IsNode(n)
  BY StockIsNodes
<1>3. \A doc \in D : Referring(doc, N, types)
  BY <1>1, StockHasDocs
<1>4. \A index \in indexes : IndexStocked(index, N)
  BY StockHasIndex
<1>5. Types \subseteq types
  BY DEF EdgeTypes
<1>. HIDE DEF N, types
<1>. QED  BY <1>1, <1>2, <1>3, <1>4, <1>5, GraphFacts

-----------------------------------------------------------------------------
(* Whole paths *)

\* The nodes there are when code a document names is looked up, before symbols.
NodesBefore(docs, index) ==
    (UNION {{DocNode(doc)} \cup ConceptNodes(doc.concepts) : doc \in Range(docs)})
    \cup {FileNodeOf(n) : n \in index.files}

LEMMA NodesBeforeFacts ==
  ASSUME NEW docs, NEW index, IsFiniteSet(index.files),
         \A doc \in Range(docs) : IsFiniteSet(doc.concepts)
  PROVE  LET N == NodesBefore(docs, index)
         IN  /\ \A n \in N : IsNode(n)
             /\ \A doc \in Range(docs) : Stocked(doc, N)
             /\ FilesStocked(index, N)
<1>. DEFINE N == NodesBefore(docs, index)
<1>1. \A concepts : \A n \in ConceptNodes(concepts) : IsNode(n)
  BY NodesHaveForm DEF ConceptNodes
<1>2. \A n \in N : IsNode(n)
  BY <1>1, NodesHaveForm DEF NodesBefore
<1>3. \A doc \in Range(docs) : DocNode(doc) \in N /\ ConceptNodes(doc.concepts) \subseteq N
  BY DEF NodesBefore
<1>4. \A n \in index.files : FileNodeOf(n) \in N
  BY DEF NodesBefore
<1>. QED  BY <1>2, <1>3, <1>4 DEF Stocked, FilesStocked

\* A document is linked to the file it names, if no document, no concept and
\* no other file has that path for an alias.
LEMMA WholePathIsLinked ==
  ASSUME NEW docs, IsSeq(docs), \A doc \in Range(docs) : IsFiniteSet(doc.concepts) /\ IsSeq(doc.relatedCode),
         NEW index, IsFinite(index), PathOrder \in Seq(Paths),
         NEW doc \in Range(docs), NEW file \in index.files, file.path \in Paths,
         file.path \in Range(doc.relatedCode),
         NEW ids, DocNode(doc).id \notin ids,
         \A n \in NodesBefore(docs, index) : PathText(file.path) \in n.aliases => n.id \in ids
  PROVE  \E e \in Graph(docs, {index}).edges :
            e.type = "AFFECTS" /\ e.from = DocNode(doc).id /\ e.to \in ids
<1>. DEFINE D == Range(docs)
            N == Stock(D, {index})
            B == NodesBefore(docs, index)
            types == EdgeTypes(D)
            name == PathText(file.path)
            h1 == FoldLeft(AddDocument, Empty, docs)
            hf == AddFiles(h1, index)
            h2 == FoldSet(AddCodebase, h1, {index})
            h3 == FoldLeft(Relate, h2, docs)
<1>1. docs \in Seq(D) /\ \A d \in D : IsFiniteSet(d.concepts) /\ IsSeq(d.relatedCode)
  BY DEF IsSeq
<1>2. doc \in D /\ \A i \in DOMAIN docs : docs[i] \in D
  BY DEF Range
<1>3. \A n \in B : IsNode(n)
  BY NodesBeforeFacts DEF IsFinite
<1>4. (\A d \in D : Stocked(d, B)) /\ FilesStocked(index, B)
  BY NodesBeforeFacts DEF IsFinite
<1>5. \A n \in B : name \in n.aliases => n.id \in ids
  OBVIOUS
<1>6. PICK i \in DOMAIN docs : docs[i] = doc
  BY DEF Range
<1>. HIDE DEF D, B
<1>7. (\A n \in N : IsNode(n)) /\ (\A d \in D : Referring(d, N, types)) /\ IndexStocked(index, N)
  BY <1>1, StockIsNodes, StockHasDocs, StockHasIndex
<1>8. Types \subseteq types
  BY DEF EdgeTypes
<1>. HIDE DEF N, types
<1>9. Empty \in GraphsOf(N, types) /\ Empty \in GraphsOf(B, types) /\ IsClosed(Empty)
  BY EmptyFacts
<1>10. h1 \in Above(Empty, B, types)
  BY <1>1, <1>3, <1>4, <1>8, <1>9, AddDocumentsFacts
<1>11. h1 \in Above(Empty, N, types) /\ \A j \in DOMAIN docs : Knows(h1, docs[j])
  BY <1>1, <1>7, <1>8, <1>9, AddDocumentsFacts DEF Referring
<1>. HIDE DEF h1
<1>12. h1 \in GraphsOf(B, types) /\ h1 \in GraphsOf(N, types) /\ IsClosed(h1)
  BY <1>10, <1>11 DEF Above
<1>13. hf \in GraphsOf(B, types) /\ \A j \in DOMAIN PathOrder : HasFile(hf, index, PathOrder[j])
  BY <1>3, <1>4, <1>8, <1>12, AddFilesFacts DEF Above
<1>14. h2 \in Above(hf, N, types) /\ h2 \in Above(h1, N, types)
  <2>1. IsFiniteSet({index})
    BY FS_Singleton
  <2>2. h2 \in Above(h1, N, types) /\ h2 = AddCodebase(index, h1)
    BY <1>7, <1>8, <1>12, <2>1, AddCodebasesFacts
  <2>3. AddCodebase(index, h1) \in Above(hf, N, types)
    BY <1>7, <1>8, <1>12, AddCodebaseFacts
  <2>. QED  BY <2>2, <2>3
<1>. HIDE DEF h2
<1>15. name \in DOMAIN hf.aliases /\ hf.aliases[name] \in ids
  <2>1. PICK j \in DOMAIN PathOrder : PathOrder[j] = file.path
    BY DEF Paths, Range
  <2>2. name \in FileNodeOf(file).aliases
    BY DEF FileNodeOf, Node, PathAliases
  <2>3. name \in DOMAIN hf.aliases
    BY <1>13, <2>1, <2>2 DEF HasFile
  <2>. HIDE DEF hf, name
  <2>4. PICK n \in B : n.id = hf.aliases[name] /\ name \in n.aliases
    BY <1>13, <2>3 DEF GraphsOf, IsOwned
  <2>. QED  BY <1>5, <2>3, <2>4
<1>. HIDE DEF hf, name
<1>16. name \in DOMAIN h2.aliases /\ h2.aliases[name] \in ids
  BY <1>14, <1>15 DEF Above, Grows
<1>17. h2 \in GraphsOf(N, types) /\ IsClosed(h2) /\ \A j \in DOMAIN docs : Knows(h2, docs[j])
  BY <1>11, <1>14, KnowsStays DEF Above
<1>18. \A j \in DOMAIN docs : Referring(docs[j], N, types)
  BY <1>2, <1>7
<1>19. \A j \in DOMAIN docs : AllLinked(h2, h3, docs[j])
  BY <1>1, <1>7, <1>8, <1>17, <1>18, RelateAllFacts
<1>. HIDE DEF h3
<1>20. LinksTo(h2, h3, doc, file.path)
  BY <1>6, <1>19 DEF AllLinked
<1>21. [from |-> DocNode(doc).id, type |-> "AFFECTS", to |-> h2.aliases[name]] \in h3.edges
  BY <1>16, <1>20 DEF LinksTo, name
<1>22. Graph(docs, {index}).edges = h3.edges
  BY DEF Graph, h1, h2, h3
<1>. QED  BY <1>16, <1>21, <1>22
=============================================================================
