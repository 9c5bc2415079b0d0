----------------------------- MODULE FoldProofs -----------------------------
(***************************************************************************)
(* Induction for the folds of the community modules.  A fold over a set S  *)
(* is defined as the value at S of some function on the subsets of S that  *)
(* satisfies a recursion.  FoldExists: there is one, if S is finite.       *)
(* FoldInherits: what holds of the base and is kept by each step holds of  *)
(* the whole; FoldWithin joins the two.  They are first order, so that     *)
(* they apply to the recursion of each fold as it stands.  FlattenFacts is *)
(* the same for FlattenSeq.  Then come lemmas about sequences over their   *)
(* own elements and finite sets, about Ranking - where the items of a list *)
(* are after it is filtered or sorted - and about sums.                    *)
(***************************************************************************)
EXTENDS Ranking, SequencesExt, FiniteSetTheorems, SequenceTheorems, WellFoundedInduction, TLAPS

-----------------------------------------------------------------------------
(* Natural numbers *)

LEMMA LeastNat ==
  ASSUME NEW S \in SUBSET Nat, S # {}
  PROVE  \E n \in S : \A m \in S : n <= m
<1>1. IsWellFoundedOn(OpToRel(<, Nat), Nat)
  BY NatLessThanWellFounded
<1>2. PICK n \in S : \A m \in S : ~(<<m, n>> \in OpToRel(<, Nat))
  BY <1>1, WFMin
<1>3. \A m, k \in Nat : m < k => <<m, k>> \in OpToRel(<, Nat)
  BY DEF OpToRel
<1>4. ASSUME NEW m \in S PROVE n <= m
  <2>1. m \in Nat /\ n \in Nat /\ ~(m < n)
    BY <1>2, <1>3
  <2>. QED  BY <2>1
<1>. QED  BY <1>4

LEMMA InductiveSet ==
  ASSUME NEW S, 0 \in S, \A n \in Nat : n \in S => n + 1 \in S
  PROVE  \A n \in Nat : n \in S
<1>. SUFFICES ASSUME Nat \ S # {} PROVE FALSE
  OBVIOUS
<1>1. PICK n \in Nat \ S : \A m \in Nat \ S : n <= m
  BY LeastNat
<1>. QED  BY <1>1

-----------------------------------------------------------------------------
(* Subsets of a finite set, by size *)

Small(S, n) == {s \in SUBSET S : Cardinality(s) <= n}

LEMMA SmallFacts ==
  ASSUME NEW S, IsFiniteSet(S)
  PROVE  /\ Small(S, 0) = {{}}
         /\ Cardinality(S) \in Nat /\ Small(S, Cardinality(S)) = SUBSET S
         /\ \A n \in Nat : {} \in Small(S, n) /\ Small(S, n) \subseteq Small(S, n + 1)
         /\ \A n \in Nat : \A s \in Small(S, n + 1) : \A x \in s : s \ {x} \in Small(S, n)
<1>1. \A s \in SUBSET S : /\ IsFiniteSet(s) /\ Cardinality(s) \in Nat
                          /\ Cardinality(s) <= Cardinality(S)
                          /\ (Cardinality(s) = 0 <=> s = {})
  BY FS_Subset, FS_CardinalityType, FS_EmptySet
<1>2. \A s \in SUBSET S : \A x \in s : Cardinality(s \ {x}) = Cardinality(s) - 1
  BY <1>1, FS_RemoveElement
<1>. QED  BY <1>1, <1>2 DEF Small

-----------------------------------------------------------------------------
(* Folds *)

\* g is in V at the empty set, and at a set if it is without some element.
Inherits(g, S, V) ==
    \A s \in SUBSET S :
        IF s = {} THEN g[s] \in V ELSE \E x \in s : g[s \ {x}] \in V => g[s] \in V

\* Then it is in V at every subset of S.
LEMMA FoldInherits ==
  ASSUME NEW S, IsFiniteSet(S), NEW V, NEW g, Inherits(g, S, V)
  PROVE  \A s \in SUBSET S : g[s] \in V
<1>. DEFINE Good == {n \in Nat : \A s \in Small(S, n) : g[s] \in V}
<1>1. 0 \in Good
  <2>1. g[{}] \in V
    BY DEF Inherits
  <2>2. Small(S, 0) = {{}}
    BY SmallFacts
  <2>. QED  BY <2>1, <2>2
<1>2. ASSUME NEW n \in Nat, n \in Good PROVE n + 1 \in Good
  <2>1. ASSUME NEW s \in Small(S, n + 1), s # {} PROVE g[s] \in V
    <3>1. PICK x \in s : g[s \ {x}] \in V => g[s] \in V
      BY <2>1 DEF Small, Inherits
    <3>2. s \ {x} \in Small(S, n)
      BY SmallFacts
    <3>. QED  BY <1>2, <3>1, <3>2
  <2>2. g[{}] \in V
    BY DEF Inherits
  <2>3. \A s \in Small(S, n + 1) : g[s] \in V
    BY <2>1, <2>2
  <2>4. n + 1 \in Nat
    OBVIOUS
  <2>. QED  BY <2>3, <2>4
<1>3. Cardinality(S) \in Good
  <2>. HIDE DEF Good
  <2>. QED  BY <1>1, <1>2, InductiveSet, SmallFacts
<1>. QED  BY <1>3, SmallFacts

IsFold(g, subsets, pick, step, base) ==
    g = [s \in subsets |-> IF s = {} THEN base ELSE step[pick[s]][g[s \ {pick[s]}]]]

LEMMA FoldExists ==
  ASSUME NEW S, IsFiniteSet(S), NEW pick, \A s \in SUBSET S : s # {} => pick[s] \in s,
         NEW step, NEW base
  PROVE  \E g : IsFold(g, SUBSET S, pick, step, base)
<1>. DEFINE Good == {n \in Nat : \E g : IsFold(g, Small(S, n), pick, step, base)}
<1>1. 0 \in Good
  <2>1. IsFold([s \in {{}} |-> base], Small(S, 0), pick, step, base)
    BY SmallFacts DEF IsFold
  <2>. QED  BY <2>1
<1>2. ASSUME NEW n \in Nat, n \in Good PROVE n + 1 \in Good
  <2>1. PICK g : IsFold(g, Small(S, n), pick, step, base)
    BY <1>2
  <2>. DEFINE h == [s \in Small(S, n + 1) |-> IF s = {} THEN base ELSE step[pick[s]][g[s \ {pick[s]}]]]
              k == [s \in Small(S, n + 1) |-> IF s = {} THEN base ELSE step[pick[s]][h[s \ {pick[s]}]]]
  <2>2. \A s \in Small(S, n) : h[s] = g[s]
    BY <2>1, SmallFacts DEF IsFold
  <2>3. \A s \in Small(S, n + 1) : s # {} => s \ {pick[s]} \in Small(S, n)
    BY SmallFacts DEF Small
  <2>4. \A s \in Small(S, n + 1) : h[s] = k[s]
    <3>1. \A s \in Small(S, n + 1) : h[s] = IF s = {} THEN base ELSE step[pick[s]][g[s \ {pick[s]}]]
      OBVIOUS
    <3>2. \A s \in Small(S, n + 1) : k[s] = IF s = {} THEN base ELSE step[pick[s]][h[s \ {pick[s]}]]
      OBVIOUS
    <3>3. \A s \in Small(S, n + 1) : s # {} => h[s \ {pick[s]}] = g[s \ {pick[s]}]
      BY <2>2, <2>3
    <3>. HIDE DEF h, k
    <3>4. ASSUME NEW s \in Small(S, n + 1), s # {} PROVE h[s] = k[s]
      <4>1. h[s] = step[pick[s]][g[s \ {pick[s]}]] /\ k[s] = step[pick[s]][h[s \ {pick[s]}]]
        BY <3>1, <3>2, <3>4
      <4>2. h[s \ {pick[s]}] = g[s \ {pick[s]}]
        BY <3>3, <3>4
      <4>. QED  BY <4>1, <4>2
    <3>. QED  BY <3>1, <3>2, <3>4
  <2>5. h = k
    BY <2>4
  <2>6. \E f : IsFold(f, Small(S, n + 1), pick, step, base)
    <3>1. IsFold(h, Small(S, n + 1), pick, step, base)
      BY <2>5 DEF IsFold
    <3>. HIDE DEF h
    <3>. QED  BY <3>1
  <2>. QED  BY <2>6
<1>3. Cardinality(S) \in Good
  <2>. HIDE DEF Good
  <2>. QED  BY <1>1, <1>2, InductiveSet, SmallFacts
<1>4. PICK g : IsFold(g, Small(S, Cardinality(S)), pick, step, base)
  BY <1>3
<1>5. Small(S, Cardinality(S)) = SUBSET S
  BY SmallFacts
<1>. QED  BY <1>4, <1>5

LEMMA SubsetInduction ==
  ASSUME NEW S, IsFiniteSet(S), NEW Good, {} \in Good,
         \A s \in SUBSET S : s # {} => \E x \in s : s \ {x} \in Good => s \in Good
  PROVE  \A s \in SUBSET S : s \in Good
<1>. DEFINE g == [s \in SUBSET S |-> s]
<1>1. Inherits(g, S, Good)
  BY DEF Inherits
<1>2. \A s \in SUBSET S : g[s] \in Good
  <2>. HIDE DEF g
  <2>. QED  BY <1>1, FoldInherits
<1>. QED  BY <1>2

\* If every step stays in U, so does the whole fold.
LEMMA FoldWithin ==
  ASSUME NEW S, IsFiniteSet(S), NEW pick, \A s \in SUBSET S : s # {} => pick[s] \in s,
         NEW U, NEW base \in U, NEW step, \A x \in S : \A h \in U : step[x][h] \in U
  PROVE  \E g : /\ IsFold(g, SUBSET S, pick, step, base)
                /\ \A s \in SUBSET S : g[s] \in U
<1>1. PICK g : IsFold(g, SUBSET S, pick, step, base)
  BY FoldExists
<1>2. ASSUME NEW s \in SUBSET S
      PROVE g[s] = IF s = {} THEN base ELSE step[pick[s]][g[s \ {pick[s]}]]
  BY <1>1 DEF IsFold
<1>3. Inherits(g, S, U)
  <2>1. ASSUME NEW s \in SUBSET S, s # {}, g[s \ {pick[s]}] \in U PROVE g[s] \in U
    BY <1>2, <2>1
  <2>2. {} \in SUBSET S /\ g[{}] \in U
    BY <1>2
  <2>3. \A s \in SUBSET S : IF s = {} THEN g[s] \in U ELSE pick[s] \in s /\ (g[s \ {pick[s]}] \in U => g[s] \in U)
    BY <2>1, <2>2
  <2>. QED  BY <2>3 DEF Inherits
<1>. QED  BY <1>1, <1>3, FoldInherits

LEMMA MaxOfPart ==
  ASSUME NEW n \in Nat, NEW s \in SUBSET (1..n), s # {}
  PROVE  Max(s) \in s /\ \A i \in s : i <= Max(s)
<1>. DEFINE below == {n - i : i \in s}
<1>1. below \in SUBSET Nat /\ below # {}
  <2>1. \A i \in s : n - i \in Nat
    OBVIOUS
  <2>2. PICK i \in s : TRUE
    OBVIOUS
  <2>3. n - i \in below
    OBVIOUS
  <2>. QED  BY <2>1, <2>3
<1>2. PICK k \in below : \A m \in below : k <= m
  <2>. HIDE DEF below
  <2>. QED  BY <1>1, LeastNat
<1>3. PICK x \in s : k = n - x
  BY <1>2
<1>4. \A i \in s : x >= i
  <2>1. ASSUME NEW i \in s PROVE x >= i
    <3>1. k <= n - i
      BY <1>2
    <3>. QED  BY <3>1, <1>3
  <2>. QED  BY <2>1
<1>5. \E y \in s : \A i \in s : y >= i
  BY <1>4
<1>. QED  BY <1>5 DEF Max

-----------------------------------------------------------------------------
(* FlattenSeq *)

IsFlatten(f, seqs, n) == f = [i \in 1..n |-> IF i = 1 THEN seqs[i] ELSE f[i - 1] \o seqs[i]]

LEMMA FlattenExists ==
  ASSUME NEW seqs, NEW n \in Nat
  PROVE  \E f : IsFlatten(f, seqs, n)
<1>. DEFINE Good == {k \in Nat : \E f : IsFlatten(f, seqs, k)}
<1>1. 0 \in Good
  <2>1. IsFlatten([i \in 1..0 |-> seqs[i]], seqs, 0)
    BY DEF IsFlatten
  <2>. QED  BY <2>1
<1>2. ASSUME NEW k \in Nat, k \in Good PROVE k + 1 \in Good
  <2>1. PICK f : IsFlatten(f, seqs, k)
    BY <1>2
  <2>. DEFINE h == [i \in 1..(k + 1) |-> IF i = 1 THEN seqs[i] ELSE f[i - 1] \o seqs[i]]
              m == [i \in 1..(k + 1) |-> IF i = 1 THEN seqs[i] ELSE h[i - 1] \o seqs[i]]
  <2>2. \A i \in 1..k : h[i] = f[i]
    <3>1. f = [i \in 1..k |-> IF i = 1 THEN seqs[i] ELSE f[i - 1] \o seqs[i]]
      BY <2>1 DEF IsFlatten
    <3>2. \A i \in 1..k : f[i] = IF i = 1 THEN seqs[i] ELSE f[i - 1] \o seqs[i]
      BY <3>1
    <3>3. \A i \in 1..k : i \in 1..(k + 1)
      OBVIOUS
    <3>4. \A i \in 1..k : h[i] = IF i = 1 THEN seqs[i] ELSE f[i - 1] \o seqs[i]
      BY <3>3
    <3>. HIDE DEF h
    <3>. QED  BY <3>2, <3>4
  <2>3. ASSUME NEW i \in 1..(k + 1) PROVE h[i] = m[i]
    <3>1. i # 1 => i - 1 \in 1..k
      OBVIOUS
    <3>2. i # 1 => h[i - 1] = f[i - 1]
      BY <2>2, <3>1
    <3>3. h[i] = IF i = 1 THEN seqs[i] ELSE f[i - 1] \o seqs[i]
      OBVIOUS
    <3>4. m[i] = IF i = 1 THEN seqs[i] ELSE h[i - 1] \o seqs[i]
      OBVIOUS
    <3>. HIDE DEF h, m
    <3>. QED  BY <3>2, <3>3, <3>4
  <2>4. h = m
    BY <2>3
  <2>5. IsFlatten(h, seqs, k + 1)
    BY <2>4 DEF IsFlatten
  <2>6. \E l : IsFlatten(l, seqs, k + 1)
    <3>. HIDE DEF h
    <3>. QED  BY <2>5
  <2>. QED  BY <2>6
<1>. HIDE DEF Good
<1>3. n \in Good
  BY <1>1, <1>2, InductiveSet
<1>. QED  BY <1>3 DEF Good

\* The elements of the sequences are those of the whole.
LEMMA FlattenFacts ==
  ASSUME NEW X, NEW seqs \in Seq(Seq(X))
  PROVE  /\ FlattenSeq(seqs) \in Seq(X)
         /\ Range(FlattenSeq(seqs)) = UNION {Range(seqs[i]) : i \in DOMAIN seqs}
<1>1. CASE Len(seqs) = 0
  <2>1. FlattenSeq(seqs) = seqs
    BY <1>1 DEF FlattenSeq
  <2>2. seqs = <<>>
    BY <1>1
  <2>. QED  BY <2>1, <2>2 DEF Range
<1>2. CASE Len(seqs) # 0
  <2>. DEFINE n == Len(seqs)
              c == CHOOSE f : IsFlatten(f, seqs, n)
              Upto(i) == UNION {Range(seqs[l]) : l \in 1..i}
              Good == {i \in Nat : i + 1 <= n => c[i + 1] \in Seq(X) /\ Range(c[i + 1]) = Upto(i + 1)}
  <2>1. n \in Nat /\ n >= 1 /\ DOMAIN seqs = 1..n /\ \A i \in 1..n : seqs[i] \in Seq(X)
    BY <1>2
  <2>2. FlattenSeq(seqs) = c[n]
    BY <1>2 DEF FlattenSeq, IsFlatten
  <2>3. IsFlatten(c, seqs, n)
    <3>1. \E f : IsFlatten(f, seqs, n)
      BY <2>1, FlattenExists
    <3>. QED  BY <3>1
  <2>4. \A i \in 1..n : c[i] = IF i = 1 THEN seqs[i] ELSE c[i - 1] \o seqs[i]
    <3>. HIDE DEF c
    <3>. QED  BY <2>3 DEF IsFlatten
  <2>. HIDE DEF c, n
  <2>5. 0 \in Good
    <3>1. c[1] = seqs[1] /\ seqs[1] \in Seq(X)
      BY <2>1, <2>4
    <3>2. 1..1 = {1}
      OBVIOUS
    <3>3. Upto(1) = Range(seqs[1])
      BY <3>2
    <3>. QED  BY <3>1, <3>3
  <2>6. ASSUME NEW m \in Nat, m \in Good PROVE m + 1 \in Good
    <3>. SUFFICES ASSUME m + 2 <= n PROVE c[m + 2] \in Seq(X) /\ Range(c[m + 2]) = Upto(m + 2)
      <4>1. (m + 1) + 1 = m + 2 /\ m + 1 \in Nat
        OBVIOUS
      <4>. HIDE DEF Upto
      <4>. QED  BY <4>1
    <3>1. c[m + 1] \in Seq(X) /\ Range(c[m + 1]) = Upto(m + 1)
      BY <2>1, <2>6
    <3>2. c[m + 2] = c[m + 1] \o seqs[m + 2]
      <4>1. m + 2 \in 1..n /\ m + 2 # 1 /\ (m + 2) - 1 = m + 1
        BY <2>1
      <4>. QED  BY <2>4, <4>1
    <3>3. seqs[m + 2] \in Seq(X)
      BY <2>1
    <3>4. 1..(m + 2) = (1..(m + 1)) \cup {m + 2}
      OBVIOUS
    <3>5. Upto(m + 2) = Upto(m + 1) \cup Range(seqs[m + 2])
      BY <3>4
    <3>6. c[m + 1] \o seqs[m + 2] \in Seq(X)
      BY <3>1, <3>3
    <3>7. Range(c[m + 1] \o seqs[m + 2]) = Range(c[m + 1]) \cup Range(seqs[m + 2])
      BY <3>1, <3>3, RangeConcatenation
    <3>. HIDE DEF Upto
    <3>. QED  BY <3>1, <3>2, <3>5, <3>6, <3>7
  <2>7. c[n] \in Seq(X) /\ Range(c[n]) = Upto(n)
    <3>1. \A i \in Nat : i \in Good
      <4>. HIDE DEF Good
      <4>. QED  BY <2>5, <2>6, InductiveSet
    <3>2. n - 1 \in Nat /\ (n - 1) + 1 = n
      BY <2>1
    <3>3. n - 1 \in Good
      BY <3>1, <3>2
    <3>. HIDE DEF Upto
    <3>. QED  BY <3>2, <3>3
  <2>. QED  BY <2>1, <2>2, <2>7
<1>. QED  BY <1>1, <1>2

LEMMA FlattenOne ==
  ASSUME NEW seqs, Len(seqs) = 1
  PROVE  FlattenSeq(seqs) = seqs[1]
<1>. DEFINE c == CHOOSE f : IsFlatten(f, seqs, 1)
<1>1. FlattenSeq(seqs) = c[1]
  BY DEF FlattenSeq, IsFlatten
<1>2. IsFlatten(c, seqs, 1)
  <2>1. \E f : IsFlatten(f, seqs, 1)
    BY FlattenExists
  <2>. QED  BY <2>1
<1>. HIDE DEF c
<1>3. c = [i \in 1..1 |-> IF i = 1 THEN seqs[i] ELSE c[i - 1] \o seqs[i]]
  BY <1>2 DEF IsFlatten
<1>4. c[1] = seqs[1]
  BY <1>3
<1>. QED  BY <1>1, <1>4

-----------------------------------------------------------------------------
(* Sequences and finite sets *)

IsFunction(f) == f = [x \in DOMAIN f |-> f[x]]

IsSeq(s) == s \in Seq(Range(s))

LEMMA SeqOver ==
  ASSUME NEW X, NEW s \in Seq(X)
  PROVE  IsSeq(s) /\ Range(s) \subseteq X
<1>1. \A i \in 1..Len(s) : s[i] \in Range(s) /\ s[i] \in X
  BY DEF Range
<1>2. s = [i \in 1..Len(s) |-> s[i]] /\ Len(s) \in Nat
  OBVIOUS
<1>3. s \in [1..Len(s) -> Range(s)]
  BY <1>1, <1>2
<1>4. s \in Seq(Range(s))
  BY <1>2, <1>3, SeqDef
<1>. QED  BY <1>1, <1>4 DEF IsSeq, Range

LEMMA EmptyIsSeq == IsSeq(<<>>) /\ Range(<<>>) = {}
<1>1. <<>> \in Seq({})
  OBVIOUS
<1>2. IsSeq(<<>>) /\ Range(<<>>) \subseteq {}
  <2>. DEFINE empty == <<>>
  <2>1. empty \in Seq({})
    BY <1>1
  <2>. HIDE DEF empty
  <2>2. IsSeq(empty) /\ Range(empty) \subseteq {}
    BY <2>1, SeqOver
  <2>. QED  BY <2>2 DEF empty
<1>. QED  BY <1>2

LEMMA MadeSeq ==
  ASSUME NEW s, NEW n \in Nat, DOMAIN s = 1..n, IsFunction(s)
  PROVE  IsSeq(s)
<1>1. s \in [1..n -> Range(s)]
  BY DEF Range, IsFunction
<1>. QED  BY <1>1, SeqDef DEF IsSeq

LEMMA FlattenIsSeq ==
  ASSUME NEW seqs, IsSeq(seqs), \A i \in DOMAIN seqs : IsSeq(seqs[i])
  PROVE  /\ IsSeq(FlattenSeq(seqs))
         /\ Range(FlattenSeq(seqs)) = UNION {Range(seqs[i]) : i \in DOMAIN seqs}
<1>. DEFINE X == UNION {Range(seqs[i]) : i \in DOMAIN seqs}
<1>1. ASSUME NEW i \in DOMAIN seqs PROVE seqs[i] \in Seq(X)
  <2>1. Range(seqs[i]) \subseteq X
    OBVIOUS
  <2>. HIDE DEF X
  <2>. QED  BY <2>1 DEF IsSeq
<1>. HIDE DEF X
<1>2. seqs \in Seq(Seq(X))
  BY <1>1 DEF IsSeq
<1>3. FlattenSeq(seqs) \in Seq(X) /\ Range(FlattenSeq(seqs)) = X
  BY <1>2, FlattenFacts DEF X
<1>. QED  BY <1>3 DEF IsSeq, X

LEMMA RangeFinite ==
  ASSUME NEW s, IsSeq(s)
  PROVE  IsFiniteSet(Range(s))
<1>1. IsFiniteSet(1..Len(s)) /\ DOMAIN s = 1..Len(s)
  BY FS_Interval DEF IsSeq
<1>2. s \in Surjection(1..Len(s), Range(s))
  BY <1>1 DEF IsSeq, Surjection, Range
<1>. QED  BY <1>1, <1>2, FS_Surjection

\* For images, of a function as no operator can be given to a lemma.
LEMMA ImageFinite ==
  ASSUME NEW f, IsFiniteSet(DOMAIN f)
  PROVE  IsFiniteSet({f[x] : x \in DOMAIN f})
<1>. DEFINE T == {f[x] : x \in DOMAIN f}
            h == [x \in DOMAIN f |-> f[x]]
<1>1. h \in Surjection(DOMAIN f, T)
  BY DEF Surjection
<1>. HIDE DEF h
<1>. QED  BY <1>1, FS_Surjection

LEMMA FourFinite == ASSUME NEW a, NEW b, NEW c, NEW d PROVE IsFiniteSet({a, b, c, d})
<1>1. IsFiniteSet({a})
  BY FS_Singleton
<1>2. IsFiniteSet({a} \cup {b})
  BY <1>1, FS_AddElement
<1>3. IsFiniteSet(({a} \cup {b}) \cup {c})
  BY <1>2, FS_AddElement
<1>4. IsFiniteSet((({a} \cup {b}) \cup {c}) \cup {d})
  BY <1>3, FS_AddElement
<1>5. {a, b, c, d} = (({a} \cup {b}) \cup {c}) \cup {d}
  OBVIOUS
<1>. QED  BY <1>4, <1>5

\* How a fold over the positions of a sequence picks them, the last one first.
Greatest(S) == [s \in SUBSET S |-> Max(s)]

LEMMA GreatestInside ==
  ASSUME NEW X, NEW seq \in Seq(X)
  PROVE  /\ IsFiniteSet(DOMAIN seq)
         /\ \A s \in SUBSET DOMAIN seq : s # {} =>
                Max(s) \in s /\ Greatest(DOMAIN seq)[s] = Max(s) /\ Greatest(DOMAIN seq)[s] \in s
<1>1. Len(seq) \in Nat /\ DOMAIN seq = 1..Len(seq)
  OBVIOUS
<1>2. \A s \in SUBSET DOMAIN seq : s # {} => Max(s) \in s
  BY <1>1, MaxOfPart
<1>3. IsFiniteSet(DOMAIN seq)
  BY <1>1, FS_Interval
<1>. QED  BY <1>2, <1>3 DEF Greatest

LEMMA ConcatFacts ==
  ASSUME NEW s, NEW t, IsSeq(s), IsSeq(t)
  PROVE  /\ IsSeq(s \o t) /\ Range(s \o t) = Range(s) \cup Range(t)
         /\ DOMAIN s = 1..Len(s) /\ DOMAIN t = 1..Len(t) /\ DOMAIN (s \o t) = 1..Len(s \o t)
         /\ Len(s) \in Nat /\ Len(t) \in Nat /\ Len(s \o t) = Len(s) + Len(t)
         /\ \A i \in DOMAIN s : (s \o t)[i] = s[i]
         /\ \A i \in DOMAIN t : (s \o t)[Len(s) + i] = t[i]
<1>. DEFINE X == Range(s) \cup Range(t)
<1>1. s \in Seq(X) /\ t \in Seq(X)
  BY DEF IsSeq
<1>2. /\ s \o t \in Seq(X) /\ Len(s \o t) = Len(s) + Len(t)
      /\ \A i \in 1..Len(s) + Len(t) : (s \o t)[i] = IF i <= Len(s) THEN s[i] ELSE t[i - Len(s)]
  <2>. HIDE DEF X
  <2>. QED  BY <1>1, ConcatProperties
<1>3. /\ DOMAIN s = 1..Len(s) /\ DOMAIN t = 1..Len(t) /\ DOMAIN (s \o t) = 1..Len(s \o t)
      /\ Len(s) \in Nat /\ Len(t) \in Nat
  BY <1>1, <1>2
<1>4. IsSeq(s \o t) /\ Range(s \o t) \subseteq X
  <2>. HIDE DEF X
  <2>. QED  BY <1>2, SeqOver
<1>5. \A i \in DOMAIN s : (s \o t)[i] = s[i] /\ i \in DOMAIN (s \o t)
  BY <1>2, <1>3
<1>6. \A i \in DOMAIN t : (s \o t)[Len(s) + i] = t[i] /\ Len(s) + i \in DOMAIN (s \o t)
  <2>1. ASSUME NEW i \in DOMAIN t PROVE (s \o t)[Len(s) + i] = t[i] /\ Len(s) + i \in DOMAIN (s \o t)
    <3>1. i \in Int /\ 1 <= i /\ i <= Len(t)
      BY <1>3
    <3>2. Len(s) + i \in 1..Len(s) + Len(t) /\ ~(Len(s) + i <= Len(s)) /\ Len(s) + i - Len(s) = i
      BY <1>3, <3>1
    <3>. QED  BY <1>2, <1>3, <3>2
  <2>. QED  BY <2>1
<1>7. X \subseteq Range(s \o t)
  BY <1>5, <1>6 DEF Range
<1>. QED  BY <1>2, <1>3, <1>4, <1>5, <1>6, <1>7

LEMMA TopFacts ==
  ASSUME NEW list, IsSeq(list), NEW n \in Nat
  PROVE  LET items == Top(list, n)
         IN  /\ IsSeq(items) /\ Len(items) = IF n < Len(list) THEN n ELSE Len(list)
             /\ Len(list) \in Nat /\ DOMAIN list = 1..Len(list) /\ DOMAIN items = 1..Len(items)
             /\ Range(items) \subseteq Range(list)
             /\ \A i \in DOMAIN items : i \in DOMAIN list /\ items[i] = list[i]
             /\ IsInjective(list) => IsInjective(items)
<1>. DEFINE m == IF n < Len(list) THEN n ELSE Len(list)
            items == SubSeq(list, 1, m)
<1>1. Len(list) \in Nat /\ DOMAIN list = 1..Len(list)
  BY DEF IsSeq
<1>2. m \in Nat /\ m <= Len(list)
  BY <1>1
<1>. HIDE DEF m
<1>3. \A i \in 1..m : i \in DOMAIN list /\ list[i] \in Range(list)
  BY <1>1, <1>2 DEF Range
<1>4. /\ items \in Seq(Range(list)) /\ Len(items) = IF 1 <= m THEN m - 1 + 1 ELSE 0
      /\ \A i \in 1..m - 1 + 1 : items[i] = list[1 + i - 1]
  BY <1>2, <1>3, SubSeqProperties
<1>. HIDE DEF items
<1>5. Len(items) = m /\ DOMAIN items = 1..m
  BY <1>2, <1>4
<1>6. IsSeq(items) /\ Range(items) \subseteq Range(list)
  BY <1>4, SeqOver
<1>7. \A i \in DOMAIN items : i \in DOMAIN list /\ items[i] = list[i]
  BY <1>2, <1>3, <1>4, <1>5
<1>8. IsInjective(list) => IsInjective(items)
  BY <1>7 DEF IsInjective
<1>9. items = Top(list, n)
  BY DEF Top, items, m
<1>. QED  BY <1>1, <1>5, <1>6, <1>7, <1>8, <1>9 DEF m

LEMMA OneSeq ==
  ASSUME NEW x
  PROVE  IsSeq(<<x>>) /\ Range(<<x>>) = {x} /\ Len(<<x>>) = 1 /\ DOMAIN <<x>> = {1} /\ <<x>>[1] = x
<1>1. <<x>> \in Seq({x}) /\ Len(<<x>>) = 1 /\ DOMAIN <<x>> = {1} /\ <<x>>[1] = x
  OBVIOUS
<1>2. Range(<<x>>) = {x}
  BY <1>1 DEF Range
<1>. QED  BY <1>1, <1>2 DEF IsSeq

LEMMA AppendFacts ==
  ASSUME NEW s, IsSeq(s), NEW e
  PROVE  /\ IsSeq(Append(s, e)) /\ Range(Append(s, e)) = Range(s) \cup {e}
         /\ Len(s) \in Nat /\ Len(Append(s, e)) = Len(s) + 1 /\ DOMAIN s = 1..Len(s)
         /\ DOMAIN Append(s, e) = DOMAIN s \cup {Len(s) + 1} /\ Len(s) + 1 \notin DOMAIN s
         /\ \A i \in DOMAIN s : Append(s, e)[i] = s[i]
         /\ Append(s, e)[Len(s) + 1] = e
<1>. DEFINE X == Range(s) \cup {e}
            t == Append(s, e)
<1>1. s \in Seq(X) /\ e \in X
  BY DEF IsSeq
<1>2. /\ t \in Seq(X) /\ Len(t) = Len(s) + 1
      /\ \A i \in 1..Len(s) : t[i] = s[i]
      /\ t[Len(s) + 1] = e
  <2>. HIDE DEF X
  <2>. QED  BY <1>1, AppendProperties
<1>. HIDE DEF t
<1>3. DOMAIN s = 1..Len(s) /\ Len(s) \in Nat /\ DOMAIN t = 1..Len(t)
  BY <1>1, <1>2
<1>4. DOMAIN t = DOMAIN s \cup {Len(s) + 1} /\ Len(s) + 1 \notin DOMAIN s
  BY <1>2, <1>3
<1>5. IsSeq(t)
  <2>. HIDE DEF X
  <2>. QED  BY <1>2, SeqOver
<1>6. Range(t) = X
  BY <1>2, <1>3, <1>4 DEF Range
<1>. QED  BY <1>2, <1>3, <1>4, <1>5, <1>6 DEF t

-----------------------------------------------------------------------------
(* Ranking *)

LEMMA NoLaterFacts ==
  ASSUME NEW S \in SUBSET Nat, IsFiniteSet(S), NEW score, \A i \in S : score[i] \in Int, NEW i \in S
  PROVE  /\ i \in NoLater(S, score, i)
         /\ NoLater(S, score, i) \subseteq S
         /\ IsFiniteSet(NoLater(S, score, i))
         /\ Cardinality(NoLater(S, score, i)) \in 1..Cardinality(S)
<1>1. i \in NoLater(S, score, i) /\ NoLater(S, score, i) \in SUBSET S
  BY DEF NoLater
<1>2. IsFiniteSet(NoLater(S, score, i)) /\ Cardinality(NoLater(S, score, i)) <= Cardinality(S)
  BY <1>1, FS_Subset
<1>3. Cardinality(NoLater(S, score, i)) \in Nat /\ Cardinality(S) \in Nat
  BY <1>2, FS_CardinalityType
<1>4. Cardinality(NoLater(S, score, i)) # 0
  BY <1>1, <1>2, FS_EmptySet
<1>. QED  BY <1>1, <1>2, <1>3, <1>4

\* Of two positions one is before the other one, and so has the lower rank.
LEMMA RanksDiffer ==
  ASSUME NEW S \in SUBSET Nat, IsFiniteSet(S), NEW score, \A i \in S : score[i] \in Int,
         NEW i \in S, NEW j \in S, i # j
  PROVE  IF j \in NoLater(S, score, i)
         THEN Cardinality(NoLater(S, score, j)) < Cardinality(NoLater(S, score, i))
         ELSE Cardinality(NoLater(S, score, i)) < Cardinality(NoLater(S, score, j))
<1>. DEFINE Before(a) == NoLater(S, score, a)
<1>1. ASSUME NEW a \in S, NEW b \in S, a # b, b \in Before(a)
      PROVE  Cardinality(Before(b)) < Cardinality(Before(a))
  <2>1. score[a] \in Int /\ score[b] \in Int /\ \A k \in S : score[k] \in Int /\ k \in Int
    OBVIOUS
  <2>2. score[b] > score[a] \/ (score[b] = score[a] /\ b <= a)
    BY <1>1 DEF NoLater
  <2>3. Before(b) \subseteq Before(a)
    <3>1. ASSUME NEW k \in S, score[k] > score[b] \/ (score[k] = score[b] /\ k <= b)
          PROVE score[k] > score[a] \/ (score[k] = score[a] /\ k <= a)
      BY <2>1, <2>2, <3>1
    <3>. QED  BY <3>1 DEF NoLater
  <2>4. a \notin Before(b)
    BY <1>1, <2>1, <2>2 DEF NoLater
  <2>5. a \in Before(a) /\ IsFiniteSet(Before(a)) /\ IsFiniteSet(Before(b))
        /\ Cardinality(Before(a)) \in Nat /\ Cardinality(Before(b)) \in Nat
    BY NoLaterFacts
  <2>6. Cardinality(Before(b)) <= Cardinality(Before(a)) /\ Cardinality(Before(a)) # Cardinality(Before(b))
    <3>. HIDE DEF Before
    <3>. QED  BY <2>3, <2>4, <2>5, FS_Subset
  <2>. QED  BY <2>5, <2>6
<1>2. j \in Before(i) \/ i \in Before(j)
  <2>1. score[i] \in Int /\ score[j] \in Int /\ i \in Int /\ j \in Int
    OBVIOUS
  <2>. QED  BY <2>1 DEF NoLater
<1>. QED  BY <1>1, <1>2

\* The positions are ranked: each one is there, once, and as many come before
\* it as have a higher score, or the same one and are earlier in the list.
LEMMA RankedFacts ==
  ASSUME NEW S \in SUBSET Nat, IsFiniteSet(S), NEW score, \A i \in S : score[i] \in Int
  PROVE  LET order == Ranked(S, score)
         IN  /\ IsSeq(order) /\ Range(order) = S /\ IsInjective(order)
             /\ DOMAIN order = 1..Cardinality(S) /\ Cardinality(S) \in Nat
             /\ \A n \in DOMAIN order : Cardinality(NoLater(S, score, order[n])) = n
<1>. DEFINE n == Cardinality(S)
            rank == [i \in S |-> Cardinality(NoLater(S, score, i))]
            order == [m \in 1..n |-> CHOOSE i \in S : rank[i] = m]
<1>1. n \in Nat /\ IsFiniteSet(1..n) /\ Cardinality(1..n) = n
  <2>1. n \in Nat
    BY FS_CardinalityType
  <2>2. 1 \in Int /\ n \in Int
    BY <2>1
  <2>3. IsFiniteSet(1..n) /\ Cardinality(1..n) = IF 1 > n THEN 0 ELSE n - 1 + 1
    BY <2>2, FS_Interval
  <2>. HIDE DEF n
  <2>. QED  BY <2>1, <2>3
<1>2. rank \in [S -> 1..n]
  BY NoLaterFacts
<1>3. ASSUME NEW i \in S, NEW j \in S, i # j PROVE rank[i] # rank[j]
  <2>1. rank[i] \in Nat /\ rank[j] \in Nat
    BY <1>1, <1>2
  <2>2. Cardinality(NoLater(S, score, i)) # Cardinality(NoLater(S, score, j))
    BY <1>3, <2>1, RanksDiffer
  <2>. QED  BY <2>2
<1>. HIDE DEF rank
<1>4. rank \in Injection(S, 1..n)
  BY <1>2, <1>3 DEF Injection, IsInjective
<1>5. rank \in Surjection(S, 1..n)
  BY <1>1, <1>4, FS_Injection
<1>6. ASSUME NEW m \in 1..n PROVE order[m] \in S /\ rank[order[m]] = m
  <2>1. \E i \in S : rank[i] = m
    BY <1>5 DEF Surjection
  <2>. QED  BY <2>1
<1>7. \A i \in S : rank[i] \in 1..n /\ order[rank[i]] = i
  BY <1>2, <1>3, <1>6
<1>8. DOMAIN order = 1..n /\ IsFunction(order)
  BY DEF IsFunction
<1>9. order = Ranked(S, score)
  BY DEF Ranked, rank
<1>. HIDE DEF order
<1>10. IsSeq(order)
  BY <1>1, <1>8, MadeSeq
<1>11. Range(order) = S
  BY <1>6, <1>7, <1>8 DEF Range
<1>12. IsInjective(order)
  BY <1>6, <1>8 DEF IsInjective
<1>13. \A m \in DOMAIN order : Cardinality(NoLater(S, score, order[m])) = m
  BY <1>6, <1>8 DEF rank
<1>. QED  BY <1>1, <1>8, <1>9, <1>10, <1>11, <1>12, <1>13

LEMMA ArrangeFacts ==
  ASSUME NEW list, NEW order, IsSeq(order)
  PROVE  LET items == Arrange(list, order)
         IN  /\ IsSeq(items) /\ Len(items) = Len(order) /\ Len(order) \in Nat
             /\ DOMAIN items = DOMAIN order /\ DOMAIN order = 1..Len(order)
             /\ \A n \in DOMAIN order : items[n] = list[order[n]]
             /\ Range(items) = {list[i] : i \in Range(order)}
<1>. DEFINE items == Arrange(list, order)
<1>1. Len(order) \in Nat /\ DOMAIN order = 1..Len(order)
  BY DEF IsSeq
<1>2. DOMAIN items = 1..Len(order) /\ IsFunction(items) /\ \A n \in DOMAIN order : items[n] = list[order[n]]
  BY <1>1 DEF Arrange, IsFunction
<1>. HIDE DEF items
<1>3. IsSeq(items)
  BY <1>1, <1>2, MadeSeq
<1>4. Len(items) = Len(order)
  <2>1. Len(items) \in Nat /\ DOMAIN items = 1..Len(items)
    BY <1>3 DEF IsSeq
  <2>. QED  BY <1>1, <1>2, <2>1
<1>5. Range(items) = {list[i] : i \in Range(order)}
  BY <1>1, <1>2 DEF Range
<1>. QED  BY <1>1, <1>2, <1>3, <1>4, <1>5 DEF items

\* What a filter keeps of a list is there once for each position, in order.
LEMMA FilteredFacts ==
  ASSUME NEW list, IsSeq(list), NEW S \in SUBSET (DOMAIN list)
  PROVE  LET items == Filtered(list, S)
         IN  /\ IsSeq(items) /\ Len(items) = Cardinality(S) /\ Len(items) \in Nat
             /\ Range(items) = {list[i] : i \in S}
             /\ (\A i, j \in S : list[i] = list[j] => i = j) => IsInjective(items)
             /\ \A j \in S : \E q \in DOMAIN items : q <= j /\ items[q] = list[j]
<1>. DEFINE score == [i \in S |-> 0]
            order == Ranked(S, score)
            items == Filtered(list, S)
<1>1. DOMAIN list = 1..Len(list) /\ Len(list) \in Nat
  BY DEF IsSeq
<1>2. S \in SUBSET Nat /\ IsFiniteSet(S)
  <2>1. IsFiniteSet(1..Len(list))
    BY <1>1, FS_Interval
  <2>. QED  BY <1>1, <2>1, FS_Subset
<1>3. \A i \in S : score[i] \in Int
  OBVIOUS
<1>4. items = Arrange(list, order)
  BY DEF Filtered
<1>. HIDE DEF score
<1>5. /\ IsSeq(order) /\ Range(order) = S /\ IsInjective(order)
      /\ DOMAIN order = 1..Cardinality(S) /\ Cardinality(S) \in Nat
      /\ \A n \in DOMAIN order : Cardinality(NoLater(S, score, order[n])) = n
  BY <1>2, <1>3, RankedFacts
<1>. HIDE DEF order
<1>6. /\ IsSeq(items) /\ Len(items) = Len(order) /\ Len(order) \in Nat
      /\ DOMAIN items = DOMAIN order /\ DOMAIN order = 1..Len(order)
      /\ \A n \in DOMAIN order : items[n] = list[order[n]]
      /\ Range(items) = {list[i] : i \in Range(order)}
  BY <1>4, <1>5, ArrangeFacts
<1>7. Len(order) = Cardinality(S)
  BY <1>5, <1>6
<1>8. ASSUME \A i, j \in S : list[i] = list[j] => i = j PROVE IsInjective(items)
  <2>1. \A n \in DOMAIN order : order[n] \in S
    BY <1>5 DEF Range
  <2>. QED  BY <1>5, <1>6, <1>8, <2>1 DEF IsInjective
<1>9. ASSUME NEW j \in S PROVE \E q \in DOMAIN items : q <= j /\ items[q] = list[j]
  <2>1. PICK q \in DOMAIN order : order[q] = j
    BY <1>5 DEF Range
  <2>2. j \in Nat /\ NoLater(S, score, j) \subseteq 1..j
    <3>1. j \in Nat /\ \A i \in S : i \in Nat /\ 1 <= i
      BY <1>1
    <3>. QED  BY <3>1 DEF NoLater, score
  <2>3. IsFiniteSet(1..j) /\ Cardinality(1..j) = j
    <3>1. 1 \in Int /\ j \in Int
      BY <2>2
    <3>2. IsFiniteSet(1..j) /\ Cardinality(1..j) = IF 1 > j THEN 0 ELSE j - 1 + 1
      BY <3>1, FS_Interval
    <3>. QED  BY <2>2, <3>2
  <2>4. Cardinality(NoLater(S, score, j)) <= j
    BY <2>2, <2>3, FS_Subset
  <2>5. Cardinality(NoLater(S, score, j)) = q
    BY <1>5, <2>1
  <2>. QED  BY <1>6, <2>1, <2>4, <2>5
<1>. QED  BY <1>5, <1>6, <1>7, <1>8, <1>9 DEF items

\* A sorted list has the items of the list, each one where its rank says.
LEMMA SortedFacts ==
  ASSUME NEW list, IsSeq(list), NEW score, \A i \in DOMAIN list : score[i] \in Int
  PROVE  LET items == Sorted(list, score)
         IN  /\ IsSeq(items) /\ Len(items) = Len(list)
             /\ Range(items) = Range(list)
             /\ \A i \in DOMAIN list :
                    LET n == Cardinality(NoLater(DOMAIN list, score, i))
                    IN  n \in DOMAIN items /\ items[n] = list[i]
<1>. DEFINE S == DOMAIN list
            order == Ranked(S, score)
            items == Sorted(list, score)
<1>1. S = 1..Len(list) /\ Len(list) \in Nat
  BY DEF IsSeq
<1>2. S \in SUBSET Nat /\ IsFiniteSet(S) /\ Cardinality(S) = Len(list)
  <2>1. IsFiniteSet(1..Len(list)) /\ Cardinality(1..Len(list)) = IF 1 > Len(list) THEN 0 ELSE Len(list) - 1 + 1
    BY <1>1, FS_Interval
  <2>. QED  BY <1>1, <2>1
<1>3. items = Arrange(list, order)
  BY DEF Sorted
<1>. HIDE DEF S, items
<1>4. \A i \in S : score[i] \in Int
  BY DEF S
<1>5. /\ IsSeq(order) /\ Range(order) = S /\ IsInjective(order)
      /\ DOMAIN order = 1..Cardinality(S)
      /\ \A n \in DOMAIN order : Cardinality(NoLater(S, score, order[n])) = n
  BY <1>2, <1>4, RankedFacts
<1>. HIDE DEF order
<1>6. /\ IsSeq(items) /\ Len(items) = Len(order) /\ Len(order) \in Nat
      /\ DOMAIN items = DOMAIN order /\ DOMAIN order = 1..Len(order)
      /\ \A n \in DOMAIN order : items[n] = list[order[n]]
      /\ Range(items) = {list[i] : i \in Range(order)}
  <2>1. IsSeq(order)
    BY <1>5
  <2>2. items = Arrange(list, order)
    BY <1>3
  <2>. QED  BY <2>1, <2>2, ArrangeFacts
<1>7. Len(order) = Len(list)
  BY <1>1, <1>2, <1>5, <1>6
<1>8. Range(items) = Range(list)
  BY <1>5, <1>6 DEF Range, S
<1>9. ASSUME NEW i \in S
      PROVE  LET n == Cardinality(NoLater(S, score, i)) IN n \in DOMAIN items /\ items[n] = list[i]
  <2>1. PICK n \in DOMAIN order : order[n] = i
    BY <1>5 DEF Range
  <2>. QED  BY <1>5, <1>6, <2>1
<1>. QED  BY <1>6, <1>7, <1>8, <1>9 DEF S, items

\* What comes earlier of a sorted list has no lower score.
LEMMA SortedDescends ==
  ASSUME NEW list, IsSeq(list), NEW score, \A i \in DOMAIN list : score[i] \in Int
  PROVE  LET items == Sorted(list, score)
         IN  \A m, n \in DOMAIN items : m <= n =>
                 \E i, j \in DOMAIN list : items[m] = list[i] /\ items[n] = list[j] /\ score[i] >= score[j]
<1>. DEFINE S == DOMAIN list
            order == Ranked(S, score)
            items == Sorted(list, score)
<1>1. S \in SUBSET Nat /\ IsFiniteSet(S)
  <2>1. S = 1..Len(list) /\ Len(list) \in Nat
    BY DEF IsSeq
  <2>. HIDE DEF S
  <2>. QED  BY <2>1, FS_Interval
<1>2. items = Arrange(list, order)
  BY DEF Sorted
<1>. HIDE DEF S, items
<1>3. \A i \in S : score[i] \in Int
  BY DEF S
<1>4. /\ IsSeq(order) /\ Range(order) = S /\ DOMAIN order \subseteq Nat
      /\ \A n \in DOMAIN order : Cardinality(NoLater(S, score, order[n])) = n
  <2>1. /\ IsSeq(order) /\ Range(order) = S
        /\ DOMAIN order = 1..Cardinality(S) /\ Cardinality(S) \in Nat
        /\ \A n \in DOMAIN order : Cardinality(NoLater(S, score, order[n])) = n
    BY <1>1, <1>3, RankedFacts
  <2>. HIDE DEF order
  <2>. QED  BY <2>1
<1>. HIDE DEF order
<1>5. DOMAIN items = DOMAIN order /\ \A n \in DOMAIN order : items[n] = list[order[n]]
  BY <1>2, <1>4, ArrangeFacts
<1>6. \A n \in DOMAIN order : order[n] \in S
  BY <1>4 DEF Range
<1>7. ASSUME NEW m \in DOMAIN order, NEW n \in DOMAIN order, m <= n PROVE score[order[m]] >= score[order[n]]
  <2>. DEFINE i == order[m]
              j == order[n]
  <2>1. i \in S /\ j \in S /\ score[i] \in Int /\ score[j] \in Int
    BY <1>3, <1>6
  <2>2. Cardinality(NoLater(S, score, i)) = m /\ Cardinality(NoLater(S, score, j)) = n
    BY <1>4
  <2>. HIDE DEF i, j
  <2>3. SUFFICES ASSUME score[i] < score[j] PROVE FALSE
    <3>. QED  BY <2>1 DEF i, j
  <2>4. NoLater(S, score, j) \subseteq NoLater(S, score, i)
    BY <1>3, <2>1, <2>3 DEF NoLater
  <2>5. IsFiniteSet(NoLater(S, score, i)) /\ NoLater(S, score, i) \subseteq S
    BY <1>1, <1>3, <2>1, NoLaterFacts
  <2>6. n <= m /\ m \in Nat /\ n \in Nat
    BY <1>4, <2>2, <2>4, <2>5, FS_Subset
  <2>7. i = j
    BY <1>7, <2>6 DEF i, j
  <2>. QED  BY <2>1, <2>3, <2>7
<1>. QED  BY <1>5, <1>6, <1>7 DEF S, items

\* Of each key there is one item, the first that had it.
LEMMA FirstOfEachFacts ==
  ASSUME NEW list, IsSeq(list), NEW key
  PROVE  LET items == FirstOfEach(list, key)
         IN  /\ IsSeq(items) /\ Len(items) \in Nat /\ Len(items) <= Len(list)
             /\ Range(items) \subseteq Range(list)
             /\ (\A i, j \in DOMAIN list : list[i] = list[j] => key[i] = key[j]) => IsInjective(items)
             /\ \A i \in DOMAIN list : \E q \in DOMAIN items : \E j \in DOMAIN list :
                    q <= j /\ j <= i /\ key[j] = key[i] /\ items[q] = list[j]
<1>. DEFINE S == {i \in DOMAIN list : \A j \in DOMAIN list : j < i => key[j] # key[i]}
            items == FirstOfEach(list, key)
<1>1. DOMAIN list = 1..Len(list) /\ Len(list) \in Nat
  BY DEF IsSeq
<1>2. S \in SUBSET (DOMAIN list) /\ items = Filtered(list, S)
  BY DEF FirstOfEach
<1>3. ASSUME NEW i \in DOMAIN list PROVE \E j \in S : j <= i /\ key[j] = key[i]
  <2>. DEFINE T == {j \in DOMAIN list : key[j] = key[i]}
  <2>1. T \in SUBSET Nat /\ i \in T
    BY <1>1
  <2>2. PICK j \in T : \A k \in T : j <= k
    BY <2>1, LeastNat
  <2>3. j <= i
    BY <2>1, <2>2
  <2>4. ASSUME NEW k \in DOMAIN list, k < j, key[k] = key[j] PROVE FALSE
    <3>1. k \in T
      BY <2>4
    <3>. QED  BY <1>1, <2>2, <2>4, <3>1
  <2>. QED  BY <2>2, <2>3, <2>4
<1>4. \A i, j \in S : key[i] = key[j] => i = j
  <2>1. \A i, j \in S : i \in Nat /\ j \in Nat /\ i \in DOMAIN list /\ j \in DOMAIN list
    BY <1>1
  <2>. QED  BY <2>1
<1>. HIDE DEF S, items
<1>5. /\ IsSeq(items) /\ Len(items) = Cardinality(S) /\ Len(items) \in Nat
      /\ Range(items) = {list[i] : i \in S}
      /\ (\A i, j \in S : list[i] = list[j] => i = j) => IsInjective(items)
      /\ \A j \in S : \E q \in DOMAIN items : q <= j /\ items[q] = list[j]
  BY <1>2, FilteredFacts
<1>6. Cardinality(S) <= Len(list)
  <2>1. IsFiniteSet(1..Len(list)) /\ Cardinality(1..Len(list)) = IF 1 > Len(list) THEN 0 ELSE Len(list) - 1 + 1
    BY <1>1, FS_Interval
  <2>2. Cardinality(S) <= Cardinality(1..Len(list))
    BY <1>1, <1>2, <2>1, FS_Subset
  <2>. QED  BY <1>1, <2>1, <2>2
<1>7. Range(items) \subseteq Range(list)
  BY <1>2, <1>5 DEF Range
<1>8. (\A i, j \in DOMAIN list : list[i] = list[j] => key[i] = key[j]) => IsInjective(items)
  BY <1>2, <1>4, <1>5
<1>9. \A i \in DOMAIN list : \E q \in DOMAIN items : \E j \in DOMAIN list :
          q <= j /\ j <= i /\ key[j] = key[i] /\ items[q] = list[j]
  BY <1>2, <1>3, <1>5
<1>. QED  BY <1>5, <1>6, <1>7, <1>8, <1>9 DEF items

\* The elements of a finite set, one after the other.
LEMMA SetToSeqFacts ==
  ASSUME NEW S, IsFiniteSet(S)
  PROVE  IsSeq(SetToSeq(S)) /\ Range(SetToSeq(S)) = S /\ Len(SetToSeq(S)) = Cardinality(S)
<1>. DEFINE n == Cardinality(S)
            s == SetToSeq(S)
<1>1. n \in Nat /\ ExistsBijection(1..n, S)
  BY FS_CardinalityType
<1>2. PICK f : f \in Bijection(1..n, S)
  BY <1>1 DEF ExistsBijection
<1>3. f \in [1..n -> S] /\ IsInjective(f)
  BY <1>2 DEF Bijection, Injection
<1>4. s \in [1..n -> S] /\ IsInjective(s)
  BY <1>3 DEF SetToSeq
<1>5. IsFiniteSet(1..n) /\ Cardinality(1..n) = n
  <2>1. 1 \in Int /\ n \in Int
    BY <1>1
  <2>2. IsFiniteSet(1..n) /\ Cardinality(1..n) = IF 1 > n THEN 0 ELSE n - 1 + 1
    BY <2>1, FS_Interval
  <2>. HIDE DEF n
  <2>. QED  BY <1>1, <2>2
<1>. HIDE DEF s
<1>6. s \in Injection(1..n, S)
  BY <1>4 DEF Injection
<1>7. s \in Surjection(1..n, S)
  BY <1>5, <1>6, FS_Injection
<1>8. Range(s) = S
  BY <1>4, <1>7 DEF Range, Surjection
<1>. HIDE DEF n
<1>9. DOMAIN s = 1..n /\ IsFunction(s)
  BY <1>4 DEF IsFunction
<1>10. IsSeq(s)
  BY <1>1, <1>9, MadeSeq
<1>11. Len(s) = n
  <2>1. Len(s) \in Nat /\ DOMAIN s = 1..Len(s)
    BY <1>10 DEF IsSeq
  <2>. QED  BY <1>1, <1>9, <2>1
<1>. QED  BY <1>8, <1>10, <1>11 DEF s, n

-----------------------------------------------------------------------------
(* Sums, of a function as no operator can be given to a lemma *)

IsSum(g, D, v) ==
    g = [s \in SUBSET D |->
            IF s = {} THEN 0 ELSE v[CHOOSE x \in s : TRUE] + g[s \ {CHOOSE x \in s : TRUE}]]

LEMMA SumType ==
  ASSUME NEW D, IsFiniteSet(D), NEW v, NEW V \in {Int, Nat}, \A d \in D : v[d] \in V, NEW g, IsSum(g, D, v)
  PROVE  \A s \in SUBSET D : g[s] \in V
<1>1. g[{}] = 0
  BY DEF IsSum
<1>2. ASSUME NEW s \in SUBSET D, s # {}
      PROVE  \E x \in s : g[s \ {x}] \in V => g[s] \in V
  <2>1. PICK x \in s : x = CHOOSE y \in s : TRUE
    BY <1>2
  <2>2. g[s] = v[x] + g[s \ {x}]
    BY <1>2, <2>1 DEF IsSum
  <2>3. v[x] \in V
    OBVIOUS
  <2>. QED  BY <2>2, <2>3
<1>3. Inherits(g, D, V)
  BY <1>1, <1>2 DEF Inherits
<1>. QED  BY <1>3, FoldInherits

LEMMA SumExists ==
  ASSUME NEW D, IsFiniteSet(D), NEW v, \A d \in D : v[d] \in Int
  PROVE  \E g : IsSum(g, D, v)
<1>. DEFINE pick == [s \in SUBSET D |-> CHOOSE x \in s : TRUE]
            step == [x \in D |-> [n \in Int |-> v[x] + n]]
<1>1. \A s \in SUBSET D : s # {} => pick[s] \in s
  OBVIOUS
<1>2. \A x \in D, n \in Int : step[x][n] \in Int /\ step[x][n] = v[x] + n
  OBVIOUS
<1>3. \A s \in SUBSET D : pick[s] = CHOOSE x \in s : TRUE
  OBVIOUS
<1>. HIDE DEF pick, step
<1>4. PICK g : IsFold(g, SUBSET D, pick, step, 0)
  BY <1>1, FoldExists
<1>5. ASSUME NEW s \in SUBSET D, s # {}
      PROVE  \E x \in s : g[s \ {x}] \in Int => g[s] \in Int
  <2>1. pick[s] \in s /\ g[s] = step[pick[s]][g[s \ {pick[s]}]]
    BY <1>1, <1>4, <1>5 DEF IsFold
  <2>. QED  BY <1>2, <2>1
<1>6. Inherits(g, D, Int)
  <2>1. g[{}] \in Int
    BY <1>4 DEF IsFold
  <2>2. \A s \in SUBSET D : IF s = {} THEN g[s] \in Int ELSE \E x \in s : g[s \ {x}] \in Int => g[s] \in Int
    BY <1>5, <2>1
  <2>. QED  BY <2>2 DEF Inherits
<1>7. \A s \in SUBSET D : g[s] \in Int
  BY <1>6, FoldInherits
<1>8. ASSUME NEW s \in SUBSET D, s # {}
      PROVE  g[s] = v[CHOOSE x \in s : TRUE] + g[s \ {CHOOSE x \in s : TRUE}]
  <2>1. g[s] = step[pick[s]][g[s \ {pick[s]}]] /\ pick[s] \in D
    BY <1>1, <1>4, <1>8 DEF IsFold
  <2>2. g[s \ {pick[s]}] \in Int
    BY <1>7
  <2>3. g[s] = v[pick[s]] + g[s \ {pick[s]}]
    BY <1>2, <2>1, <2>2
  <2>. QED  BY <1>3, <2>3
<1>9. IsSum(g, D, v)
  <2>. DEFINE h == [s \in SUBSET D |->
            IF s = {} THEN 0 ELSE v[CHOOSE x \in s : TRUE] + g[s \ {CHOOSE x \in s : TRUE}]]
              k == [s \in SUBSET D |-> IF s = {} THEN 0 ELSE step[pick[s]][g[s \ {pick[s]}]]]
  <2>1. g = k
    BY <1>4 DEF IsFold
  <2>2. \A s \in SUBSET D : h[s] = k[s]
    <3>1. \A s \in SUBSET D : h[s] = g[s]
      <4>1. g[{}] = 0
        BY <1>4 DEF IsFold
      <4>. QED  BY <1>8, <4>1
    <3>. QED  BY <2>1, <3>1
  <2>3. h = k
    BY <2>2
  <2>. QED  BY <2>1, <2>3 DEF IsSum
<1>. QED  BY <1>9

LEMMA ScoreIsNat ==
  ASSUME NEW f, IsFiniteSet(DOMAIN f), \A i \in DOMAIN f : f[i] \in Nat
  PROVE  FoldFunction(+, 0, f) \in Nat
<1>. DEFINE D == DOMAIN f
            F(g) == g = [s \in SUBSET D |->
                            IF s = {} THEN 0 ELSE LET x == CHOOSE x \in s : TRUE IN f[x] + g[s \ {x}]]
<1>1. FoldFunction(+, 0, f) = (CHOOSE g : F(g))[D]
  BY DEF FoldFunction, FoldFunctionOnSet, MapThenFoldSet
<1>2. ASSUME NEW g PROVE F(g) <=> IsSum(g, D, f)
  BY DEF IsSum
<1>. HIDE DEF F
<1>3. \E g : F(g)
  BY <1>2, SumExists
<1>4. PICK g : g = CHOOSE h : F(h)
  OBVIOUS
<1>5. IsSum(g, D, f)
  BY <1>2, <1>3, <1>4
<1>6. \A s \in SUBSET D : g[s] \in Nat
  BY <1>5, SumType
<1>. QED  BY <1>1, <1>4, <1>6
=============================================================================
