-------------------------- MODULE PlayedRoundProofs --------------------------
(***************************************************************************)
(* Proofs about PlayedRound and the graders it runs, for every bank, every *)
(* term and answer and every value of the game's constants: first that the *)
(* similarities, scores and outcomes computed for an answer are what the   *)
(* rubric expects, then that of a played round, and of the scorer of all   *)
(* four slices (RubricScorer).                                             *)
(***************************************************************************)
EXTENDS PlayedRound, RubricScorer, GameRoundProofs, FiniteSetTheorems,
        WellFoundedInduction, TLAPS

-----------------------------------------------------------------------------
(* Least numbers, greatest fractions.                                      *)

LEMMA LeastOf ==
  ASSUME NEW S \in SUBSET Nat, S # {}
  PROVE  \E m \in S : \A n \in S : m <= n
<1>1. \E m \in S : \A n \in S : ~ (<<n, m>> \in OpToRel(<, Nat))
  BY NatLessThanWellFounded, WFMin
<1>2. PICK m \in S : \A n \in S : ~ (<<n, m>> \in OpToRel(<, Nat))
  BY <1>1
<1>3. ASSUME NEW n \in S PROVE m <= n
  <2>1. <<n, m>> \in Nat \X Nat /\ ~ (<<n, m>> \in OpToRel(<, Nat))
    BY <1>2
  <2>2. ~(<<n, m>>[1] < <<n, m>>[2])
    BY <2>1 DEF OpToRel
  <2>3. QED
    BY <2>2
<1>4. QED
  BY <1>3

Fraction == [hits : Nat, of : Nat \ {0}]

LEMMA CrossMultiply ==
  ASSUME NEW a \in Nat, NEW b \in Nat, NEW c \in Nat \ {0}, a * c >= b * c
  PROVE  a >= b
<1>1. ~(a < b)
  <2>1. SUFFICES ASSUME a < b PROVE FALSE
    OBVIOUS
  <2>2. PICK d \in Nat \ {0} : b = a + d
    <3>1. b - a \in Nat \ {0} /\ b = a + (b - a)
      BY <2>1
    <3>2. QED
      BY <3>1
  <2>3. b * c = a * c + d * c
    BY <2>2
  <2>4. d * c >= 1
    BY <2>2
  <2>5. a * c \in Nat /\ d * c \in Nat
    OBVIOUS
  <2>6. QED
    BY <2>3, <2>4, <2>5
<1>2. QED
  BY <1>1

LEMMA NoLessOrder ==
  /\ \A s, r \in Fraction : NoLess(s, r) \/ NoLess(r, s)
  /\ \A s, r, t \in Fraction : NoLess(s, r) /\ NoLess(r, t) => NoLess(s, t)
<1>1. ASSUME NEW s \in Fraction, NEW r \in Fraction PROVE NoLess(s, r) \/ NoLess(r, s)
  <2>1. s.hits * r.of \in Nat /\ r.hits * s.of \in Nat
    BY DEF Fraction
  <2>2. QED
    BY <2>1 DEF NoLess
<1>2. ASSUME NEW s \in Fraction, NEW r \in Fraction, NEW t \in Fraction,
             NoLess(s, r), NoLess(r, t)
      PROVE  NoLess(s, t)
  <2> DEFINE sh == s.hits  so == s.of  rh == r.hits  ro == r.of  th == t.hits  to == t.of
  <2>1. /\ sh \in Nat /\ rh \in Nat /\ th \in Nat
        /\ so \in Nat \ {0} /\ ro \in Nat \ {0} /\ to \in Nat \ {0}
    BY DEF Fraction
  <2>2. sh * ro >= rh * so /\ rh * to >= th * ro
    BY <1>2 DEF NoLess
  <2> HIDE DEF sh, so, rh, ro, th, to
  <2>3. (sh * ro) * to >= (rh * so) * to
    BY <2>1, <2>2
  <2>4. (rh * to) * so >= (th * ro) * so
    BY <2>1, <2>2
  <2>5. /\ (sh * ro) * to = (sh * to) * ro
        /\ (rh * so) * to = (rh * to) * so
        /\ (th * ro) * so = (th * so) * ro
    BY <2>1
  <2>6. /\ sh * to \in Nat /\ th * so \in Nat
        /\ (sh * to) * ro \in Nat /\ (rh * to) * so \in Nat /\ (th * so) * ro \in Nat
    BY <2>1
  <2>7. (sh * to) * ro >= (th * so) * ro
    BY <2>3, <2>4, <2>5, <2>6
  <2>8. sh * to >= th * so
    BY <2>1, <2>6, <2>7, CrossMultiply
  <2>9. QED
    BY <2>8 DEF NoLess, sh, so, th, to
<1>3. QED
  BY <1>1, <1>2

\* The greatest of finitely many fractions is one of them.
LEMMA GreatestAttained ==
  ASSUME NEW S \in SUBSET Fraction, IsFiniteSet(S), S # {}
  PROVE  Greatest(S) \in S /\ \A r \in S : NoLess(Greatest(S), r)
<1> DEFINE Above(s) == {r \in S : ~NoLess(s, r)}
           T == {Above(s) : s \in S}
<1>1. \E X \in T : \A Y \in T : ~ (<<Y, X>> \in StrictSubsetOrdering(S))
  <2>1. IsWellFoundedOn(StrictSubsetOrdering(S), SUBSET S)
    BY FS_StrictSubsetOrderingWellFounded, FS_FiniteSubsetsOfFinite
  <2>2. T \subseteq SUBSET S /\ T # {}
    OBVIOUS
  <2>3. QED
    BY <2>1, <2>2, WFMin
<1>2. PICK s \in S : \A r \in S : ~ (<<Above(r), Above(s)>> \in StrictSubsetOrdering(S))
  BY <1>1
<1>3. ASSUME NEW r \in Above(s) PROVE FALSE
  <2>1. r \in S /\ ~NoLess(s, r)
    OBVIOUS
  <2>2. Above(r) \subseteq Above(s)
    <3>1. SUFFICES ASSUME NEW t \in S, ~NoLess(r, t), NoLess(s, t) PROVE FALSE
      OBVIOUS
    <3>2. NoLess(t, r)
      BY <2>1, <3>1, NoLessOrder
    <3>3. NoLess(s, r)
      BY <2>1, <3>1, <3>2, NoLessOrder
    <3>4. QED
      BY <2>1, <3>3
  <2>3. r \notin Above(r)
    BY <2>1, NoLessOrder
  <2>4. Above(r) \subseteq S /\ Above(s) \subseteq S /\ Above(r) # Above(s)
    BY <2>3
  <2>5. <<Above(r), Above(s)>> \in StrictSubsetOrdering(S)
    <3> HIDE DEF Above
    <3>1. QED
      BY <2>2, <2>4 DEF StrictSubsetOrdering
  <2>6. QED
    BY <1>2, <2>1, <2>5
<1>4. \A r \in S : NoLess(s, r)
  BY <1>3
<1>5. QED
  BY <1>4 DEF Greatest

-----------------------------------------------------------------------------
(* Texts and their words.                                                  *)

LEMMA SubSeqsFinite ==
  ASSUME NEW X, NEW s \in Seq(X)
  PROVE  IsFiniteSet(SubSeqs(s))
<1> DEFINE D == (0..Len(s)) \X (0..Len(s))
           f == [p \in D |-> SubSeq(s, p[1] + 1, p[2])]
<1>1. IsFiniteSet(D)
  <2>1. IsFiniteSet(0..Len(s))
    <3>1. 0 \in Int /\ Len(s) \in Int
      OBVIOUS
    <3>2. QED
      BY <3>1, FS_Interval
  <2>2. QED
    BY <2>1, FS_Product
<1>2. f \in Surjection(D, SubSeqs(s))
  <2>1. ASSUME NEW p \in D PROVE f[p] \in SubSeqs(s)
    <3>1. PICK i \in 0..Len(s), j \in 0..Len(s) : p = <<i, j>>
      OBVIOUS
    <3>2. f[p] = SubSeq(s, i + 1, j)
      BY <3>1
    <3>3. SubSeq(s, i + 1, j) \in SubSeqs(s)
      BY DEF SubSeqs
    <3> HIDE DEF f, D
    <3>4. QED
      BY <3>2, <3>3
  <2>2. ASSUME NEW w \in SubSeqs(s) PROVE \E p \in D : f[p] = w
    <3>1. PICK i \in 0..Len(s), j \in 0..Len(s) : w = SubSeq(s, i + 1, j)
      BY DEF SubSeqs
    <3>2. <<i, j>> \in D /\ f[<<i, j>>] = w
      BY <3>1
    <3>3. QED
      BY <3>2
  <2>3. f \in [D -> SubSeqs(s)]
    BY <2>1
  <2> HIDE DEF f, D
  <2>4. QED
    BY <2>2, <2>3 DEF Surjection
<1>3. QED
  <2> HIDE DEF f, D
  <2>1. QED
    BY <1>1, <1>2, FS_Surjection

\* What normalize keeps of a text, and the rank of each index among them.
Kept(text_) ==
  {i \in DOMAIN text_ :
     \/ text_[i] # Blank
     \/ /\ i > 1 /\ text_[i - 1] # Blank
        /\ \E j \in DOMAIN text_ : j > i /\ text_[j] # Blank}

Rank(K, i) == Cardinality({j \in K : j <= i})

LEMMA RankRange ==
  ASSUME NEW K \in SUBSET Nat, IsFiniteSet(K)
  PROVE  /\ Cardinality(K) \in Nat
         /\ \A i \in K : Rank(K, i) \in 1..Cardinality(K)
         /\ \A i, j \in K : i < j => Rank(K, i) < Rank(K, j)
<1> DEFINE UpTo(i) == {k \in K : k <= i}
<1>1. Cardinality(K) \in Nat
  BY FS_CardinalityType
<1>2. ASSUME NEW i \in K
      PROVE  /\ IsFiniteSet(UpTo(i)) /\ Cardinality(UpTo(i)) \in Nat
             /\ Cardinality(UpTo(i)) <= Cardinality(K) /\ Cardinality(UpTo(i)) # 0
  <2>1. UpTo(i) \subseteq K /\ i \in UpTo(i)
    OBVIOUS
  <2> HIDE DEF UpTo
  <2>2. IsFiniteSet(UpTo(i)) /\ Cardinality(UpTo(i)) <= Cardinality(K)
    BY <2>1, FS_Subset
  <2>3. Cardinality(UpTo(i)) \in Nat
    BY <2>2, FS_CardinalityType
  <2>4. UpTo(i) # {}
    BY <2>1
  <2>5. Cardinality(UpTo(i)) # 0
    BY <2>2, <2>4, FS_EmptySet
  <2>6. QED
    BY <2>2, <2>3, <2>5
<1>3. ASSUME NEW i \in K, NEW j \in K, i < j
      PROVE  Cardinality(UpTo(i)) < Cardinality(UpTo(j))
  <2>1. UpTo(i) \subseteq UpTo(j) /\ j \in UpTo(j) /\ j \notin UpTo(i)
    <3>1. i \in Nat /\ j \in Nat /\ \A k \in K : k \in Nat
      OBVIOUS
    <3>2. \A k \in K : k <= i => k <= j
      BY <1>3, <3>1
    <3>3. ~(j <= i)
      BY <1>3, <3>1
    <3>4. j <= j
      BY <3>1
    <3>5. QED
      BY <3>2, <3>3, <3>4
  <2>2. IsFiniteSet(UpTo(j)) /\ Cardinality(UpTo(i)) \in Nat /\ Cardinality(UpTo(j)) \in Nat
    BY <1>2
  <2> HIDE DEF UpTo
  <2>3. Cardinality(UpTo(i)) <= Cardinality(UpTo(j)) /\ Cardinality(UpTo(i)) # Cardinality(UpTo(j))
    BY <2>1, <2>2, FS_Subset
  <2>4. QED
    BY <2>2, <2>3
<1>4. QED
  BY <1>1, <1>2, <1>3 DEF Rank

\* Every rank is taken.
LEMMA RankTaken ==
  ASSUME NEW K \in SUBSET Nat, IsFiniteSet(K), NEW n \in 1..Cardinality(K)
  PROVE  \E i \in K : Rank(K, i) = n
<1> DEFINE N == 1..Cardinality(K)
           f == [i \in K |-> Rank(K, i)]
<1>1. f \in [K -> N]
  BY RankRange
<1>2. ASSUME NEW i \in K, NEW j \in K, f[i] = f[j] PROVE i = j
  <2>1. Rank(K, i) = Rank(K, j) /\ Rank(K, i) \in Nat
    BY <1>2, RankRange
  <2>2. ~(i < j) /\ ~(j < i)
    BY <2>1, RankRange
  <2>3. QED
    BY <2>2
<1>3. IsFiniteSet(N) /\ Cardinality(N) = Cardinality(K)
  <2>1. Cardinality(K) \in Nat
    BY FS_CardinalityType
  <2>2. QED
    BY <2>1, UpToIsFinite
<1>4. f \in Injection(K, N)
  <2> HIDE DEF f, N
  <2>1. QED
    BY <1>1, <1>2 DEF Injection, IsInjective
<1>5. f \in Surjection(K, N)
  <2> HIDE DEF f, N
  <2>1. QED
    BY <1>3, <1>4, FS_Injection
<1>6. QED
  BY <1>5 DEF Surjection

LEMMA NormalizeType ==
  ASSUME NEW text_ \in Text
  PROVE  /\ normalize(text_) \in Text
         /\ normalize(text_) # << >> => normalize(text_)[1] # Blank
<1> DEFINE K == Kept(text_)
           At(n) == CHOOSE i \in K : Rank(K, i) = n
<1>1. K \in SUBSET Nat /\ K \subseteq 1..Len(text_) /\ IsFiniteSet(K)
  <2>1. K \subseteq 1..Len(text_)
    BY DEF Kept, Text
  <2>2. IsFiniteSet(1..Len(text_))
    <3>1. Len(text_) \in Nat
      BY DEF Text
    <3>2. QED
      BY <3>1, UpToIsFinite
  <2>3. QED
    BY <2>1, <2>2, FS_Subset
<1>2. normalize(text_) = [n \in 1..Cardinality(K) |-> text_[At(n)]]
  BY DEF normalize, Kept, Rank
<1>3. Cardinality(K) \in Nat
  BY <1>1, FS_CardinalityType
<1>4. \A n \in 1..Cardinality(K) : At(n) \in K /\ Rank(K, At(n)) = n
  BY <1>1, RankTaken
<1>5. \A i \in K : text_[i] \in Letter \cup {Blank}
  BY <1>1 DEF Text
<1>6. normalize(text_) \in Text
  <2> HIDE DEF K, At
  <2>1. QED
    BY <1>2, <1>3, <1>4, <1>5 DEF Text
<1>7. ASSUME normalize(text_) # << >> PROVE normalize(text_)[1] # Blank
  <2>1. Cardinality(K) >= 1
    BY <1>2, <1>3, <1>7
  <2>2. At(1) \in K /\ Rank(K, At(1)) = 1 /\ normalize(text_)[1] = text_[At(1)]
    BY <1>2, <1>3, <1>4, <2>1
  <2> DEFINE i == At(1)
  <2> HIDE DEF At
  <2>3. SUFFICES ASSUME text_[i] = Blank PROVE FALSE
    BY <2>2
  <2>4. i > 1 /\ text_[i - 1] # Blank /\ i \in 1..Len(text_)
    BY <1>1, <2>2, <2>3 DEF Kept
  <2>5. i - 1 \in K /\ i - 1 < i
    BY <2>4 DEF Kept, Text
  <2>6. Rank(K, i - 1) < Rank(K, i) /\ Rank(K, i - 1) \in 1..Cardinality(K)
    <3> HIDE DEF K
    <3>1. QED
      BY <1>1, <2>2, <2>5, RankRange
  <2>7. QED
    BY <2>2, <2>6
<1>8. QED
  BY <1>6, <1>7

\* A normalized text has a word unless it is empty.
LEMMA WordsOf ==
  ASSUME NEW g \in Text
  PROVE  /\ IsFiniteSet(words(g)) /\ Cardinality(words(g)) \in Nat
         /\ g # << >> /\ g[1] # Blank => Cardinality(words(g)) # 0
<1>1. IsFiniteSet(words(g))
  <2>1. words(g) \subseteq SubSeqs(g)
    BY DEF words
  <2>2. IsFiniteSet(SubSeqs(g))
    BY SubSeqsFinite DEF Text
  <2>3. QED
    BY <2>1, <2>2, FS_Subset
<1>2. ASSUME g # << >>, g[1] # Blank PROVE words(g) # {}
  <2> DEFINE padded == <<Blank>> \o g \o <<Blank>>
             Ends   == {m \in 1..Len(g) + 1 : m = Len(g) + 1 \/ g[m] = Blank}
  <2>1. Len(g) \in Nat /\ Len(g) # 0
    BY <1>2 DEF Text
  <2>2. Ends \in SUBSET Nat /\ Len(g) + 1 \in Ends
    BY <2>1
  <2>3. PICK n \in Ends : \A m \in Ends : n <= m
    <3> HIDE DEF Ends
    <3>1. QED
      BY <2>2, LeastOf
  <2>4. n \in 2..Len(g) + 1
    BY <1>2, <2>1, <2>3
  <2> DEFINE w == SubSeq(g, 1, n - 1)
  <2>5. /\ w \in Text /\ Len(w) = n - 1
        /\ \A k \in 1..n - 1 : w[k] = g[k] /\ g[k] # Blank
    BY <2>1, <2>3, <2>4 DEF Text
  <2>6. w \in SubSeqs(g)
    <3>1. 0 \in 0..Len(g) /\ n - 1 \in 0..Len(g) /\ w = SubSeq(g, 0 + 1, n - 1)
      BY <2>1, <2>4
    <3>2. \A i, j \in 0..Len(g) : SubSeq(g, i + 1, j) \in SubSeqs(g)
      BY DEF SubSeqs
    <3>3. QED
      BY <3>1, <3>2
  <2>7. w # << >> /\ Blank \notin ToSet(w)
    BY <2>4, <2>5 DEF ToSet
  <2>8. /\ padded \in Seq(Letter \cup {Blank}) /\ Len(padded) = Len(g) + 2
        /\ padded[1] = Blank /\ padded[Len(g) + 2] = Blank
        /\ \A k \in 1..Len(g) : padded[k + 1] = g[k]
    BY <2>1 DEF Text
  <2>9. padded[n + 1] = Blank
    BY <2>1, <2>3, <2>4, <2>8
  <2>10. <<Blank>> \o w \o <<Blank>> = SubSeq(padded, 1, n + 1)
    <3> DEFINE v == <<Blank>> \o w \o <<Blank>>
               u == SubSeq(padded, 1, n + 1)
    <3>1. /\ v \in Seq(Letter \cup {Blank}) /\ Len(v) = n + 1
          /\ v[1] = Blank /\ v[n + 1] = Blank
          /\ \A k \in 1..n - 1 : v[k + 1] = w[k]
      <4> HIDE DEF w
      <4>1. QED
        BY <2>4, <2>5 DEF Text
    <3>2. /\ u \in Seq(Letter \cup {Blank}) /\ Len(u) = n + 1
          /\ \A k \in 1..n + 1 : u[k] = padded[k]
      <4> HIDE DEF padded
      <4>1. QED
        BY <2>1, <2>4, <2>8
    <3>3. ASSUME NEW k \in 1..n + 1 PROVE v[k] = u[k]
      <4> HIDE DEF v, u, padded, w
      <4>1. CASE k = 1
        BY <2>8, <3>1, <3>2, <4>1, <2>4
      <4>2. CASE k = n + 1
        BY <2>9, <3>1, <3>2, <4>2
      <4>3. CASE k \in 2..n
        <5>1. k - 1 \in 1..n - 1 /\ k - 1 \in 1..Len(g) /\ k = (k - 1) + 1
          BY <2>4, <4>3
        <5>2. v[k] = w[k - 1] /\ u[k] = padded[k] /\ padded[k] = g[k - 1] /\ w[k - 1] = g[k - 1]
          BY <2>5, <2>8, <3>1, <3>2, <5>1
        <5>3. QED
          BY <5>2
      <4>4. QED
        BY <2>4, <4>1, <4>2, <4>3
    <3>4. QED
      <4> HIDE DEF v, u
      <4>1. v = u
        BY <3>1, <3>2, <3>3
      <4>2. QED
        BY <4>1 DEF v, u
  <2>11. SubSeq(padded, 1, n + 1) \in SubSeqs(padded)
    <3> HIDE DEF padded
    <3>1. 0 \in 0..Len(padded) /\ n + 1 \in 0..Len(padded)
      BY <2>1, <2>4, <2>8
    <3>2. SubSeq(padded, 0 + 1, n + 1) \in SubSeqs(padded)
      BY <3>1 DEF SubSeqs
    <3>3. QED
      BY <3>2
  <2>12. w \in words(g)
    BY <2>6, <2>7, <2>10, <2>11 DEF words
  <2>13. QED
    BY <2>12
<1>3. QED
  BY <1>1, <1>2, FS_CardinalityType, FS_EmptySet

-----------------------------------------------------------------------------
(* Similarities.                                                           *)

\* A similarity is a fraction of one at most, and 1 of equal texts that are
\* not empty: no text that normalization leaves something of has no words.
LEMMA SimilarityIsFraction ==
  ASSUME NEW answer \in Text, NEW target \in Text
  PROVE  /\ token_similarity(answer, target) \in Fraction
         /\ token_similarity(answer, target).hits <= token_similarity(answer, target).of
         /\ normalize(answer) = normalize(target) /\ normalize(answer) # << >> =>
              token_similarity(answer, target) = [hits |-> 1, of |-> 1]
<1> DEFINE given  == normalize(answer)
           wanted == normalize(target)
           hits   == words(given) \cap words(wanted)
           longer == Longer(words(given), words(wanted))
           sim    == token_similarity(answer, target)
<1>1. /\ given \in Text /\ wanted \in Text
      /\ given # << >> => given[1] # Blank
      /\ wanted # << >> => wanted[1] # Blank
  BY NormalizeType
<1>2. /\ IsFiniteSet(words(given)) /\ Cardinality(words(given)) \in Nat
      /\ IsFiniteSet(words(wanted)) /\ Cardinality(words(wanted)) \in Nat
      /\ given # << >> => Cardinality(words(given)) # 0
      /\ wanted # << >> => Cardinality(words(wanted)) # 0
  <2> HIDE DEF given, wanted
  <2>1. \A g \in Text : /\ IsFiniteSet(words(g)) /\ Cardinality(words(g)) \in Nat
                        /\ g # << >> /\ g[1] # Blank => Cardinality(words(g)) # 0
    BY WordsOf
  <2>2. QED
    BY <1>1, <2>1
<1>3. /\ hits \subseteq words(given) /\ hits \subseteq words(wanted)
      /\ longer \in {words(given), words(wanted)}
  BY DEF Longer
<1> HIDE DEF hits
<1>4. /\ Cardinality(hits) \in Nat
      /\ Cardinality(hits) <= Cardinality(words(given))
      /\ Cardinality(hits) <= Cardinality(words(wanted))
  BY <1>2, <1>3, FS_Subset, FS_CardinalityType
<1>5. sim = IF given = << >> \/ wanted = << >> THEN [hits |-> 0, of |-> 1]
            ELSE IF given = wanted THEN [hits |-> 1, of |-> 1]
            ELSE IF given \in SubSeqs(wanted) \/ wanted \in SubSeqs(given)
            THEN [hits |-> 88, of |-> 100]
            ELSE [hits |-> Cardinality(hits), of |-> Cardinality(longer)]
  BY DEF token_similarity, hits, SUBSTRING_SIMILARITY
<1> HIDE DEF sim, given, wanted, longer
<1>6. CASE given = << >> \/ wanted = << >>
  BY <1>5, <1>6 DEF Fraction, sim, given, wanted
<1>7. CASE given # << >> /\ wanted # << >>
  <2>1. CASE given = wanted
    BY <1>5, <1>7, <2>1 DEF Fraction, sim, given, wanted
  <2>2. CASE given # wanted
    <3>1. /\ Cardinality(longer) \in Nat \ {0}
          /\ Cardinality(hits) <= Cardinality(longer)
      BY <1>2, <1>3, <1>4, <1>7
    <3>2. sim \in Fraction /\ sim.hits <= sim.of
      <4>1. CASE given \in SubSeqs(wanted) \/ wanted \in SubSeqs(given)
        BY <1>5, <1>7, <2>2, <4>1 DEF Fraction
      <4>2. CASE ~(given \in SubSeqs(wanted) \/ wanted \in SubSeqs(given))
        <5>1. sim = [hits |-> Cardinality(hits), of |-> Cardinality(longer)]
          BY <1>5, <1>7, <2>2, <4>2
        <5>2. QED
          BY <1>4, <3>1, <5>1 DEF Fraction
      <4>3. QED
        BY <4>1, <4>2
    <3>3. QED
      BY <2>2, <3>2 DEF sim, given, wanted
  <2>3. QED
    BY <2>1, <2>2
<1>8. QED
  BY <1>6, <1>7

\* The elements of a sequence are finitely many, and so are their images.
LEMMA ImagesFinite ==
  ASSUME NEW n \in Nat, NEW S, NEW f \in [1..n -> S], \A x \in S : \E i \in 1..n : f[i] = x
  PROVE  IsFiniteSet(S)
<1>1. IsFiniteSet(1..n)
  BY UpToIsFinite
<1>2. f \in Surjection(1..n, S)
  BY DEF Surjection
<1>3. QED
  BY <1>1, <1>2, FS_Surjection

\* The best similarity is that of one of the expansions, and no less than any.
LEMMA BestIsFraction ==
  ASSUME NEW answer \in Text, NEW expansions \in Seq(Text) \ {<< >>}
  PROVE  /\ Best(answer, expansions) \in Fraction
         /\ Best(answer, expansions).hits <= Best(answer, expansions).of
         /\ \A i \in DOMAIN expansions :
              NoLess(Best(answer, expansions), token_similarity(answer, expansions[i]))
<1> DEFINE S == {token_similarity(answer, x) : x \in ToSet(expansions)}
           f == [i \in 1..Len(expansions) |-> token_similarity(answer, expansions[i])]
<1>1. /\ Len(expansions) \in Nat /\ Len(expansions) # 0
      /\ DOMAIN expansions = 1..Len(expansions)
      /\ \A i \in 1..Len(expansions) : expansions[i] \in Text
  OBVIOUS
<1>2. \A x \in ToSet(expansions) : \E i \in 1..Len(expansions) : x = expansions[i]
  BY <1>1 DEF ToSet
<1>3. \A i \in 1..Len(expansions) : f[i] \in S
  BY <1>1 DEF ToSet
<1>4. \A s \in S : \E i \in 1..Len(expansions) : f[i] = s
  BY <1>2
<1>5. IsFiniteSet(S)
  <2>1. f \in [1..Len(expansions) -> S]
    BY <1>3
  <2> HIDE DEF S, f
  <2>2. QED
    BY <1>1, <1>4, <2>1, ImagesFinite
<1>6. \A s \in S : s \in Fraction /\ s.hits <= s.of
  <2>1. SUFFICES ASSUME NEW i \in 1..Len(expansions)
                 PROVE  /\ token_similarity(answer, expansions[i]) \in Fraction
                        /\ token_similarity(answer, expansions[i]).hits
                             <= token_similarity(answer, expansions[i]).of
    BY <1>2
  <2>2. QED
    BY <1>1, SimilarityIsFraction
<1>7. S # {}
  BY <1>1, <1>3
<1>8. Greatest(S) \in S /\ \A r \in S : NoLess(Greatest(S), r)
  <2> HIDE DEF S
  <2>1. QED
    BY <1>5, <1>6, <1>7, GreatestAttained
<1>9. Best(answer, expansions) = Greatest(S)
  BY DEF Best
<1>10. \A i \in DOMAIN expansions : token_similarity(answer, expansions[i]) \in S
  BY <1>1, <1>3
<1>11. QED
  <2> HIDE DEF S
  <2>1. QED
    BY <1>6, <1>8, <1>9, <1>10
-----------------------------------------------------------------------------
(* Outcomes.                                                               *)

\* int() of a share of the points: at least one from FUZZY_PARTIAL_THRESHOLD on,
\* and not all below FUZZY_ACCEPT_THRESHOLD.
LEMMA PartialPoints ==
  ASSUME NEW s \in Fraction, AtLeast(s, FUZZY_PARTIAL_THRESHOLD),
         ~AtLeast(s, FUZZY_ACCEPT_THRESHOLD)
  PROVE  (EXPANSION_WEIGHT * s.hits) \div s.of \in 1..EXPANSION_WEIGHT - 1
<1> DEFINE h == s.hits  of == s.of  W == EXPANSION_WEIGHT  q == (W * h) \div of
<1>1. h \in Nat /\ of \in Nat \ {0} /\ W \in Nat
  BY GradingConstants DEF Fraction
<1>2. h * 100 >= 40 * of /\ ~(h * 100 >= 62 * of) /\ W * 40 >= 100
  BY RubricWeights DEF AtLeast, NoLess, FUZZY_PARTIAL_THRESHOLD, FUZZY_ACCEPT_THRESHOLD
<1> HIDE DEF h, of, W
<1>3. W * h \in Nat /\ q \in Int /\ q * of <= W * h /\ W * h < (q + 1) * of
  BY <1>1
<1>4. W # 0
  BY <1>1, <1>2
<1>5. h < of
  BY <1>1, <1>2
<1>6. W * h >= of
  <2>1. W * (h * 100) >= W * (40 * of)
    BY <1>1, <1>2
  <2>2. (W * 40) * of >= 100 * of
    BY <1>1, <1>2
  <2>3. W * (h * 100) = 100 * (W * h) /\ W * (40 * of) = (W * 40) * of
    BY <1>1
  <2>4. 100 * (W * h) >= 100 * of
    BY <1>1, <1>3, <2>1, <2>2, <2>3
  <2>5. QED
    BY <1>1, <1>3, <2>4
<1> HIDE DEF q
<1>7. q >= 1
  <2>1. SUFFICES ASSUME q <= 0 PROVE FALSE
    BY <1>3
  <2>2. (q + 1) * of <= of
    BY <1>1, <1>3, <2>1
  <2>3. QED
    BY <1>1, <1>3, <1>6, <2>2
<1>8. q < W
  <2>1. SUFFICES ASSUME q >= W PROVE FALSE
    BY <1>1, <1>3
  <2>2. q * of >= W * of
    BY <1>1, <1>3, <2>1
  <2>3. W * of > W * h
    BY <1>1, <1>4, <1>5
  <2>4. QED
    BY <1>1, <1>3, <2>2, <2>3
<1>9. QED
  BY <1>1, <1>3, <1>7, <1>8 DEF q, W, h, of

Answerable == Seq(Text) \ {<< >>}

\* What ScoresFollowVerdicts says of an outcome, and ShortcutsSound of the
\* outcome of an answer.
FairScore(o) ==
  LET points == total(o.rubric) IN
    IF o.matched_via = "LLM_RUBRIC"
    THEN o.verdict = "CORRECT" => o.rubric.concept > 0
    ELSE /\ o.verdict = "CORRECT"   => points = EXPANSION_WEIGHT
         /\ o.verdict = "PARTIAL"   => points \in 1..EXPANSION_WEIGHT - 1
         /\ o.verdict = "INCORRECT" => points = 0

SoundShortcut(o, answer, expansions) ==
  o.matched_via \in {"EXACT", "ALIAS"} =>
    \/ normalize(answer) = << >>
    \/ FuzzyGrader(answer, expansions).verdict = "CORRECT"

\* The rubrics and the points of the deterministic graders.
LEMMA DeterministicRubrics ==
  /\ zero \in RubricBreakdown /\ total(zero) = 0
  /\ expansion_only \in RubricBreakdown /\ total(expansion_only) = EXPANSION_WEIGHT
<1>1. /\ CONCEPT_WEIGHT \in Nat /\ EXPANSION_WEIGHT \in Nat
      /\ PURPOSE_WEIGHT \in Nat /\ EXAMPLE_WEIGHT \in Nat
  BY GradingConstants
<1>2. QED
  BY <1>1 DEF zero, expansion_only, RubricBreakdown, total

LEMMA PartialRubricOf ==
  ASSUME NEW s \in Fraction, AtLeast(s, FUZZY_PARTIAL_THRESHOLD),
         ~AtLeast(s, FUZZY_ACCEPT_THRESHOLD)
  PROVE  /\ PartialRubric(s) \in RubricBreakdown
         /\ total(PartialRubric(s)) \in 1..EXPANSION_WEIGHT - 1
<1> DEFINE q == (EXPANSION_WEIGHT * s.hits) \div s.of
<1>1. q \in 1..EXPANSION_WEIGHT - 1
  BY PartialPoints
<1>2. /\ CONCEPT_WEIGHT \in Nat /\ EXPANSION_WEIGHT \in Nat
      /\ PURPOSE_WEIGHT \in Nat /\ EXAMPLE_WEIGHT \in Nat
  BY GradingConstants
<1>3. PartialRubric(s) = [concept |-> 0, expansion |-> q, purpose |-> 0, example |-> 0]
  BY DEF PartialRubric, zero
<1> HIDE DEF q
<1>4. QED
  BY <1>1, <1>2, <1>3 DEF RubricBreakdown, total

\* The last grader of the chain has an opinion of every answer.
LEMMA FuzzyOutcome ==
  ASSUME NEW answer \in Text, NEW expansions \in Answerable
  PROVE  LET o == FuzzyGrader(answer, expansions) IN
           o \in GradeOutcomes /\ o.matched_via = "FUZZY" /\ FairScore(o)
<1> DEFINE best == Best(answer, expansions)  o == FuzzyGrader(answer, expansions)
<1>1. best \in Fraction
  BY BestIsFraction DEF Answerable
<1>2. o = IF AtLeast(best, FUZZY_ACCEPT_THRESHOLD)
          THEN Outcome("CORRECT", expansion_only, "FUZZY")
          ELSE IF AtLeast(best, FUZZY_PARTIAL_THRESHOLD)
          THEN Outcome("PARTIAL", PartialRubric(best), "FUZZY")
          ELSE Outcome("INCORRECT", zero, "FUZZY")
  BY DEF FuzzyGrader
<1> HIDE DEF best, o
<1>3. CASE AtLeast(best, FUZZY_ACCEPT_THRESHOLD)
  BY <1>2, <1>3, DeterministicRubrics DEF Outcome, GradeOutcomes, Verdict, FairScore, o
<1>4. CASE ~AtLeast(best, FUZZY_ACCEPT_THRESHOLD) /\ AtLeast(best, FUZZY_PARTIAL_THRESHOLD)
  <2>1. /\ PartialRubric(best) \in RubricBreakdown
        /\ total(PartialRubric(best)) \in 1..EXPANSION_WEIGHT - 1
    BY <1>1, <1>4, PartialRubricOf
  <2>2. QED
    BY <1>2, <1>4, <2>1 DEF Outcome, GradeOutcomes, Verdict, FairScore, o
<1>5. CASE ~AtLeast(best, FUZZY_ACCEPT_THRESHOLD) /\ ~AtLeast(best, FUZZY_PARTIAL_THRESHOLD)
  BY <1>2, <1>5, DeterministicRubrics DEF Outcome, GradeOutcomes, Verdict, FairScore, o
<1>6. QED
  BY <1>3, <1>4, <1>5

\* An answer that equals an expansion, once normalized and not empty, is
\* correct to the last grader.
LEMMA EqualIsCorrect ==
  ASSUME NEW answer \in Text, NEW expansions \in Answerable,
         NEW i \in DOMAIN expansions,
         normalize(answer) = normalize(expansions[i]), normalize(answer) # << >>
  PROVE  FuzzyGrader(answer, expansions).verdict = "CORRECT"
<1> DEFINE best == Best(answer, expansions)
<1>1. best \in Fraction /\ NoLess(best, token_similarity(answer, expansions[i]))
  BY BestIsFraction DEF Answerable
<1>2. expansions[i] \in Text
  BY DEF Answerable
<1>3. token_similarity(answer, expansions[i]) = [hits |-> 1, of |-> 1]
  BY <1>2, SimilarityIsFraction
<1> HIDE DEF best
<1>4. best.hits \in Nat /\ best.of \in Nat /\ best.hits >= best.of
  BY <1>1, <1>3 DEF NoLess, Fraction
<1>5. AtLeast(best, FUZZY_ACCEPT_THRESHOLD)
  BY <1>4 DEF AtLeast, NoLess, FUZZY_ACCEPT_THRESHOLD
<1>6. QED
  BY <1>5 DEF FuzzyGrader, Outcome, best

\* What one step of the chain comes to.
LEMMA GradeIsFair ==
  ASSUME NEW grader \in {"FLAGGED", "EXACT", "ALIAS", "FUZZY"},
         NEW answer \in Text, NEW expansions \in Answerable
  PROVE  LET o == grade(grader, answer, expansions) IN
           \/ o = Abstains /\ grader # "FUZZY"
           \/ /\ o \in GradeOutcomes /\ o.matched_via # "LLM_RUBRIC"
              /\ FairScore(o) /\ SoundShortcut(o, answer, expansions)
<1> DEFINE o == grade(grader, answer, expansions)
<1>1. CASE grader = "FLAGGED"
  <2>1. o = ProfanityGrader(answer)
    BY <1>1 DEF grade
  <2>2. QED
    BY <1>1, <2>1, DeterministicRubrics
    DEF ProfanityGrader, Outcome, GradeOutcomes, Verdict, FairScore, SoundShortcut
<1>2. CASE grader = "EXACT"
  <2>1. o = ExactGrader(answer, expansions)
    BY <1>2 DEF grade
  <2>2. CASE normalize(answer) = normalize(expansions[1])
    <3>1. o = Outcome("CORRECT", expansion_only, "EXACT")
      BY <2>1, <2>2 DEF ExactGrader
    <3>2. 1 \in DOMAIN expansions
      BY DEF Answerable
    <3>3. normalize(answer) # << >> => FuzzyGrader(answer, expansions).verdict = "CORRECT"
      BY <2>2, <3>2, EqualIsCorrect
    <3>4. o \in GradeOutcomes /\ o.matched_via = "EXACT" /\ FairScore(o)
      BY <3>1, DeterministicRubrics DEF Outcome, GradeOutcomes, Verdict, FairScore
    <3>5. QED
      BY <3>3, <3>4 DEF SoundShortcut
  <2>3. CASE normalize(answer) # normalize(expansions[1])
    BY <1>2, <2>1, <2>3 DEF ExactGrader
  <2>4. QED
    BY <2>2, <2>3
<1>3. CASE grader = "ALIAS"
  <2>1. o = AliasGrader(answer, expansions)
    BY <1>3 DEF grade
  <2>2. CASE \E i \in 2..Len(expansions) : normalize(answer) = normalize(expansions[i])
    <3>1. o = Outcome("CORRECT", expansion_only, "ALIAS")
      BY <2>1, <2>2 DEF AliasGrader
    <3>2. \E i \in DOMAIN expansions : normalize(answer) = normalize(expansions[i])
      BY <2>2 DEF Answerable
    <3>3. normalize(answer) # << >> => FuzzyGrader(answer, expansions).verdict = "CORRECT"
      BY <3>2, EqualIsCorrect
    <3>4. o \in GradeOutcomes /\ o.matched_via = "ALIAS" /\ FairScore(o)
      BY <3>1, DeterministicRubrics DEF Outcome, GradeOutcomes, Verdict, FairScore
    <3>5. QED
      BY <3>3, <3>4 DEF SoundShortcut
  <2>3. CASE ~ \E i \in 2..Len(expansions) : normalize(answer) = normalize(expansions[i])
    BY <1>3, <2>1, <2>3 DEF AliasGrader
  <2>4. QED
    BY <2>2, <2>3
<1>4. CASE grader = "FUZZY"
  <2>1. o = FuzzyGrader(answer, expansions)
    BY <1>4 DEF grade
  <2>2. QED
    BY <2>1, FuzzyOutcome DEF SoundShortcut
<1>5. QED
  BY <1>1, <1>2, <1>3, <1>4

\* The judge's outcome is in the rubric, whatever scores it replied with, and a
\* correct answer shows something of the concept.
LEMMA JudgeIsFair ==
  ASSUME NEW raw \in RawJudgment
  PROVE  LLMGrade(raw) \in GradeOutcomes /\ LLMGrade(raw).matched_via = "LLM_RUBRIC"
         /\ FairScore(LLMGrade(raw))
<1> DEFINE o == LLMGrade(raw)  r == judge(raw)
<1>1. /\ CONCEPT_WEIGHT \in Nat /\ EXPANSION_WEIGHT \in Nat
      /\ PURPOSE_WEIGHT \in Nat /\ EXAMPLE_WEIGHT \in Nat
  BY GradingConstants
<1>2. \A n \in Int, w \in Nat : clamped_score(n, w) \in 0..w
  BY DEF clamped_score
<1>3. r \in RubricBreakdown
  BY <1>1, <1>2 DEF judge, RubricBreakdown, RawJudgment
<1> HIDE DEF r
<1>4. /\ o.rubric = r /\ o.matched_via = "LLM_RUBRIC" /\ o.verdict \in Verdict
      /\ o = [verdict |-> o.verdict, rubric |-> o.rubric, matched_via |-> o.matched_via]
      /\ o.verdict = "CORRECT" => ~(total(r) < CORRECT_SCORE_THRESHOLD)
  BY DEF LLMGrade, Outcome, Verdict, r
<1> HIDE DEF o
<1>5. o \in GradeOutcomes
  BY <1>3, <1>4 DEF GradeOutcomes
<1>6. ASSUME o.verdict = "CORRECT" PROVE r.concept > 0
  BY <1>1, <1>3, <1>4, <1>6, RubricWeights
  DEF RubricBreakdown, total, CORRECT_SCORE_THRESHOLD
<1>7. QED
  BY <1>4, <1>5, <1>6 DEF FairScore, o

-----------------------------------------------------------------------------
(* The scorer of all four slices.                                          *)

LEMMA NearestWithin ==
  ASSUME NEW m \in Nat, NEW hits \in Nat, NEW of \in Nat \ {0}, hits <= m * of
  PROVE  Nearest(hits, of) \in 0..m
<1> DEFINE n == hits \div of  r == hits % of
<1>1. /\ n \in Nat /\ r \in Nat /\ r < of /\ hits = n * of + r
  <2>1. n \in Int /\ n * of <= hits /\ hits < (n + 1) * of /\ r = hits - n * of
    OBVIOUS
  <2> HIDE DEF n, r
  <2>2. n >= 0
    <3>1. SUFFICES ASSUME n + 1 <= 0 PROVE FALSE
      BY <2>1
    <3>2. (n + 1) * of <= 0
      BY <2>1, <3>1
    <3>3. QED
      BY <2>1, <3>2
  <2>3. n * of \in Int /\ (n + 1) * of = n * of + of
    BY <2>1
  <2>4. QED
    BY <2>1, <2>2, <2>3
<1>2. Nearest(hits, of) = IF 2 * r > of \/ (2 * r = of /\ n % 2 = 1) THEN n + 1 ELSE n
  BY DEF Nearest
<1> HIDE DEF n, r
<1>3. CASE n < m
  BY <1>1, <1>2, <1>3
<1>4. CASE n >= m
  <2>1. n * of >= m * of /\ n * of \in Nat /\ m * of \in Nat
    BY <1>1, <1>4
  <2>2. r = 0 /\ n * of = m * of
    BY <1>1, <2>1
  <2>3. n <= m
    BY <1>1, <2>1, <2>2, CrossMultiply
  <2>4. QED
    BY <1>1, <1>2, <1>4, <2>2, <2>3
<1>5. QED
  BY <1>1, <1>3, <1>4

LEMMA NearestShare ==
  ASSUME NEW m \in Nat, NEW s \in Fraction, s.hits <= s.of
  PROVE  /\ Nearest(m * s.hits, s.of) \in 0..m
         /\ Nearest(m * (s.of + s.hits), 2 * s.of) \in 0..m
<1> DEFINE h == s.hits  of == s.of
<1>1. h \in Nat /\ of \in Nat \ {0} /\ h <= of
  BY DEF Fraction
<1> HIDE DEF h, of
<1>2. m * h \in Nat /\ m * h <= m * of
  BY <1>1
<1>3. Nearest(m * h, of) \in 0..m
  BY <1>1, <1>2, NearestWithin
<1>4. /\ m * (of + h) \in Nat /\ 2 * of \in Nat \ {0}
      /\ m * (of + h) <= m * (2 * of)
  BY <1>1
<1>5. Nearest(m * (of + h), 2 * of) \in 0..m
  BY <1>1, <1>4, NearestWithin
<1>6. QED
  BY <1>3, <1>5 DEF h, of

LEMMA OverlapIsFraction ==
  ASSUME NEW answer \in Text, NEW target \in Text
  PROVE  overlap(answer, target) \in Fraction
         /\ overlap(answer, target).hits <= overlap(answer, target).of
<1> DEFINE C == content_words(target)  H == content_words(answer) \cap C
<1>1. IsFiniteSet(C)
  <2>1. normalize(target) \in Text
    BY NormalizeType
  <2>2. IsFiniteSet(words(normalize(target))) 
    BY <2>1, WordsOf
  <2>3. C \subseteq words(normalize(target))
    BY DEF content_words
  <2>4. QED
    BY <2>2, <2>3, FS_Subset
<1>2. H \subseteq C
  OBVIOUS
<1>3. overlap(answer, target) = IF C = {} THEN [hits |-> 0, of |-> 1]
                                ELSE [hits |-> Cardinality(H), of |-> Cardinality(C)]
  BY DEF overlap
<1> HIDE DEF C, H
<1>4. /\ Cardinality(C) \in Nat /\ Cardinality(H) \in Nat
      /\ Cardinality(H) <= Cardinality(C)
  BY <1>1, <1>2, FS_Subset, FS_CardinalityType
<1>5. C # {} => Cardinality(C) # 0
  BY <1>1, FS_EmptySet
<1>6. QED
  BY <1>3, <1>4, <1>5 DEF Fraction

LEMMA GroundingIsFraction ==
  ASSUME NEW answer \in Text, NEW term_ \in Knowledge
  PROVE  Grounding(answer, term_) \in Fraction
         /\ Grounding(answer, term_).hits <= Grounding(answer, term_).of
<1> DEFINE defs == term_.definitions
           S == {overlap(answer, d) : d \in ToSet(defs)}
           f == [i \in 1..Len(defs) |-> overlap(answer, defs[i])]
           best == Greatest(S)
<1>1. /\ Len(defs) \in Nat /\ Len(defs) # 0 /\ DOMAIN defs = 1..Len(defs)
      /\ \A i \in 1..Len(defs) : defs[i] \in Text
  BY DEF Knowledge
<1>2. \A x \in ToSet(defs) : \E i \in 1..Len(defs) : x = defs[i]
  BY <1>1 DEF ToSet
<1>3. \A i \in 1..Len(defs) : f[i] \in S
  BY <1>1 DEF ToSet
<1>4. \A s \in S : \E i \in 1..Len(defs) : f[i] = s
  BY <1>2
<1>5. \A s \in S : s \in Fraction
  <2>1. \A i \in 1..Len(defs) : overlap(answer, defs[i]) \in Fraction
    BY <1>1, OverlapIsFraction
  <2>2. QED
    BY <1>2, <2>1
<1>6. S # {}
  <2>1. 1 \in 1..Len(defs)
    BY <1>1
  <2>2. f[1] \in S
    BY <1>3, <2>1
  <2>3. QED
    BY <2>2
<1>7. f \in [1..Len(defs) -> S]
  BY <1>3
<1>8. Grounding(answer, term_) =
        IF AtLeast(best, CONCEPT_FULL_OVERLAP) THEN [hits |-> 1, of |-> 1]
        ELSE [hits |-> 100 * best.hits, of |-> CONCEPT_FULL_OVERLAP * best.of]
  BY DEF Grounding
<1> HIDE DEF S, f
<1>9. IsFiniteSet(S)
  BY <1>1, <1>4, <1>7, ImagesFinite
<1>10. best \in Fraction
  BY <1>5, <1>6, <1>9, GreatestAttained
<1> HIDE DEF best
<1>11. CASE AtLeast(best, CONCEPT_FULL_OVERLAP)
  BY <1>8, <1>11 DEF Fraction
<1>12. CASE ~AtLeast(best, CONCEPT_FULL_OVERLAP)
  <2>1. /\ best.hits \in Nat /\ best.of \in Nat \ {0}
        /\ ~(best.hits * 100 >= 45 * best.of)
    BY <1>10, <1>12 DEF AtLeast, NoLess, CONCEPT_FULL_OVERLAP, Fraction
  <2>2. Grounding(answer, term_) = [hits |-> 100 * best.hits, of |-> 45 * best.of]
    BY <1>8, <1>12 DEF CONCEPT_FULL_OVERLAP
  <2>3. QED
    BY <2>1, <2>2 DEF Fraction
<1>13. QED
  BY <1>11, <1>12

\* Whatever the answer and whatever the term's texts, the scorer's slices fit
\* the rubric: RubricBreakdown's validation never raises.
THEOREM ScoresFitRubric ==
  ASSUME NEW answer \in Text, NEW term_ \in Knowledge
  PROVE  score(answer, term_) \in RubricBreakdown
<1>1. /\ CONCEPT_WEIGHT \in Nat /\ EXPANSION_WEIGHT \in Nat
      /\ PURPOSE_WEIGHT \in Nat /\ EXAMPLE_WEIGHT \in Nat
  BY GradingConstants
<1> DEFINE ratio == Grounding(answer, term_)  best == Best(answer, term_.expansions)
<1>2. ratio \in Fraction /\ ratio.hits <= ratio.of
  BY GroundingIsFraction
<1>3. best \in Fraction /\ best.hits <= best.of
  BY BestIsFraction DEF Knowledge
<1>4. score_expansion(answer, term_) \in 0..EXPANSION_WEIGHT
  <2> HIDE DEF best
  <2>1. Nearest(EXPANSION_WEIGHT * best.hits, best.of) \in 0..EXPANSION_WEIGHT
    BY <1>1, <1>3, NearestShare
  <2>2. QED
    BY <2>1 DEF score_expansion, best
<1>5. /\ score_concept(answer, term_) \in 0..CONCEPT_WEIGHT
      /\ score_purpose(answer, term_) \in 0..PURPOSE_WEIGHT
  <2> HIDE DEF ratio
  <2>1. /\ Nearest(CONCEPT_WEIGHT * ratio.hits, ratio.of) \in 0..CONCEPT_WEIGHT
        /\ Nearest(PURPOSE_WEIGHT * (ratio.of + ratio.hits), 2 * ratio.of)
             \in 0..PURPOSE_WEIGHT
    BY <1>1, <1>2, NearestShare
  <2>2. QED
    BY <1>1, <2>1 DEF score_concept, score_purpose, ratio
<1>6. score_example(answer, term_) \in 0..EXAMPLE_WEIGHT
  BY <1>1 DEF score_example
<1>7. QED
  BY <1>4, <1>5, <1>6 DEF score, RubricBreakdown

-----------------------------------------------------------------------------
(* Types.                                                                  *)

GradersLeft ==
  {Chain, <<"EXACT", "ALIAS", "FUZZY">>, <<"ALIAS", "FUZZY">>, <<"FUZZY">>, << >>}

\* The strengthening: what a submission has in hand at each stage, and that
\* nothing has filled up the round between the grade shown and its commit.
InFlight ==
  /\ asked => term \in Term
  /\ stage # "idle" => subject \in Term /\ text \in Texts
  /\ graders \in GradersLeft
  /\ stage = "grading" => graders # << >>
  /\ stage \in {"graded", "shown"} => outcome \in GradeOutcomes
  /\ stage \in {"idle", "grading"} => outcome = Nothing
  /\ stage = "shown" => CanRecord(rd, 0)

PlayInv == TypeOK /\ InFlight

\* The first elements of a sequence, and prefixes element by element.
LEMMA FirstElements ==
  ASSUME NEW S, NEW s \in Seq(S), NEW n \in Nat, n <= Len(s)
  PROVE  /\ SubSeq(s, 1, n) \in Seq(S) /\ Len(SubSeq(s, 1, n)) = n
         /\ \A i \in 1..n : SubSeq(s, 1, n)[i] = s[i]
OBVIOUS

LEMMA PrefixBy ==
  ASSUME NEW S, NEW s \in Seq(S), NEW t \in Seq(S), Len(s) <= Len(t),
         \A i \in 1..Len(s) : s[i] = t[i]
  PROVE  IsPrefix(s, t)
<1> DEFINE n == Len(s)  u == SubSeq(s, 1, n)  v == SubSeq(t, 1, n)
<1>1. n \in Nat /\ n <= Len(t) /\ n <= Len(s)
  OBVIOUS
<1>2. /\ u \in Seq(S) /\ Len(u) = n /\ \A i \in 1..n : u[i] = s[i]
      /\ v \in Seq(S) /\ Len(v) = n /\ \A i \in 1..n : v[i] = t[i]
  BY <1>1, FirstElements
<1>3. \A i \in 1..n : s[i] = t[i]
  OBVIOUS
<1> HIDE DEF u, v, n
<1>4. u = v
  BY <1>1, <1>2, <1>3
<1>5. QED
  BY <1>4 DEF u, v, n, IsPrefix

\* What is left of the chain ends like the chain, and its last grader is last.
LEMMA ChainSteps ==
  ASSUME NEW g \in GradersLeft
  PROVE  /\ IsSuffix(g, Chain)
         /\ g # << >> => /\ Head(g) \in {"FLAGGED", "EXACT", "ALIAS", "FUZZY"}
                         /\ Head(g) # "FUZZY" => Tail(g) \in GradersLeft \ {<< >>}
<1> DEFINE G1 == <<"EXACT", "ALIAS", "FUZZY">>  G2 == <<"ALIAS", "FUZZY">>  G3 == <<"FUZZY">>
<1>1. Chain = <<"FLAGGED", "EXACT", "ALIAS", "FUZZY">>
  BY DEF Chain
<1>2. g # << >> => /\ Head(g) \in {"FLAGGED", "EXACT", "ALIAS", "FUZZY"}
                   /\ Head(g) # "FUZZY" => Tail(g) \in GradersLeft \ {<< >>}
  <2>1. CASE g = Chain
    <3>1. Head(g) = "FLAGGED" /\ Tail(g) = G1
      BY <1>1, <2>1
    <3>2. QED
      BY <3>1 DEF GradersLeft
  <2>2. CASE g = G1
    <3>1. Head(g) = "EXACT" /\ Tail(g) = G2
      BY <2>2
    <3>2. QED
      BY <3>1 DEF GradersLeft
  <2>3. CASE g = G2
    <3>1. Head(g) = "ALIAS" /\ Tail(g) = G3
      BY <2>3
    <3>2. QED
      BY <3>1 DEF GradersLeft
  <2>4. CASE g = G3
    BY <2>4
  <2>5. QED
    BY <2>1, <2>2, <2>3, <2>4 DEF GradersLeft
<1>3. IsSuffix(g, Chain)
  <2> DEFINE D == {"FLAGGED", "EXACT", "ALIAS", "FUZZY"}
             R == Reverse(g)
             C == <<"FUZZY", "ALIAS", "EXACT", "FLAGGED">>
  <2>1. Reverse(Chain) = C
    BY <1>1 DEF Reverse
  <2>2. R \in {C, <<"FUZZY", "ALIAS", "EXACT">>, <<"FUZZY", "ALIAS">>, <<"FUZZY">>, << >>}
    <3>1. g = G1 => R = <<"FUZZY", "ALIAS", "EXACT">>
      BY DEF Reverse
    <3>2. g = G2 => R = <<"FUZZY", "ALIAS">>
      BY DEF Reverse
    <3>3. g = G3 => R = <<"FUZZY">>
      BY DEF Reverse
    <3>4. g = << >> => R = << >>
      BY DEF Reverse
    <3>5. g = Chain => R = C
      BY <2>1
    <3> HIDE DEF R, C
    <3>6. QED
      BY <3>1, <3>2, <3>3, <3>4, <3>5 DEF GradersLeft
  <2> HIDE DEF R
  <2>3. C \in Seq(D) /\ Len(C) = 4
    OBVIOUS
  <2>4. R \in Seq(D) /\ Len(R) \in 0..4 /\ \A i \in 1..Len(R) : R[i] = C[i]
    <3>1. CASE R = C
      BY <2>3, <3>1
    <3>2. CASE R = <<"FUZZY", "ALIAS", "EXACT">>
      BY <3>2
    <3>3. CASE R = <<"FUZZY", "ALIAS">>
      BY <3>3
    <3>4. CASE R = <<"FUZZY">>
      BY <3>4
    <3>5. CASE R = << >>
      BY <3>5
    <3>6. QED
      BY <2>2, <3>1, <3>2, <3>3, <3>4, <3>5
  <2> HIDE DEF C, D
  <2>5. IsPrefix(R, C)
    BY <2>3, <2>4, PrefixBy
  <2>6. QED
    BY <2>1, <2>5 DEF IsSuffix, R, C
<1>4. QED
  BY <1>2, <1>3

\* The terms of a day are different ones, and in the bank.
LEMMA DailyTerms ==
  ASSUME NEW b \in SUBSET Term
  PROVE  daily_term_ids(b) \in Seq(Term) /\ IsInjective(daily_term_ids(b))
<1> DEFINE s == Shuffle[b]
           n == IF Cardinality(b) < DAILY_20_ROUND_SIZE
                THEN Cardinality(b) ELSE DAILY_20_ROUND_SIZE
<1>1. s \in Seq(Term) /\ IsInjective(s) /\ ToSet(s) = b
  BY PlayConstants
<1>2. daily_term_ids(b) = SubSeq(s, 1, n)
  BY DEF daily_term_ids
<1>3. IsFiniteSet(b) /\ Cardinality(b) \in Nat
  BY PlayConstants, FS_Subset, FS_CardinalityType
<1> HIDE DEF s
<1>4. Cardinality(b) <= Len(s)
  <2>1. s \in [1..Len(s) -> b] /\ \A x \in b : \E i \in 1..Len(s) : s[i] = x
    BY <1>1 DEF ToSet
  <2>2. s \in Surjection(1..Len(s), b)
    BY <2>1 DEF Surjection
  <2>3. IsFiniteSet(1..Len(s)) /\ Cardinality(1..Len(s)) = Len(s)
    <3>1. Len(s) \in Nat
      BY <1>1
    <3>2. QED
      BY <3>1, UpToIsFinite
  <2>4. Cardinality(b) <= Cardinality(1..Len(s))
    BY <2>2, <2>3, FS_Surjection
  <2>5. QED
    BY <2>3, <2>4
<1>5. n \in Nat /\ n <= Len(s)
  BY <1>3, <1>4, RoundConstants
<1> HIDE DEF n
<1>6. /\ SubSeq(s, 1, n) \in Seq(Term) /\ Len(SubSeq(s, 1, n)) = n
      /\ \A i \in 1..n : SubSeq(s, 1, n)[i] = s[i]
  BY <1>1, <1>5, FirstElements
<1>7. IsInjective(SubSeq(s, 1, n))
  <2>1. DOMAIN SubSeq(s, 1, n) = 1..n /\ 1..n \subseteq DOMAIN s
    BY <1>1, <1>5, <1>6
  <2>2. QED
    BY <1>1, <1>6, <2>1 DEF IsInjective
<1>8. QED
  BY <1>2, <1>6, <1>7

\* Whatever comes next is a term.
LEMMA NextIsTerm ==
  ASSUME TypeOK
  PROVE  GetNextTerm \subseteq Term
<1>1. GetRandom(Request) \ {Nothing} \subseteq Term
  BY DEF GetRandom, random, InScope, TypeOK
<1>2. Len(rd.answers) < Len(term_ids) => term_ids[Len(rd.answers) + 1] \in Term
  BY DEF TypeOK, Round
<1>3. QED
  <2>1. CASE rd.mode = "DAILY_20"
    <3>1. Len(rd.answers) \in Nat /\ Len(term_ids) \in Nat
      BY DEF TypeOK, Round
    <3>2. QED
      BY <1>2, <2>1, <3>1 DEF GetNextTerm
  <2>2. CASE rd.mode # "DAILY_20"
    BY <1>1, <2>2 DEF GetNextTerm
  <2>3. QED
    BY <2>1, <2>2

\* Recording what a submission came to.
LEMMA RecordedTyping ==
  ASSUME PlayInv, stage \in {"graded", "shown"}, CanRecord(rd, 0), Recorded
  PROVE  /\ rd' \in Round /\ LegalRound(rd') /\ rd'.mode = rd.mode
         /\ answered' = Append(answered, subject) /\ answered' \in Seq(Term)
         /\ Len(answered') = Len(rd'.answers)
         /\ term_ids' = term_ids /\ pick' = pick
<1>1. outcome \in GradeOutcomes /\ subject \in Term /\ rd \in Round /\ LegalRound(rd)
      /\ answered \in Seq(Term) /\ Len(answered) = Len(rd.answers)
  BY DEF PlayInv, TypeOK, InFlight
<1>2. Entry \in SubmittedAnswer /\ Entry.submitted_at = 0
  <2>1. Len(rd.answers) \in Nat /\ Len(rd.answers) < ROUND_MAX_ANSWERS
    BY <1>1 DEF CanRecord, Round
  <2>2. Len(rd.answers) + 1 \in Req
    BY <2>1, PlayConstants, RoundConstants
  <2>3. QED
    BY <1>1, <2>2 DEF Entry, SubmittedAnswer, GradeOutcomes, MatchedVia
<1>3. rd' = record(rd, Entry) /\ answered' = Append(answered, subject)
      /\ term_ids' = term_ids /\ pick' = pick
  BY DEF Recorded
<1> DEFINE en == Entry
<1> HIDE DEF en
<1>4. rd' = record(rd, en) /\ en \in SubmittedAnswer /\ en.submitted_at = 0
  BY <1>2, <1>3 DEF en
<1>5. /\ record(rd, en) \in Round /\ record(rd, en).answers = Append(rd.answers, en)
      /\ record(rd, en).mode = rd.mode
  BY <1>1, <1>4, RecordType
<1>6. LegalRound(record(rd, en))
  BY <1>1, <1>4, RecordLegal
<1>7. rd' \in Round /\ rd'.answers = Append(rd.answers, en) /\ rd'.mode = rd.mode
  BY <1>4, <1>5
<1>8. LegalRound(rd')
  BY <1>4, <1>6
<1>9. answered' \in Seq(Term) /\ Len(answered') = Len(rd'.answers)
  BY <1>1, <1>3, <1>4, <1>7 DEF Round
<1>10. QED
  BY <1>3, <1>7, <1>8, <1>9

\* The stages of a submission, and what it is when it is over.
LEMMA PlayInvInductive == PlayInv /\ [Next]_vars => PlayInv'
<1> SUFFICES ASSUME PlayInv, [Next]_vars PROVE PlayInv'
  OBVIOUS
<1> USE DEF PlayInv, TypeOK, InFlight, Stage, vars, round, screen, submission
<1>1. CASE UNCHANGED vars
  BY <1>1 DEF CanRecord, is_expired, is_over, OutOfLives
<1>2. CASE Publish
  BY <1>2 DEF Publish
<1>3. CASE Draw
  <2>1. term' \in Term
    BY <1>3, NextIsTerm DEF Draw
  <2>2. QED
    BY <1>3, <2>1 DEF Draw
<1>4. CASE Submit
  <2>1. Chain \in GradersLeft /\ Chain # << >> /\ term \in Term
    BY <1>4 DEF Submit, GradersLeft, Chain
  <2>2. IsSuffix(Chain, Chain)
    BY <2>1, ChainSteps
  <2>3. streamed' \in BOOLEAN /\ text' \in Texts
    BY <1>4 DEF Submit
  <2>4. QED
    BY <1>4, <2>1, <2>2, <2>3 DEF Submit
<1>5. CASE Evaluate
  <2> DEFINE o == grade(Head(graders), text, Expansions[subject])
  <2>1. graders # << >> /\ subject \in Term /\ text \in Texts
    BY <1>5 DEF Evaluate
  <2>2. /\ Head(graders) \in {"FLAGGED", "EXACT", "ALIAS", "FUZZY"}
        /\ Head(graders) # "FUZZY" => Tail(graders) \in GradersLeft \ {<< >>}
    BY <2>1, ChainSteps
  <2>3. text \in Text /\ Expansions[subject] \in Answerable
    BY <2>1, PlayConstants DEF Answerable
  <2>4. \/ o = Abstains /\ Head(graders) # "FUZZY"
        \/ o \in GradeOutcomes
    BY <2>2, <2>3, GradeIsFair
  <2> HIDE DEF o
  <2>5. CASE o = Abstains
    <3>1. CASE Head(graders) # "FUZZY"
      <4>1. /\ graders' = Tail(graders) /\ UNCHANGED <<stage, outcome>>
            /\ UNCHANGED <<bank, round, screen, subject, text, streamed, ahead>>
            /\ stage = "grading"
        BY <1>5, <2>5 DEF Evaluate, o
      <4>2. graders' \in GradersLeft /\ graders' # << >> /\ IsSuffix(graders', Chain)
        BY <2>2, <3>1, <4>1, ChainSteps
      <4>3. QED
        BY <4>1, <4>2
    <3>2. CASE Head(graders) = "FUZZY"
      <4>1. Abstains \notin GradeOutcomes
        BY DEF Abstains, GradeOutcomes
      <4>2. QED
        BY <2>4, <2>5, <3>2, <4>1
    <3>3. QED
      BY <3>1, <3>2
  <2>6. CASE o # Abstains
    <3>1. /\ stage' = "graded" /\ outcome' = o /\ graders' = << >>
          /\ UNCHANGED <<bank, round, screen, subject, text, streamed, ahead>>
          /\ stage = "grading"
      BY <1>5, <2>6 DEF Evaluate, o
    <3>2. outcome' \in GradeOutcomes
      BY <2>4, <2>6, <3>1
    <3>3. graders' \in GradersLeft /\ IsSuffix(graders', Chain)
      BY <3>1, ChainSteps DEF GradersLeft
    <3>4. QED
      BY <3>1, <3>2, <3>3
  <2>7. QED
    BY <2>5, <2>6
<1>6. CASE Escalate
  <2>1. PICK raw \in RawJudgments : outcome' = LLMGrade(raw)
    BY <1>6 DEF Escalate
  <2>2. outcome' \in GradeOutcomes
    BY <2>1, PlayConstants, JudgeIsFair
  <2>3. stage = "graded" /\
        UNCHANGED <<bank, round, screen, stage, subject, text, streamed, graders, ahead>>
    BY <1>6 DEF Escalate, Escalates
  <2>4. QED
    BY <2>2, <2>3
<1>7. CASE Finish
  <2>1. /\ stage = "graded" /\ CanRecord(rd, 0)
        /\ UNCHANGED <<bank, screen, graders, ahead>>
    BY <1>7 DEF Finish
  <2>2. CASE streamed
    BY <1>7, <2>1, <2>2 DEF Finish
  <2>3. CASE ~streamed
    <3>1. Recorded /\ Over
      BY <1>7, <2>3 DEF Finish
    <3>2. QED
      BY <2>1, <3>1, RecordedTyping DEF Over
  <2>4. QED
    BY <2>2, <2>3
<1>8. CASE Commit
  <2>1. /\ stage = "shown" /\ CanRecord(rd, 0) /\ Recorded /\ Over
        /\ UNCHANGED <<bank, screen, graders, ahead>>
    BY <1>8 DEF Commit
  <2>2. QED
    BY <2>1, RecordedTyping DEF Over
<1>9. CASE Refuse
  BY <1>9 DEF Refuse, Over
<1>10. QED
  BY <1>1, <1>2, <1>3, <1>4, <1>5, <1>6, <1>7, <1>8, <1>9 DEF Next

\* CreateGameRound returns a round within its mode's limits.
LEMMA PlayInvInitially == Init => PlayInv
<1> SUFFICES ASSUME Init PROVE PlayInv
  OBVIOUS
<1>1. PICK m \in RoundMode, d \in SprintDurations :
        LET ids == IF m = "DAILY_20" THEN daily_term_ids(all_ids) ELSE << >> IN
          /\ m = "DAILY_20" => ids # << >>
          /\ term_ids = ids
          /\ rd = start(m, 0, d, Len(ids))
  BY DEF Init
<1>2. bank \in SUBSET Term /\ all_ids = bank
  BY DEF Init, all_ids
<1>3. term_ids \in Seq(Term) /\ IsInjective(term_ids)
  <2>1. CASE m = "DAILY_20"
    BY <1>1, <1>2, <2>1, DailyTerms
  <2>2. CASE m # "DAILY_20"
    BY <1>1, <2>2 DEF IsInjective
  <2>3. QED
    BY <2>1, <2>2
<1>4. rd = start(m, 0, d, Len(term_ids))
  BY <1>1
<1>5. rd \in Round /\ rd.answers = << >>
  BY <1>3, <1>4, RoundConstants DEF start, Round
<1>6. LegalRound(rd)
  BY <1>5, EmptyLegal
<1>7. << >> \in GradersLeft /\ IsSuffix(<< >>, Chain)
  BY ChainSteps DEF GradersLeft
<1>8. /\ pick \in Pick /\ answered = << >> /\ term = Nothing /\ asked = FALSE
      /\ stage = "idle" /\ subject = Nothing /\ text = Nothing /\ streamed = FALSE
      /\ graders = << >> /\ outcome = Nothing /\ ahead = FALSE
  BY DEF Init
<1>9. InFlight
  BY <1>7, <1>8 DEF InFlight
<1>10. IsSuffix(graders, Chain) /\ answered \in Seq(Term) /\ Len(answered) = Len(rd.answers)
  BY <1>5, <1>7, <1>8
<1>11. TypeOK
  BY <1>2, <1>3, <1>5, <1>6, <1>8, <1>10 DEF TypeOK, Stage
<1>12. QED
  BY <1>9, <1>11 DEF PlayInv

LEMMA PlayInvAlways == Spec => []PlayInv
<1>1. QED
  BY PlayInvInitially, PlayInvInductive, PTL DEF Spec

\* The types of every reachable state: what is recorded is a legal round of
\* distinct terms for its day, and every outcome is in the rubric.
THEOREM PlayedRoundTyping == Spec => []TypeOK
<1>1. PlayInv => TypeOK
  BY DEF PlayInv
<1>2. QED
  BY <1>1, PlayInvAlways, PTL

-----------------------------------------------------------------------------
(* Grades.                                                                 *)

\* The outcome in hand is fair and its shortcut sound for the answer in hand.
GradeInv ==
  outcome # Nothing => FairScore(outcome)
                       /\ SoundShortcut(outcome, text, Expansions[subject])

LEMMA GradeInvInductive == PlayInv /\ GradeInv /\ [Next]_vars => GradeInv'
<1> SUFFICES ASSUME PlayInv, GradeInv, [Next]_vars PROVE GradeInv'
  OBVIOUS
<1> USE DEF GradeInv
<1>1. CASE UNCHANGED <<outcome, text, subject>>
  <2>1. FairScore(outcome)' <=> FairScore(outcome)
    BY <1>1 DEF FairScore
  <2>2. SoundShortcut(outcome, text, Expansions[subject])'
          <=> SoundShortcut(outcome, text, Expansions[subject])
    BY <1>1 DEF SoundShortcut
  <2>3. QED
    BY <1>1, <2>1, <2>2
<1>2. CASE Submit
  BY <1>2 DEF Submit, PlayInv, InFlight
<1>3. CASE Evaluate
  <2> DEFINE o == grade(Head(graders), text, Expansions[subject])
  <2>1. graders # << >> /\ subject \in Term /\ text \in Texts /\ graders \in GradersLeft
    BY <1>3 DEF Evaluate, PlayInv, InFlight
  <2>2. Head(graders) \in {"FLAGGED", "EXACT", "ALIAS", "FUZZY"}
    BY <2>1, ChainSteps
  <2>3. text \in Text /\ Expansions[subject] \in Answerable
    BY <2>1, PlayConstants DEF Answerable
  <2>4. o # Abstains => FairScore(o) /\ SoundShortcut(o, text, Expansions[subject])
    BY <2>2, <2>3, GradeIsFair
  <2> HIDE DEF o
  <2>5. UNCHANGED <<text, subject>> /\ (outcome' = outcome \/ (outcome' = o /\ o # Abstains))
    BY <1>3 DEF Evaluate, o
  <2>6. CASE outcome' = outcome
    BY <1>1, <2>5, <2>6
  <2>7. CASE outcome' = o /\ o # Abstains
    <3>1. FairScore(outcome') /\ SoundShortcut(outcome', text', Expansions[subject'])
      BY <2>4, <2>5, <2>7
    <3>2. FairScore(outcome)'
      BY <3>1 DEF FairScore, total
    <3>3. SoundShortcut(outcome, text, Expansions[subject])'
      BY <3>1 DEF SoundShortcut, normalize, FuzzyGrader, Best, Greatest, token_similarity
    <3>4. QED
      BY <3>2, <3>3
  <2>8. QED
    BY <2>5, <2>6, <2>7
<1>4. CASE Escalate
  <2>1. PICK raw \in RawJudgments : outcome' = LLMGrade(raw)
    BY <1>4 DEF Escalate
  <2>2. FairScore(LLMGrade(raw)) /\ LLMGrade(raw).matched_via = "LLM_RUBRIC"
    BY PlayConstants, JudgeIsFair
  <2>3. QED
    BY <2>1, <2>2 DEF FairScore, SoundShortcut
<1>5. CASE outcome' = Nothing
  BY <1>5
<1>6. QED
  BY <1>1, <1>2, <1>3, <1>4, <1>5
  DEF Next, vars, submission, Publish, Draw, Finish, Commit, Refuse, Over

LEMMA GradeInvAlways == Spec => []GradeInv
<1>1. Init => GradeInv
  BY DEF Init, GradeInv
<1>2. QED
  BY <1>1, GradeInvInductive, PlayInvAlways, PTL DEF Spec

\* No grader and no judgment, for any answer and any term, gives more points
\* with a worse verdict, or CORRECT for an answer without the concept.
THEOREM ScoresAlwaysFollow == Spec => []ScoresFollowVerdicts
<1>1. GradeInv => ScoresFollowVerdicts
  BY DEF GradeInv, FairScore, ScoresFollowVerdicts
<1>2. QED
  BY <1>1, GradeInvAlways, PTL

\* What EXACT and ALIAS accept, FUZZY would have called CORRECT.
THEOREM ShortcutsAlwaysSound == Spec => []ShortcutsSound
<1>1. GradeInv => ShortcutsSound
  BY DEF GradeInv, SoundShortcut, ShortcutsSound
<1>2. QED
  BY <1>1, GradeInvAlways, PTL

-----------------------------------------------------------------------------
(* Which terms are shown.                                                  *)

\* The filter of a Boss round, as it travels and as the query reads it, lets
\* eligible terms through and no others, fallback or not.
LEMMA BossDraw ==
  ASSUME TypeOK, rd.mode = "BOSS", NEW t \in GetNextTerm
  PROVE  is_boss_eligible(t)
<1>1. t \in GetRandom(Request) \ {Nothing}
  BY DEF GetNextTerm
<1>2. t \in InScope(Request)
  BY <1>1 DEF GetRandom, random
<1>3. matches(Request, t)
  BY <1>2 DEF InScope
<1>4. FilterOf(rd.mode, pick.difficulty) = boss_eligible
  BY DEF FilterOf
<1>5. /\ Request.min_difficulty = MODERATE
      /\ Request.require_examples
      /\ Request.min_definition_length = TERM_PRIMARY_DEFINITION_MIN_LEN
  <2>1. Anything # boss_eligible
    BY NoFilter
  <2>2. /\ boss_eligible.min_difficulty = MODERATE
        /\ boss_eligible.require_examples
        /\ boss_eligible.min_definition_length = TERM_PRIMARY_DEFINITION_MIN_LEN
    BY DEF boss_eligible
  <2>3. QED
    BY <1>4, <2>1, <2>2 DEF Request, GetRandomRequest
<1>6. MODERATE # Anything /\ TERM_PRIMARY_DEFINITION_MIN_LEN # Anything
  BY PlayConstants
<1>7. QED
  BY <1>3, <1>5, <1>6 DEF matches, is_boss_eligible

LEMMA ModeStays ==
  ASSUME PlayInv, [Next]_vars
  PROVE  rd'.mode = rd.mode
<1>1. CASE UNCHANGED rd
  BY <1>1
<1>2. CASE Finish
  <2>1. CASE streamed
    BY <1>2, <2>1 DEF Finish, round
  <2>2. CASE ~streamed
    BY <1>2, <2>2, RecordedTyping DEF Finish
  <2>3. QED
    BY <2>1, <2>2
<1>3. CASE Commit
  <2>1. stage = "shown" /\ CanRecord(rd, 0) /\ Recorded
    BY <1>3 DEF Commit, PlayInv, InFlight
  <2>2. QED
    BY <2>1, RecordedTyping
<1>4. QED
  BY <1>1, <1>2, <1>3
  DEF Next, vars, round, Publish, Draw, Submit, Evaluate, Escalate, Refuse

\* No term without a rubric's worth of content is ever shown in a Boss round,
\* whatever is published and however often the bank runs out.
THEOREM BossAlwaysEligible == Spec => []BossTermsEligible
<1>1. Init => BossTermsEligible
  BY DEF Init, BossTermsEligible
<1>2. PlayInv /\ BossTermsEligible /\ [Next]_vars => BossTermsEligible'
  <2> SUFFICES ASSUME PlayInv, BossTermsEligible, [Next]_vars,
                      rd'.mode = "BOSS", term' # Nothing
               PROVE  is_boss_eligible(term')
    BY DEF BossTermsEligible, is_boss_eligible
  <2>1. rd.mode = "BOSS"
    BY ModeStays
  <2>2. CASE term' = term
    BY <2>1, <2>2 DEF BossTermsEligible
  <2>3. CASE Draw
    BY <2>1, <2>3, BossDraw DEF Draw, PlayInv
  <2>4. QED
    BY <2>2, <2>3
    DEF Next, vars, screen, Publish, Submit, Evaluate, Escalate, Finish, Commit, Refuse
<1>3. QED
  BY <1>1, <1>2, PlayInvAlways, PTL DEF Spec

\* The strengthening: with no term drawn ahead of a commit, the term on the
\* screen or under way is the one after those recorded.
Walks ==
  rd.mode = "DAILY_20" /\ ~ahead =>
    /\ Len(answered) <= Len(term_ids)
    /\ \A i \in 1..Len(answered) : answered[i] = term_ids[i]
    /\ asked =>
         /\ stage = "idle" /\ Len(answered) < Len(term_ids)
         /\ term = term_ids[Len(answered) + 1]
    /\ stage # "idle" =>
         Len(answered) < Len(term_ids) /\ subject = term_ids[Len(answered) + 1]

LEMMA WalksOn ==
  ASSUME PlayInv, Walks, rd.mode = "DAILY_20", ~ahead, stage \in {"graded", "shown"},
         ~asked, asked' = asked, CanRecord(rd, 0), Recorded, Over
  PROVE  Walks'
<1>1. /\ answered' = Append(answered, subject) /\ term_ids' = term_ids
      /\ answered \in Seq(Term) /\ term_ids \in Seq(Term) /\ subject \in Term
  BY RecordedTyping DEF PlayInv, TypeOK, InFlight
<1>2. /\ Len(answered) < Len(term_ids) /\ subject = term_ids[Len(answered) + 1]
      /\ \A i \in 1..Len(answered) : answered[i] = term_ids[i]
  BY DEF Walks
<1>3. Len(answered') <= Len(term_ids')
  BY <1>1, <1>2
<1>4. ASSUME NEW i \in 1..Len(answered') PROVE answered'[i] = term_ids'[i]
  BY <1>1, <1>2
<1>5. stage' = "idle" /\ ~asked'
  BY DEF Over
<1>6. QED
  BY <1>3, <1>4, <1>5 DEF Walks

LEMMA WalksInductive == PlayInv /\ Walks /\ [Next]_vars => Walks'
<1> SUFFICES ASSUME PlayInv, Walks, [Next]_vars, rd'.mode = "DAILY_20", ~ahead'
             PROVE  Walks'
  BY DEF Walks
<1>1. rd.mode = "DAILY_20" /\ ~ahead
  <2>1. ~ahead
    BY DEF Next, vars, Publish, Draw, Submit, Evaluate, Escalate, Finish, Commit, Refuse,
           PlayInv, TypeOK
  <2>2. QED
    BY <2>1, ModeStays
<1>2. CASE UNCHANGED <<rd, term_ids, answered, term, asked, stage, subject>>
  BY <1>1, <1>2 DEF Walks
<1>3. CASE Draw
  <2>1. /\ stage = "idle" /\ term' \in GetNextTerm /\ asked' = TRUE
        /\ UNCHANGED <<rd, term_ids, answered, stage, subject>>
    BY <1>3 DEF Draw, round, submission, PlayInv, TypeOK
  <2>2. /\ Len(rd.answers) < Len(term_ids) /\ term' = term_ids[Len(rd.answers) + 1]
    <3>1. Len(rd.answers) \in Nat /\ Len(term_ids) \in Nat
      BY DEF PlayInv, TypeOK, Round
    <3>2. QED
      BY <1>1, <2>1, <3>1 DEF GetNextTerm
  <2>3. Len(answered) = Len(rd.answers)
    BY DEF PlayInv, TypeOK
  <2>4. QED
    BY <1>1, <2>1, <2>2, <2>3 DEF Walks
<1>4. CASE Submit
  BY <1>1, <1>4 DEF Submit, Walks, round
<1>5. CASE Evaluate
  BY <1>1, <1>5 DEF Evaluate, Walks, round, screen
<1>6. CASE Escalate
  BY <1>1, <1>6 DEF Escalate, Escalates, Walks, round, screen
<1>7. CASE Finish
  <2>1. stage = "graded" /\ ~asked /\ asked' = asked /\ CanRecord(rd, 0)
    BY <1>1, <1>7 DEF Finish, screen, Walks, PlayInv, TypeOK
  <2>2. CASE streamed
    BY <1>1, <1>7, <2>1, <2>2 DEF Finish, Walks, round, screen
  <2>3. CASE ~streamed
    BY <1>1, <1>7, <2>1, <2>3, WalksOn DEF Finish
  <2>4. QED
    BY <2>2, <2>3
<1>8. CASE Commit
  <2>1. stage = "shown" /\ ~asked /\ asked' = asked /\ CanRecord(rd, 0)
    BY <1>1, <1>8 DEF Commit, screen, Walks, PlayInv, TypeOK, InFlight
  <2>2. QED
    BY <1>1, <1>8, <2>1, WalksOn DEF Commit
<1>9. CASE Refuse
  <2>1. /\ stage = "graded" /\ stage' = "idle"
        /\ UNCHANGED <<rd, term_ids, answered, term, asked>>
    BY <1>9 DEF Refuse, Over, round, screen
  <2>2. QED
    BY <1>1, <2>1 DEF Walks
<1>10. QED
  BY <1>2, <1>3, <1>4, <1>5, <1>6, <1>7, <1>8, <1>9
  DEF Next, vars, round, screen, submission, Publish

LEMMA WalksAlways == Spec => []Walks
<1>1. Init => Walks
  BY DEF Init, Walks
<1>2. QED
  BY <1>1, WalksInductive, PlayInvAlways, PTL DEF Spec

\* Whatever is published meanwhile, a Daily 20 round records the terms of its
\* snapshot in their order, as long as none is asked for before a commit.
THEOREM DailyAlwaysShared == Spec => []DailyIsShared
<1>1. PlayInv /\ Walks => DailyIsShared
  <2> SUFFICES ASSUME PlayInv, Walks, rd.mode = "DAILY_20", ~ahead
               PROVE  IsPrefix(answered, term_ids)
    BY DEF DailyIsShared
  <2>1. /\ answered \in Seq(Term) /\ term_ids \in Seq(Term)
        /\ Len(answered) <= Len(term_ids)
        /\ \A i \in 1..Len(answered) : answered[i] = term_ids[i]
    BY DEF PlayInv, TypeOK, Walks
  <2>2. QED
    BY <2>1, PrefixBy
<1>2. QED
  BY <1>1, PlayInvAlways, WalksAlways, PTL

\* A term comes back only when there is nothing else to ask for, or when it is
\* asked for while the answer before it is not committed.
THEOREM TermsComeFresh == Spec => FreshTerm
<1> DEFINE Fresh ==
      asked' /\ ~asked /\ stage # "shown" =>
       \/ term' \notin ToSet(PlayedTerms)
       \/ /\ rd.mode # "DAILY_20"
          /\ InScope(Request) \subseteq ToSet(PlayedTerms)
       \/ rd.mode = "DAILY_20" /\ ahead
<1>1. PlayInv /\ Walks /\ [Next]_vars => [Fresh]_vars
  <2> SUFFICES ASSUME PlayInv, Walks, Next, asked', ~asked, stage # "shown",
                      ~(rd.mode = "DAILY_20" /\ ahead)
               PROVE  \/ term' \notin ToSet(PlayedTerms)
                      \/ /\ rd.mode # "DAILY_20"
                         /\ InScope(Request) \subseteq ToSet(PlayedTerms)
    OBVIOUS
  <2>1. Draw
    BY DEF Next, screen, Publish, Submit, Evaluate, Escalate, Finish, Commit, Refuse
  <2>2. stage = "idle" /\ term' \in GetNextTerm
    BY <2>1 DEF Draw
  <2>3. PlayedTerms = answered /\ answered \in Seq(Term)
    BY DEF PlayedTerms, PlayInv, TypeOK
  <2>4. CASE rd.mode = "DAILY_20"
    <3>1. /\ term_ids \in Seq(Term) /\ IsInjective(term_ids)
          /\ Len(answered) = Len(rd.answers)
          /\ \A i \in 1..Len(answered) : answered[i] = term_ids[i]
      BY <2>4 DEF PlayInv, TypeOK, Walks
    <3>2. Len(answered) < Len(term_ids) /\ term' = term_ids[Len(answered) + 1]
      BY <2>2, <2>3, <2>4, <3>1 DEF GetNextTerm
    <3>3. \A i \in 1..Len(answered) : answered[i] # term'
      BY <2>3, <3>1, <3>2 DEF IsInjective
    <3>4. term' \notin ToSet(answered)
      BY <2>3, <3>3 DEF ToSet
    <3>5. QED
      BY <2>3, <3>4
  <2>5. CASE rd.mode # "DAILY_20"
    <3>1. term' \in random(Request)
      BY <2>2, <2>5 DEF GetNextTerm, GetRandom
    <3>2. Request.excluded_ids = ToSet(answered)
      BY DEF Request, GetRandomRequest
    <3>3. CASE InScope(Request) \ ToSet(answered) # {}
      BY <2>3, <3>1, <3>2, <3>3 DEF random
    <3>4. CASE InScope(Request) \ ToSet(answered) = {}
      BY <2>3, <2>5, <3>4
    <3>5. QED
      BY <3>3, <3>4
  <2>6. QED
    BY <2>4, <2>5
<1>2. QED
  BY <1>1, PlayInvAlways, WalksAlways, PTL DEF Spec, FreshTerm
=============================================================================
