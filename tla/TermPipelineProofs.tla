------------------------- MODULE TermPipelineProofs -------------------------
(***************************************************************************)
(* Proofs about TermPipeline, for any repositories, names, drafts and      *)
(* number of launches: types, that what is submitted comes from the most   *)
(* trusted source, that every term is submitted once, and that a run of    *)
(* the job can only go on for so long.                                     *)
(***************************************************************************)
EXTENDS TermPipeline, FiniteSetTheorems, WellFoundedInduction, TLAPS

-----------------------------------------------------------------------------
(* What Pick, Firsts and sorted() do.                                      *)

\* The numbers up to n are n.
LEMMA UpToIsFinite ==
  ASSUME NEW n \in Nat
  PROVE  IsFiniteSet(1..n) /\ Cardinality(1..n) = n
<1>1. 1 \in Int /\ n \in Int
  OBVIOUS
<1>2. IsFiniteSet(1..n) /\ Cardinality(1..n) = IF 1 > n THEN 0 ELSE n - 1 + 1
  BY <1>1, FS_Interval
<1>3. QED
  BY <1>2

\* The place of index i among those of K.
Rank(K, i) == Cardinality({j \in K : j <= i})

LEMMA RankRange ==
  ASSUME NEW K \in SUBSET Nat, IsFiniteSet(K)
  PROVE  /\ Cardinality(K) \in Nat
         /\ \A i \in K : Rank(K, i) \in 1..Cardinality(K)
         /\ \A i, j \in K : i < j => Rank(K, i) < Rank(K, j)
<1> DEFINE UpTo(i) == {k \in K : k <= i}
<1>1. Cardinality(K) \in Nat
  BY FS_CardinalityType
<1>2. ASSUME NEW i \in K
      PROVE  /\ IsFiniteSet(UpTo(i)) /\ Cardinality(UpTo(i)) \in Nat
             /\ Cardinality(UpTo(i)) <= Cardinality(K) /\ Cardinality(UpTo(i)) # 0
  <2>1. UpTo(i) \subseteq K /\ i \in UpTo(i)
    OBVIOUS
  <2> HIDE DEF UpTo
  <2>2. IsFiniteSet(UpTo(i)) /\ Cardinality(UpTo(i)) <= Cardinality(K)
    BY <2>1, FS_Subset
  <2>3. Cardinality(UpTo(i)) \in Nat
    BY <2>2, FS_CardinalityType
  <2>4. UpTo(i) # {}
    BY <2>1
  <2>5. Cardinality(UpTo(i)) # 0
    BY <2>2, <2>4, FS_EmptySet
  <2>6. QED
    BY <2>2, <2>3, <2>5
<1>3. ASSUME NEW i \in K, NEW j \in K, i < j
      PROVE  Cardinality(UpTo(i)) < Cardinality(UpTo(j))
  <2>1. UpTo(i) \subseteq UpTo(j) /\ j \in UpTo(j) /\ j \notin UpTo(i)
    <3>1. i \in Nat /\ j \in Nat /\ \A k \in K : k \in Nat
      OBVIOUS
    <3>2. \A k \in K : k <= i => k <= j
      BY <1>3, <3>1
    <3>3. ~(j <= i)
      BY <1>3, <3>1
    <3>4. j <= j
      BY <3>1
    <3>5. QED
      BY <3>2, <3>3, <3>4
  <2>2. IsFiniteSet(UpTo(j)) /\ Cardinality(UpTo(i)) \in Nat /\ Cardinality(UpTo(j)) \in Nat
    BY <1>2
  <2> HIDE DEF UpTo
  <2>3. Cardinality(UpTo(i)) <= Cardinality(UpTo(j)) /\ Cardinality(UpTo(i)) # Cardinality(UpTo(j))
    BY <2>1, <2>2, FS_Subset
  <2>4. QED
    BY <2>2, <2>3
<1>4. QED
  BY <1>1, <1>2, <1>3 DEF Rank

\* Every rank is taken.
LEMMA RankTaken ==
  ASSUME NEW K \in SUBSET Nat, IsFiniteSet(K), NEW n \in 1..Cardinality(K)
  PROVE  \E i \in K : Rank(K, i) = n
<1> DEFINE N == 1..Cardinality(K)
           f == [i \in K |-> Rank(K, i)]
<1>1. f \in [K -> N]
  BY RankRange
<1>2. ASSUME NEW i \in K, NEW j \in K, f[i] = f[j] PROVE i = j
  <2>1. Rank(K, i) = Rank(K, j) /\ Rank(K, i) \in Nat
    BY <1>2, RankRange
  <2>2. ~(i < j) /\ ~(j < i)
    BY <2>1, RankRange
  <2>3. QED
    BY <2>2
<1>3. IsFiniteSet(N) /\ Cardinality(N) = Cardinality(K)
  <2>1. Cardinality(K) \in Nat
    BY FS_CardinalityType
  <2>2. QED
    BY <2>1, UpToIsFinite
<1>4. f \in Injection(K, N)
  <2> HIDE DEF f, N
  <2>1. QED
    BY <1>1, <1>2 DEF Injection, IsInjective
<1>5. f \in Surjection(K, N)
  <2> HIDE DEF f, N
  <2>1. QED
    BY <1>3, <1>4, FS_Injection
<1>6. QED
  BY <1>5 DEF Surjection

\* Pick has the elements at the indices it is given, each once.
LEMMA PickType ==
  ASSUME NEW S, NEW s \in Seq(S), NEW K \in SUBSET DOMAIN s
  PROVE  /\ IsFiniteSet(K) /\ K \in SUBSET Nat
         /\ Pick(s, K) \in Seq(S) /\ DOMAIN Pick(s, K) = 1..Cardinality(K)
         /\ Cardinality(K) \in Nat /\ Len(Pick(s, K)) = Cardinality(K)
         /\ Cardinality(K) <= Len(s)
         /\ \A i \in K : Rank(K, i) \in DOMAIN Pick(s, K) /\ Pick(s, K)[Rank(K, i)] = s[i]
         /\ \A n \in DOMAIN Pick(s, K) : \E i \in K : Rank(K, i) = n
<1> DEFINE P == Pick(s, K)
<1>1. Len(s) \in Nat /\ DOMAIN s = 1..Len(s)
  OBVIOUS
<1>2. IsFiniteSet(1..Len(s)) /\ Cardinality(1..Len(s)) = Len(s)
  BY <1>1, UpToIsFinite
<1>3. IsFiniteSet(K) /\ Cardinality(K) <= Len(s)
  BY <1>1, <1>2, FS_Subset
<1>4. K \in SUBSET Nat
  BY <1>1
<1>5. Cardinality(K) \in Nat
  BY <1>3, FS_CardinalityType
<1>6. DOMAIN P = 1..Cardinality(K)
  BY DEF Pick
<1>7. ASSUME NEW i \in K PROVE Rank(K, i) \in DOMAIN P /\ P[Rank(K, i)] = s[i]
  <2>1. Rank(K, i) \in 1..Cardinality(K)
    BY <1>3, <1>4, RankRange
  <2>2. P[Rank(K, i)] = s[CHOOSE j \in K : Rank(K, j) = Rank(K, i)]
    BY <2>1 DEF Pick, Rank
  <2>3. ASSUME NEW j \in K, Rank(K, j) = Rank(K, i) PROVE j = i
    <3>1. /\ i < j => Rank(K, i) < Rank(K, j)
          /\ j < i => Rank(K, j) < Rank(K, i)
          /\ Rank(K, i) \in Nat /\ i \in Nat /\ j \in Nat
      BY <1>3, <1>4, <1>5, <2>1, RankRange
    <3>2. QED
      BY <2>3, <3>1
  <2>4. (CHOOSE j \in K : Rank(K, j) = Rank(K, i)) = i
    BY <2>3
  <2>5. QED
    BY <1>6, <2>1, <2>2, <2>4
<1>8. ASSUME NEW n \in DOMAIN P PROVE \E i \in K : Rank(K, i) = n
  BY <1>3, <1>4, <1>6, RankTaken
<1>9. ASSUME NEW n \in DOMAIN P PROVE P[n] \in S
  <2>1. PICK i \in K : Rank(K, i) = n
    BY <1>8
  <2>2. P[n] = s[i] /\ i \in DOMAIN s
    BY <1>7, <2>1
  <2> HIDE DEF P
  <2>3. QED
    BY <2>2
<1>10. P = [n \in 1..Cardinality(K) |-> P[n]]
  BY DEF Pick
<1> HIDE DEF P
<1>11. P \in Seq(S) /\ Len(P) = Cardinality(K)
  BY <1>5, <1>6, <1>9, <1>10
<1>12. QED
  BY <1>3, <1>4, <1>5, <1>6, <1>7, <1>8, <1>11 DEF P

\* ... in their order.
LEMMA PickOrder ==
  ASSUME NEW S, NEW s \in Seq(S), NEW K \in SUBSET DOMAIN s,
         NEW m \in DOMAIN Pick(s, K), NEW n \in DOMAIN Pick(s, K)
  PROVE  \E i, j \in K : /\ Pick(s, K)[m] = s[i] /\ Pick(s, K)[n] = s[j]
                         /\ m = n <=> i = j
                         /\ m < n => i < j
<1>1. PICK i \in K : Rank(K, i) = m
  BY PickType
<1>2. PICK j \in K : Rank(K, j) = n
  BY PickType
<1>3. Pick(s, K)[m] = s[i] /\ Pick(s, K)[n] = s[j]
  BY <1>1, <1>2, PickType
<1>4. /\ IsFiniteSet(K) /\ K \in SUBSET Nat /\ Cardinality(K) \in Nat
      /\ DOMAIN Pick(s, K) = 1..Cardinality(K)
  BY PickType
<1>5. i \in Nat /\ j \in Nat /\ m \in Nat /\ n \in Nat
  BY <1>4
<1>6. \A k, l \in K : k < l => Rank(K, k) < Rank(K, l)
  BY <1>4, RankRange
<1>7. m = n <=> i = j
  BY <1>1, <1>2, <1>5, <1>6
<1>8. m < n => i < j
  BY <1>1, <1>2, <1>5, <1>6, <1>7
<1>9. QED
  BY <1>3, <1>7, <1>8

\* The elements of a sequence.
LEMMA ElementType ==
  ASSUME NEW S, NEW s \in Seq(S)
  PROVE  Len(s) \in Nat /\ DOMAIN s = 1..Len(s) /\ \A i \in DOMAIN s : s[i] \in S
OBVIOUS

LEMMA EmptyType ==
  ASSUME NEW S
  PROVE  << >> \in Seq(S)
OBVIOUS

\* A set of numbers has a least one.
LEMMA LeastOf ==
  ASSUME NEW S \in SUBSET Nat, S # {}
  PROVE  \E m \in S : \A n \in S : m <= n
<1>1. \E m \in S : \A n \in S : ~ (<<n, m>> \in OpToRel(<, Nat))
  BY NatLessThanWellFounded, WFMin
<1>2. PICK m \in S : \A n \in S : ~ (<<n, m>> \in OpToRel(<, Nat))
  BY <1>1
<1>3. ASSUME NEW n \in S PROVE m <= n
  <2>1. <<n, m>> \in Nat \X Nat /\ ~ (<<n, m>> \in OpToRel(<, Nat))
    BY <1>2
  <2>2. ~(<<n, m>>[1] < <<n, m>>[2])
    BY <2>1 DEF OpToRel
  <2>3. QED
    BY <2>2
<1>4. QED
  BY <1>3

IsFirst(keys, i) == \A k \in DOMAIN keys : keys[k] = keys[i] => i <= k

\* Firsts has the first of every key, and no key twice.
LEMMA FirstsOf ==
  ASSUME NEW S, NEW s \in Seq(S), NEW keys, DOMAIN keys = DOMAIN s
  PROVE  /\ Firsts(s, keys) \in Seq(S)
         /\ \A m, n \in DOMAIN Firsts(s, keys) :
              \E i, j \in DOMAIN s :
                /\ Firsts(s, keys)[m] = s[i] /\ Firsts(s, keys)[n] = s[j]
                /\ IsFirst(keys, i)
                /\ keys[i] = keys[j] => m = n
         /\ \A i \in DOMAIN s :
              \E n \in DOMAIN Firsts(s, keys), j \in DOMAIN s :
                Firsts(s, keys)[n] = s[j] /\ keys[j] = keys[i] /\ j <= i
<1> DEFINE K == {i \in DOMAIN s : \A j \in 1..i - 1 : keys[j] # keys[i]}
<1>1. Firsts(s, keys) = Pick(s, K) /\ K \in SUBSET DOMAIN s
  BY DEF Firsts
<1>2. DOMAIN s = 1..Len(s) /\ Len(s) \in Nat
  OBVIOUS
<1>3. ASSUME NEW i \in K, NEW k \in DOMAIN s, keys[k] = keys[i] PROVE i <= k
  <2>1. i \in Nat /\ k \in Nat /\ 1 <= k /\ ~(k \in 1..i - 1)
    BY <1>2, <1>3
  <2>2. QED
    BY <2>1
<1>4. ASSUME NEW i \in DOMAIN s PROVE \E j \in K : keys[j] = keys[i] /\ j <= i
  <2> DEFINE Same == {k \in DOMAIN s : keys[k] = keys[i]}
  <2>1. Same \in SUBSET Nat /\ Same # {}
    BY <1>2
  <2>2. PICK j \in Same : \A k \in Same : j <= k
    BY <2>1, LeastOf
  <2>3. ASSUME NEW k \in 1..j - 1 PROVE keys[k] # keys[j]
    <3>1. k \in DOMAIN s /\ ~(j <= k)
      BY <1>2
    <3>2. QED
      BY <2>2, <3>1
  <2>4. j \in K
    BY <2>3
  <2>5. QED
    BY <2>2, <2>4
<1> HIDE DEF K
<1>5. ASSUME NEW m \in DOMAIN Pick(s, K), NEW n \in DOMAIN Pick(s, K)
      PROVE  \E i, j \in DOMAIN s :
               /\ Pick(s, K)[m] = s[i] /\ Pick(s, K)[n] = s[j]
               /\ IsFirst(keys, i)
               /\ keys[i] = keys[j] => m = n
  <2>1. PICK i \in K, j \in K : /\ Pick(s, K)[m] = s[i] /\ Pick(s, K)[n] = s[j]
                                /\ m = n <=> i = j
    BY <1>1, PickOrder
  <2>2. i \in DOMAIN s /\ j \in DOMAIN s /\ i \in Nat /\ j \in Nat
    BY <1>1, <1>2
  <2>3. keys[i] = keys[j] => i <= j /\ j <= i
    BY <1>3, <2>2
  <2>4. IsFirst(keys, i)
    BY <1>3 DEF IsFirst
  <2>5. keys[i] = keys[j] => m = n
    BY <2>1, <2>2, <2>3
  <2>6. QED
    BY <2>1, <2>2, <2>4, <2>5
<1>6. ASSUME NEW i \in DOMAIN s
      PROVE  \E n \in DOMAIN Pick(s, K), j \in DOMAIN s :
               Pick(s, K)[n] = s[j] /\ keys[j] = keys[i] /\ j <= i
  <2>1. PICK j \in K : keys[j] = keys[i] /\ j <= i
    BY <1>4
  <2>2. Rank(K, j) \in DOMAIN Pick(s, K) /\ Pick(s, K)[Rank(K, j)] = s[j]
    BY <1>1, PickType
  <2>3. QED
    BY <1>1, <2>1, <2>2
<1>7. Pick(s, K) \in Seq(S)
  BY <1>1, PickType
<1>8. QED
  BY <1>1, <1>5, <1>6, <1>7

\* What an extractor finds: its own kind, and every name at most once.
Extracted(source) == [name : Name, source_type : {source}, source_file : Nat]

LEMMA ExtractFinds ==
  ASSUME NEW r \in Repo, NEW source \in Extractor
  PROVE  /\ extract(r, source) \in Seq(Extracted(source))
         /\ \A m \in ToSet(r.mentions[source]) :
              \E n \in DOMAIN extract(r, source) : extract(r, source)[n].name = m.name
<1> DEFINE found == r.mentions[source]
           All == [i \in DOMAIN found |->
                     [name |-> found[i].name, source_type |-> source,
                      source_file |-> found[i].file]]
           keys == [i \in DOMAIN All |-> All[i].name]
<1>1. extract(r, source) = Firsts(All, keys)
  BY DEF extract
<1>2. found \in Seq([name : Name, file : Nat])
  <2>1. r \in RepoType
    BY PipelineConstants
  <2>2. QED
    BY <2>1 DEF RepoType
<1> HIDE DEF found
<1>3. All \in Seq(Extracted(source)) /\ DOMAIN All = DOMAIN found
  <2>1. Len(found) \in Nat /\ DOMAIN found = 1..Len(found)
    BY <1>2
  <2>2. ASSUME NEW i \in DOMAIN found PROVE All[i] \in Extracted(source)
    <3>1. found[i] \in [name : Name, file : Nat]
      BY <1>2, ElementType
    <3>2. found[i].name \in Name /\ found[i].file \in Nat
      BY <3>1
    <3>3. All[i] = [name |-> found[i].name, source_type |-> source,
                    source_file |-> found[i].file]
      OBVIOUS
    <3> HIDE DEF All
    <3>4. QED
      BY <3>2, <3>3 DEF Extracted
  <2>3. QED
    BY <2>1, <2>2
<1>4. \A i \in DOMAIN found : All[i].name = found[i].name /\ keys[i] = found[i].name
  OBVIOUS
<1>5. DOMAIN keys = DOMAIN All
  OBVIOUS
<1> HIDE DEF All, keys
<1>6. extract(r, source) \in Seq(Extracted(source))
  BY <1>1, <1>3, <1>5, FirstsOf
<1>7. ASSUME NEW m \in ToSet(found)
      PROVE  \E n \in DOMAIN extract(r, source) : extract(r, source)[n].name = m.name
  <2>1. PICK i \in DOMAIN found : m = found[i]
    BY DEF ToSet
  <2>2. PICK n \in DOMAIN Firsts(All, keys), j \in DOMAIN All :
               Firsts(All, keys)[n] = All[j] /\ keys[j] = keys[i]
    <3>1. \A k \in DOMAIN All :
            \E n \in DOMAIN Firsts(All, keys), j \in DOMAIN All :
              Firsts(All, keys)[n] = All[j] /\ keys[j] = keys[k] /\ j <= k
      BY <1>3, <1>5, FirstsOf
    <3>2. QED
      BY <1>3, <3>1
  <2>3. All[j].name = m.name
    BY <1>3, <1>4, <2>1, <2>2
  <2>4. QED
    BY <1>1, <2>2, <2>3
<1>8. QED
  BY <1>6, <1>7 DEF found

-----------------------------------------------------------------------------
(* The most trusted source has the last word.                              *)

Found == [name : Name, source_type : Extractor, source_file : Nat]

\* Everything the extractors find, as enriched_candidates chains it.
Every(r) ==
  dependency_manifest_candidates(r) \o adr_heading_candidates(r)
    \o class_name_candidates(r) \o document_ocr_candidates(r)

\* The elements of two sequences, one after the other.
LEMMA ConcatOf ==
  ASSUME NEW S, NEW s \in Seq(S), NEW t \in Seq(S)
  PROVE  /\ s \o t \in Seq(S) /\ Len(s \o t) = Len(s) + Len(t)
         /\ Len(s) \in Nat /\ Len(t) \in Nat
         /\ \A i \in DOMAIN s : i \in DOMAIN (s \o t) /\ (s \o t)[i] = s[i]
         /\ \A i \in DOMAIN t : Len(s) + i \in DOMAIN (s \o t) /\ (s \o t)[Len(s) + i] = t[i]
         /\ \A i \in DOMAIN (s \o t) :
              \/ i \in DOMAIN s /\ (s \o t)[i] = s[i]
              \/ /\ i - Len(s) \in DOMAIN t /\ i > Len(s)
                 /\ (s \o t)[i] = t[i - Len(s)]
<1>1. Len(s) \in Nat /\ Len(t) \in Nat /\ DOMAIN s = 1..Len(s) /\ DOMAIN t = 1..Len(t)
  OBVIOUS
<1>2. s \o t \in Seq(S) /\ Len(s \o t) = Len(s) + Len(t) /\ DOMAIN (s \o t) = 1..Len(s) + Len(t)
  OBVIOUS
<1>3. \A i \in DOMAIN (s \o t) : (s \o t)[i] = IF i <= Len(s) THEN s[i] ELSE t[i - Len(s)]
  OBVIOUS
<1>4. \A i \in DOMAIN s : i \in DOMAIN (s \o t) /\ (s \o t)[i] = s[i]
  BY <1>1, <1>2, <1>3
<1>5. \A i \in DOMAIN t : Len(s) + i \in DOMAIN (s \o t) /\ (s \o t)[Len(s) + i] = t[i]
  BY <1>1, <1>2, <1>3
<1>6. \A i \in DOMAIN (s \o t) :
        \/ i \in DOMAIN s /\ (s \o t)[i] = s[i]
        \/ i - Len(s) \in DOMAIN t /\ i > Len(s) /\ (s \o t)[i] = t[i - Len(s)]
  BY <1>1, <1>2, <1>3
<1>7. QED
  BY <1>1, <1>2, <1>4, <1>5, <1>6

LEMMA ConcatSet ==
  ASSUME NEW S, NEW s \in Seq(S), NEW t \in Seq(S)
  PROVE  s \o t \in Seq(S) /\ ToSet(s \o t) = ToSet(s) \cup ToSet(t)
<1> DEFINE u == s \o t
<1>1. s \o t \in Seq(S)
  OBVIOUS
<1>2. /\ \A i \in DOMAIN s : i \in DOMAIN u /\ u[i] = s[i]
      /\ \A i \in DOMAIN t : Len(s) + i \in DOMAIN u /\ u[Len(s) + i] = t[i]
  BY ConcatOf
<1>3. \A i \in DOMAIN u : \/ i \in DOMAIN s /\ u[i] = s[i]
                          \/ i - Len(s) \in DOMAIN t /\ u[i] = t[i - Len(s)]
  BY ConcatOf
<1> HIDE DEF u
<1>4. ToSet(u) \subseteq ToSet(s) \cup ToSet(t)
  BY <1>3 DEF ToSet
<1>5. ToSet(s) \subseteq ToSet(u) /\ ToSet(t) \subseteq ToSet(u)
  BY <1>2 DEF ToSet
<1>6. QED
  BY <1>1, <1>4, <1>5 DEF u

LEMMA EveryFinds ==
  ASSUME NEW r \in Repo
  PROVE  /\ Every(r) \in Seq(Found)
         /\ \A source \in Extractor : ToSet(extract(r, source)) \subseteq ToSet(Every(r))
<1>1. ASSUME NEW source \in Extractor PROVE extract(r, source) \in Seq(Found)
  <2>1. extract(r, source) \in Seq(Extracted(source))
    BY ExtractFinds
  <2>2. Extracted(source) \subseteq Found
    BY DEF Extracted, Found
  <2>3. QED
    BY <2>1, <2>2
<1>2. /\ extract(r, "DEPENDENCY_MANIFEST") \in Seq(Found)
      /\ extract(r, "ADR_HEADING") \in Seq(Found)
      /\ extract(r, "CLASS_NAME") \in Seq(Found)
      /\ extract(r, "DOCUMENT_OCR") \in Seq(Found)
  BY <1>1 DEF Extractor
<1> DEFINE a == extract(r, "DEPENDENCY_MANIFEST")
           b == extract(r, "ADR_HEADING")
           c == extract(r, "CLASS_NAME")
           d == extract(r, "DOCUMENT_OCR")
           ab == a \o b
           abc == ab \o c
<1>3. Every(r) = abc \o d
  BY DEF Every, dependency_manifest_candidates, adr_heading_candidates,
         class_name_candidates, document_ocr_candidates
<1>4. ab \in Seq(Found) /\ ToSet(ab) = ToSet(a) \cup ToSet(b)
  <2> HIDE DEF a, b
  <2>1. a \in Seq(Found) /\ b \in Seq(Found)
    BY <1>2 DEF a, b
  <2>2. QED
    BY <2>1, ConcatSet
<1> HIDE DEF ab
<1>5. abc \in Seq(Found) /\ ToSet(abc) = ToSet(ab) \cup ToSet(c)
  <2> HIDE DEF c
  <2>1. c \in Seq(Found)
    BY <1>2 DEF c
  <2>2. QED
    BY <1>4, <2>1, ConcatSet
<1> HIDE DEF abc
<1>6. Every(r) \in Seq(Found) /\ ToSet(Every(r)) = ToSet(abc) \cup ToSet(d)
  <2> HIDE DEF d
  <2>1. d \in Seq(Found)
    BY <1>2 DEF d
  <2>2. QED
    BY <1>3, <1>5, <2>1, ConcatSet
<1> HIDE DEF a, b, c, d
<1>7. /\ Every(r) \in Seq(Found)
      /\ ToSet(Every(r)) = ToSet(a) \cup ToSet(b) \cup ToSet(c) \cup ToSet(d)
  BY <1>4, <1>5, <1>6
<1>8. ASSUME NEW source \in Extractor PROVE ToSet(extract(r, source)) \subseteq ToSet(Every(r))
  <2>1. \/ extract(r, source) = a \/ extract(r, source) = b
        \/ extract(r, source) = c \/ extract(r, source) = d
    BY DEF Extractor, a, b, c, d
  <2>2. QED
    BY <1>7, <2>1
<1>9. QED
  BY <1>7, <1>8

RankOf(c) == confidence_rank(c.source_type)

LEMMA RankIs ==
  ASSUME NEW c \in Found
  PROVE  RankOf(c) \in 1..3
BY DEF RankOf, Found, Extractor, confidence_rank

\* Those of one rank.
Ranked(s, n) == Pick(s, {i \in DOMAIN s : confidence_rank(s[i].source_type) = n})

LEMMA RankedIs ==
  ASSUME NEW s \in Seq(Found), NEW n \in 1..3
  PROVE  /\ Ranked(s, n) \in Seq(Found)
         /\ \A i \in DOMAIN Ranked(s, n) : RankOf(Ranked(s, n)[i]) = n
         /\ \A c \in ToSet(s) : RankOf(c) = n => c \in ToSet(Ranked(s, n))
<1> DEFINE K == {i \in DOMAIN s : confidence_rank(s[i].source_type) = n}
           p == Ranked(s, n)
<1>1. K \in SUBSET DOMAIN s /\ \A i \in K : RankOf(s[i]) = n
  BY DEF RankOf
<1>2. \A i \in DOMAIN s : RankOf(s[i]) = n => i \in K
  BY DEF RankOf
<1>3. p = Pick(s, K)
  BY DEF Ranked
<1> HIDE DEF K, p
<1>4. p \in Seq(Found) /\ \A i \in K : Rank(K, i) \in DOMAIN p /\ p[Rank(K, i)] = s[i]
  BY <1>1, <1>3, PickType
<1>5. ASSUME NEW i \in DOMAIN p PROVE RankOf(p[i]) = n
  <2>1. PICK j \in K : Rank(K, j) = i
    BY <1>1, <1>3, PickType
  <2>2. QED
    BY <1>1, <1>4, <2>1
<1>6. ASSUME NEW c \in ToSet(s), RankOf(c) = n PROVE c \in ToSet(p)
  <2>1. PICK i \in DOMAIN s : c = s[i]
    BY DEF ToSet
  <2>2. i \in K
    BY <1>2, <1>6, <2>1
  <2>3. QED
    BY <1>4, <2>1, <2>2 DEF ToSet
<1>7. QED
  BY <1>4, <1>5, <1>6 DEF p

\* ByTrust has everything that is found, and is sorted.
LEMMA ByTrustSorts ==
  ASSUME NEW r \in Repo
  PROVE  /\ ByTrust(r) \in Seq(Found)
         /\ ToSet(Every(r)) \subseteq ToSet(ByTrust(r))
         /\ \A i, j \in DOMAIN ByTrust(r) :
              i <= j => RankOf(ByTrust(r)[i]) <= RankOf(ByTrust(r)[j])
<1> DEFINE p == Ranked(Every(r), 1)
           q == Ranked(Every(r), 2)
           t == Ranked(Every(r), 3)
<1>1. ByTrust(r) = (p \o q) \o t
  BY DEF ByTrust, Every, Ranked
<1>2. Every(r) \in Seq(Found)
  BY EveryFinds
<1>3. \A n \in 1..3 :
        /\ Ranked(Every(r), n) \in Seq(Found)
        /\ \A i \in DOMAIN Ranked(Every(r), n) : RankOf(Ranked(Every(r), n)[i]) = n
        /\ \A c \in ToSet(Every(r)) : RankOf(c) = n => c \in ToSet(Ranked(Every(r), n))
  BY <1>2, RankedIs
<1>4. p \in Seq(Found) /\ q \in Seq(Found) /\ t \in Seq(Found)
  BY <1>3
<1>5. /\ \A i \in DOMAIN p : RankOf(p[i]) = 1
      /\ \A i \in DOMAIN q : RankOf(q[i]) = 2
      /\ \A i \in DOMAIN t : RankOf(t[i]) = 3
  BY <1>3
<1>6. \A c \in ToSet(Every(r)) :
        /\ RankOf(c) = 1 => c \in ToSet(p)
        /\ RankOf(c) = 2 => c \in ToSet(q)
        /\ RankOf(c) = 3 => c \in ToSet(t)
  BY <1>3
<1> HIDE DEF p, q, t
<1>7. p \o q \in Seq(Found) /\ ToSet(p \o q) = ToSet(p) \cup ToSet(q)
  BY <1>4, ConcatSet
<1>8. /\ ByTrust(r) \in Seq(Found)
      /\ ToSet(ByTrust(r)) = ToSet(p) \cup ToSet(q) \cup ToSet(t)
  <2> DEFINE pq == p \o q
  <2>1. ByTrust(r) = pq \o t /\ pq \in Seq(Found) /\ ToSet(pq) = ToSet(p) \cup ToSet(q)
    BY <1>1, <1>7
  <2> HIDE DEF pq
  <2>2. pq \o t \in Seq(Found) /\ ToSet(pq \o t) = ToSet(pq) \cup ToSet(t)
    BY <1>4, <2>1, ConcatSet
  <2>3. QED
    BY <2>1, <2>2
<1>9. ASSUME NEW c \in ToSet(Every(r)) PROVE c \in ToSet(ByTrust(r))
  <2>1. c \in Found
    BY <1>2 DEF ToSet
  <2>2. RankOf(c) \in 1..3
    BY <2>1, RankIs
  <2>3. QED
    BY <1>6, <1>8, <2>2
<1>10. ASSUME NEW i \in DOMAIN (p \o q), NEW j \in DOMAIN (p \o q), i <= j
       PROVE  /\ RankOf((p \o q)[i]) <= RankOf((p \o q)[j])
              /\ RankOf((p \o q)[i]) <= 2
  <2>1. \/ i \in DOMAIN p /\ (p \o q)[i] = p[i]
        \/ i - Len(p) \in DOMAIN q /\ i > Len(p) /\ (p \o q)[i] = q[i - Len(p)]
    BY <1>4, ConcatOf
  <2>2. \/ j \in DOMAIN p /\ (p \o q)[j] = p[j]
        \/ j - Len(p) \in DOMAIN q /\ j > Len(p) /\ (p \o q)[j] = q[j - Len(p)]
    BY <1>4, ConcatOf
  <2>3. Len(p) \in Nat /\ DOMAIN p = 1..Len(p) /\ i \in Nat /\ j \in Nat
    BY <1>4, <1>7
  <2>4. CASE i \in DOMAIN p /\ (p \o q)[i] = p[i]
    BY <1>5, <2>2, <2>4
  <2>5. CASE i - Len(p) \in DOMAIN q /\ i > Len(p) /\ (p \o q)[i] = q[i - Len(p)]
    <3>1. ~(j \in DOMAIN p)
      BY <1>10, <2>3, <2>5
    <3>2. QED
      BY <1>5, <2>2, <2>5, <3>1
  <2>6. QED
    BY <2>1, <2>4, <2>5
<1>11. ASSUME NEW i \in DOMAIN ByTrust(r), NEW j \in DOMAIN ByTrust(r), i <= j
       PROVE  RankOf(ByTrust(r)[i]) <= RankOf(ByTrust(r)[j])
  <2> DEFINE pq == p \o q
             B == ByTrust(r)
  <2>1. \/ i \in DOMAIN pq /\ B[i] = pq[i]
        \/ i - Len(pq) \in DOMAIN t /\ i > Len(pq) /\ B[i] = t[i - Len(pq)]
    BY <1>1, <1>4, <1>7, ConcatOf
  <2>2. \/ j \in DOMAIN pq /\ B[j] = pq[j]
        \/ j - Len(pq) \in DOMAIN t /\ j > Len(pq) /\ B[j] = t[j - Len(pq)]
    BY <1>1, <1>4, <1>7, ConcatOf
  <2>3. Len(pq) \in Nat /\ DOMAIN pq = 1..Len(pq) /\ i \in Nat /\ j \in Nat
    BY <1>7, <1>8
  <2>4. /\ \A k, l \in DOMAIN pq : k <= l => RankOf(pq[k]) <= RankOf(pq[l])
        /\ \A k \in DOMAIN pq : RankOf(pq[k]) <= 2
    BY <1>10, <2>3
  <2> HIDE DEF pq, B
  <2>5. RankOf(B[i]) <= RankOf(B[j])
    <3>1. CASE i \in DOMAIN pq /\ B[i] = pq[i] /\ j \in DOMAIN pq /\ B[j] = pq[j]
      BY <1>11, <2>4, <3>1
    <3>2. CASE /\ i \in DOMAIN pq /\ B[i] = pq[i]
               /\ j - Len(pq) \in DOMAIN t /\ B[j] = t[j - Len(pq)]
      <4>1. RankOf(B[i]) <= 2 /\ RankOf(B[j]) = 3 /\ RankOf(B[i]) \in 1..3
        <5>1. B[i] \in Found
          BY <1>8 DEF B
        <5>2. QED
          BY <1>5, <2>4, <3>2, <5>1, RankIs
      <4>2. QED
        BY <4>1
    <3>3. CASE /\ i - Len(pq) \in DOMAIN t /\ i > Len(pq) /\ B[i] = t[i - Len(pq)]
      <4>1. ~(j \in DOMAIN pq)
        BY <1>11, <2>3, <3>3
      <4>2. QED
        BY <1>5, <2>2, <3>3, <4>1
    <3>4. QED
      BY <2>1, <2>2, <3>1, <3>2, <3>3
  <2>6. QED
    BY <2>5 DEF B
<1>12. QED
  BY <1>8, <1>9, <1>11

\* The names enriched_candidates keeps of what was found: one of every term,
\* from a source that none of the others outranks.
OnePerTerm(F, r) ==
  /\ F \in Seq(Found)
  /\ \A m, n \in DOMAIN F : KeyOf(F[m]) = KeyOf(F[n]) => m = n
  /\ \A n \in DOMAIN F : \A c \in ToSet(Every(r)) :
       KeyOf(c) = KeyOf(F[n]) => RankOf(F[n]) <= RankOf(c)

LEMMA FirstsAreBest ==
  ASSUME NEW r \in Repo
  PROVE  OnePerTerm(Firsts(ByTrust(r), KeysOf(ByTrust(r))), r)
<1> DEFINE B == ByTrust(r)
           keys == KeysOf(B)
           F == Firsts(B, keys)
<1>1. /\ B \in Seq(Found) /\ ToSet(Every(r)) \subseteq ToSet(B)
      /\ \A i, j \in DOMAIN B : i <= j => RankOf(B[i]) <= RankOf(B[j])
  BY ByTrustSorts
<1>2. DOMAIN keys = DOMAIN B /\ \A i \in DOMAIN B : keys[i] = KeyOf(B[i])
  BY DEF KeysOf
<1> HIDE DEF B, keys
<1>3. /\ F \in Seq(Found)
      /\ \A m, n \in DOMAIN F :
           \E i, j \in DOMAIN B :
             /\ F[m] = B[i] /\ F[n] = B[j]
             /\ IsFirst(keys, i)
             /\ keys[i] = keys[j] => m = n
  <2>1. B \in Seq(Found) /\ DOMAIN keys = DOMAIN B
    BY <1>1, <1>2
  <2>2. QED
    BY <2>1, FirstsOf
<1> HIDE DEF F
<1>4. ASSUME NEW m \in DOMAIN F, NEW n \in DOMAIN F, KeyOf(F[m]) = KeyOf(F[n]) PROVE m = n
  <2>1. PICK i \in DOMAIN B, j \in DOMAIN B :
               F[m] = B[i] /\ F[n] = B[j] /\ (keys[i] = keys[j] => m = n)
    BY <1>3
  <2>2. QED
    BY <1>2, <1>4, <2>1
<1>5. ASSUME NEW n \in DOMAIN F, NEW c \in ToSet(Every(r)), KeyOf(c) = KeyOf(F[n])
      PROVE  RankOf(F[n]) <= RankOf(c)
  <2>1. PICK i \in DOMAIN B : F[n] = B[i] /\ IsFirst(keys, i)
    BY <1>3
  <2>2. PICK k \in DOMAIN B : c = B[k]
    BY <1>1 DEF ToSet
  <2>3. keys[k] = keys[i]
    BY <1>2, <1>5, <2>1, <2>2
  <2>4. i <= k
    BY <1>2, <2>1, <2>3 DEF IsFirst
  <2>5. QED
    BY <1>1, <2>1, <2>2, <2>4
<1>6. OnePerTerm(F, r)
  BY <1>3, <1>4, <1>5 DEF OnePerTerm
<1>7. QED
  BY <1>6 DEF F, keys, B

LEMMA ToDraftIsBest ==
  ASSUME NEW r \in Repo
  PROVE  /\ OnePerTerm(ToDraft[r], r)
         /\ \A n \in DOMAIN ToDraft[r], i \in DOMAIN r.curated :
              KeyOf(ToDraft[r][n]) # Key[r.curated[i].name]
<1> DEFINE F == Firsts(ByTrust(r), KeysOf(ByTrust(r)))
           curated == {Key[r.curated[i].name] : i \in DOMAIN r.curated}
           K == {i \in DOMAIN F : KeyOf(F[i]) \notin curated}
           T == Pick(F, K)
<1>1. ToDraft[r] = T
  BY DEF ToDraft
<1>2. OnePerTerm(F, r)
  BY FirstsAreBest
<1> HIDE DEF F
<1>3. K \in SUBSET DOMAIN F /\ \A i \in K : KeyOf(F[i]) \notin curated
  OBVIOUS
<1> HIDE DEF K
<1>4. F \in Seq(Found)
  BY <1>2 DEF OnePerTerm
<1>5. T \in Seq(Found)
  BY <1>3, <1>4, PickType
<1>6. \A m, n \in DOMAIN T : \E i, j \in K : /\ T[m] = F[i] /\ T[n] = F[j]
                                             /\ m = n <=> i = j
  BY <1>3, <1>4, PickOrder
<1> HIDE DEF T
<1>7. ASSUME NEW m \in DOMAIN T, NEW n \in DOMAIN T, KeyOf(T[m]) = KeyOf(T[n]) PROVE m = n
  <2>1. PICK i \in K, j \in K : T[m] = F[i] /\ T[n] = F[j] /\ (m = n <=> i = j)
    BY <1>6
  <2>2. QED
    BY <1>2, <1>3, <1>7, <2>1 DEF OnePerTerm
<1>8. ASSUME NEW n \in DOMAIN T
      PROVE  /\ KeyOf(T[n]) \notin curated
             /\ \A c \in ToSet(Every(r)) : KeyOf(c) = KeyOf(T[n]) => RankOf(T[n]) <= RankOf(c)
  <2>1. PICK i \in K : T[n] = F[i]
    BY <1>6
  <2>2. i \in DOMAIN F
    BY <1>3
  <2> HIDE DEF curated
  <2>3. KeyOf(T[n]) \notin curated
    BY <1>3, <2>1
  <2>4. QED
    BY <1>2, <2>1, <2>2, <2>3 DEF OnePerTerm
<1>9. OnePerTerm(T, r)
  BY <1>5, <1>7, <1>8 DEF OnePerTerm
<1>10. QED
  BY <1>1, <1>8, <1>9

-----------------------------------------------------------------------------
(* The invariant.                                                          *)

\* What may ever be submitted: the curated terms, and what is drafted.
Chosen(r) ==
  {curated_pairs(r)[i].candidate : i \in DOMAIN curated_pairs(r)} \cup ToSet(ToDraft[r])

\* What TypeOK says of the graph; and one pass is always left to a node that
\* retrieves.
GraphOK ==
  /\ node \in Node
  /\ retrieval_passes \in 0..MAX_RETRIEVAL_PASSES
  /\ node # "retrieve" => retrieval_passes > 0
  /\ node = "retrieve" => retrieval_passes < MAX_RETRIEVAL_PASSES

\* What it says of the job.
JobOK ==
  /\ repo \in Repo
  /\ was \in Seq(Repo) /\ Len(was) = launches /\ was[launches] = repo
  /\ launches \in 1..MaxLaunches
  /\ step \in [Step -> {"waiting", "done", "failed"}]
  /\ drafted \in Seq(Draft)
  /\ validated \in Seq([candidate : Candidate, term : Shape])
  /\ position \in [Submitter -> Nat]
  /\ ids \in [Submitter -> Seq(DOMAIN review_queue)]
  /\ rejected \in [Submitter -> Seq(Name)]
  /\ review_queue \in Seq(Submission)

\* A repeated curated term stops the job before there is anything to submit.
CuratedOnce ==
  step["enriched"] = "done" \/ drafted # << >> \/ validated # << >> =>
    Distinct(curated_pairs(repo))

AllChosen ==
  /\ Len(drafted) <= Len(ToDraft[repo])
  /\ \A i \in DOMAIN validated : validated[i].candidate \in Chosen(repo)

\* What is in the queue was chosen from the files of the launch that put it there.
Sourced(e) ==
  /\ e.launch <= launches
  /\ e.candidate \in Chosen(was[e.launch]) /\ Distinct(curated_pairs(was[e.launch]))

AllSourced == \A i \in DOMAIN review_queue : Sourced(review_queue[i])

\* A step that has begun has its inputs.
InputsDone ==
  /\ step["enriched"] = "done" => \A s \in Extractor : step[s] = "done"
  /\ step["validated"] = "done" => step["enriched"] = "done"
  /\ \A s \in Submitter :
       step[s] # "waiting" \/ position[s] # 0 => step["validated"] = "done"

\* What a submitter is done with is in the queue or was rejected.
Behind(s)  == {validated[i].candidate.name : i \in 1..position[s]}
InQueue(s) == {review_queue[i].candidate.name : i \in ToSet(ids[s])}

Accounted(s) ==
  /\ Len(ids[s]) + Len(rejected[s]) = position[s]
  /\ position[s] <= Len(validated)
  /\ step[s] = "done" => position[s] = Len(validated)
  /\ Behind(s) = InQueue(s) \cup ToSet(rejected[s])

\* How far a submitter may have come: one further if it failed unanswered.
Reached(s) == 1..(IF step[s] = "failed" THEN position[s] + 1 ELSE position[s])

\* What the present launch has put into the queue.
Submitted(e) ==
  /\ e.launch <= launches
  /\ e.launch = launches =>
       \E j \in DOMAIN validated \cap Reached(e.by) : validated[j].candidate = e.candidate

QueueOK ==
  /\ \A i \in DOMAIN review_queue : Submitted(review_queue[i])
  /\ IsInjective(review_queue)

JobInv ==
  /\ JobOK /\ CuratedOnce /\ AllChosen /\ AllSourced /\ InputsDone
  /\ Distinct(validated)
  /\ \A s \in Submitter : Accounted(s)
  /\ QueueOK

PipelineInv == GraphOK /\ JobInv

-----------------------------------------------------------------------------
(* What is chosen.                                                         *)

LEMMA CuratedType ==
  ASSUME NEW r \in Repo
  PROVE  /\ r.curated \in Seq([name : Name, shape : Shape])
         /\ DOMAIN curated_pairs(r) = DOMAIN r.curated
         /\ curated_pairs(r) \in Seq([candidate : Candidate, term : Shape])
         /\ \A i \in DOMAIN r.curated :
              /\ KeyOf(curated_pairs(r)[i].candidate) = Key[r.curated[i].name]
              /\ curated_pairs(r)[i].candidate.source_type = "CURATED"
<1> DEFINE c == r.curated
           p == curated_pairs(r)
<1>1. c \in Seq([name : Name, shape : Shape])
  <2>1. r \in RepoType
    BY PipelineConstants
  <2>2. QED
    BY <2>1 DEF RepoType
<1>2. p = [i \in DOMAIN c |->
             [candidate |-> [name |-> c[i].name, source_type |-> "CURATED", source_file |-> 0],
              term |-> c[i].shape]]
  BY DEF curated_pairs
<1> HIDE DEF c, p
<1>3. Len(c) \in Nat /\ DOMAIN c = 1..Len(c)
  BY <1>1, ElementType
<1>4. ASSUME NEW i \in DOMAIN c
      PROVE  /\ p[i] \in [candidate : Candidate, term : Shape]
             /\ KeyOf(p[i].candidate) = Key[c[i].name]
             /\ p[i].candidate.source_type = "CURATED"
  <2>1. c[i] \in [name : Name, shape : Shape]
    BY <1>1, ElementType
  <2>2. c[i].name \in Name /\ c[i].shape \in Shape
    BY <2>1
  <2>3. p[i] = [candidate |-> [name |-> c[i].name, source_type |-> "CURATED",
                               source_file |-> 0],
                term |-> c[i].shape]
    BY <1>2
  <2>4. [name |-> c[i].name, source_type |-> "CURATED", source_file |-> 0] \in Candidate
    BY <2>2 DEF Candidate, SourceType
  <2>5. QED
    BY <2>2, <2>3, <2>4 DEF KeyOf
<1>5. DOMAIN p = DOMAIN c
  BY <1>2
<1>6. p \in Seq([candidate : Candidate, term : Shape])
  <2>1. p = [i \in 1..Len(c) |-> p[i]]
    BY <1>2, <1>3
  <2>2. QED
    BY <1>3, <1>4, <2>1
<1>7. QED
  BY <1>1, <1>4, <1>5, <1>6 DEF c, p

LEMMA ChosenType ==
  ASSUME NEW r \in Repo
  PROVE  Chosen(r) \subseteq Candidate
<1>1. ASSUME NEW i \in DOMAIN curated_pairs(r) PROVE curated_pairs(r)[i].candidate \in Candidate
  <2>1. curated_pairs(r)[i] \in [candidate : Candidate, term : Shape]
    BY CuratedType, ElementType
  <2>2. QED
    BY <2>1
<1>2. ToSet(ToDraft[r]) \subseteq Candidate
  <2>1. ToDraft[r] \in Seq(Found)
    BY ToDraftIsBest DEF OnePerTerm
  <2>2. Found \subseteq Candidate
    BY DEF Found, Candidate, SourceType
  <2>3. QED
    BY <2>1, <2>2, ElementType DEF ToSet
<1>3. QED
  BY <1>1, <1>2 DEF Chosen

\* Of every term at most one candidate is chosen.
LEMMA ChosenOnce ==
  ASSUME NEW r \in Repo, Distinct(curated_pairs(r)),
         NEW c \in Chosen(r), NEW d \in Chosen(r), KeyOf(c) = KeyOf(d)
  PROVE  c = d
<1> DEFINE p == curated_pairs(r)
           T == ToDraft[r]
<1>1. \A i, j \in DOMAIN p : KeyOf(p[i].candidate) = KeyOf(p[j].candidate) => i = j
  BY DEF Distinct, IsInjective
<1>2. \A i, j \in DOMAIN T : KeyOf(T[i]) = KeyOf(T[j]) => i = j
  BY ToDraftIsBest DEF OnePerTerm
<1>3. \A n \in DOMAIN T, i \in DOMAIN p : KeyOf(T[n]) # KeyOf(p[i].candidate)
  BY ToDraftIsBest, CuratedType
<1>4. (\E i \in DOMAIN p : c = p[i].candidate) \/ (\E i \in DOMAIN T : c = T[i])
  BY DEF Chosen, ToSet
<1>5. (\E i \in DOMAIN p : d = p[i].candidate) \/ (\E i \in DOMAIN T : d = T[i])
  BY DEF Chosen, ToSet
<1> HIDE DEF p, T
<1>6. QED
  BY <1>1, <1>2, <1>3, <1>4, <1>5

\* It comes from a source that none of those with the term outranks.
LEMMA ChosenBest ==
  ASSUME NEW r \in Repo, NEW c \in Chosen(r), NEW source \in Naming(r, KeyOf(c))
  PROVE  confidence_rank(c.source_type) <= confidence_rank(source)
<1> DEFINE p == curated_pairs(r)
           T == ToDraft[r]
<1>1. CASE \E i \in DOMAIN p : c = p[i].candidate
  <2>1. c.source_type = "CURATED"
    BY <1>1, CuratedType
  <2>2. source \in SourceType
    BY DEF Naming, SourceType
  <2>3. QED
    BY <2>1, <2>2 DEF confidence_rank, SourceType, Extractor
<1>2. CASE \E i \in DOMAIN T : c = T[i]
  <2>1. PICK n \in DOMAIN T : c = T[n]
    BY <1>2
  <2>2. \A i \in DOMAIN r.curated : KeyOf(c) # Key[r.curated[i].name]
    BY <2>1, ToDraftIsBest
  <2>3. source \in Extractor /\ \E m \in ToSet(r.mentions[source]) : Key[m.name] = KeyOf(c)
    BY <2>2 DEF Naming, ToSet
  <2>4. PICK m \in ToSet(r.mentions[source]) : Key[m.name] = KeyOf(c)
    BY <2>3
  <2>5. PICK k \in DOMAIN extract(r, source) : extract(r, source)[k].name = m.name
    BY <2>3, ExtractFinds
  <2> DEFINE d == extract(r, source)[k]
  <2>6. d \in Extracted(source) /\ d \in ToSet(extract(r, source))
    <3>1. extract(r, source) \in Seq(Extracted(source))
      BY <2>3, ExtractFinds
    <3>2. QED
      BY <3>1, ElementType DEF ToSet
  <2>7. KeyOf(d) = KeyOf(c) /\ d \in ToSet(Every(r))
    BY <2>3, <2>4, <2>5, <2>6, EveryFinds DEF KeyOf
  <2>8. d.source_type = source
    BY <2>6 DEF Extracted
  <2> HIDE DEF d
  <2>9. RankOf(c) <= RankOf(d)
    BY <2>1, <2>7, ToDraftIsBest DEF OnePerTerm
  <2>10. QED
    BY <2>8, <2>9 DEF RankOf
<1>3. QED
  BY <1>1, <1>2 DEF Chosen, ToSet

-----------------------------------------------------------------------------
(* The steps of the job keep the invariant.                                *)

LEMMA SubmittersAreSteps == Submitter \subseteq Step /\ "enriched" \in Step /\ "validated" \in Step
BY DEF Step

LEMMA ExtractorsAreSteps ==
  Extractor \subseteq Step /\ "enriched" \notin Extractor /\ "validated" \notin Extractor
BY DEF Step, Extractor

\* A row stays what it is while the launch goes on.
LEMMA SourcedKept ==
  ASSUME AllSourced, UNCHANGED <<was, launches, review_queue>>
  PROVE  AllSourced'
BY DEF AllSourced, Sourced

LEMMA InitInv == Init => PipelineInv
<1> SUFFICES ASSUME Init PROVE PipelineInv
  OBVIOUS
<1>1. GraphOK
  BY PipelineConstants DEF Init, GraphOK, Node
<1>2. JobOK
  BY PipelineConstants DEF Init, JobOK
<1>3. CuratedOnce /\ InputsDone
  BY SubmittersAreSteps DEF Init, CuratedOnce, InputsDone
<1>4. AllChosen
  <2>1. ToDraft[repo] \in Seq(Found)
    BY ToDraftIsBest DEF Init, OnePerTerm
  <2>2. Len(ToDraft[repo]) \in Nat
    BY <2>1
  <2>3. QED
    BY <2>2 DEF Init, AllChosen
<1>5. Distinct(validated) /\ QueueOK /\ AllSourced
  BY DEF Init, Distinct, IsInjective, QueueOK, AllSourced
<1>6. ASSUME NEW s \in Submitter PROVE Accounted(s)
  <2>1. /\ ids[s] = << >> /\ rejected[s] = << >> /\ position[s] = 0 /\ validated = << >>
        /\ step[s] = "waiting"
    BY SubmittersAreSteps DEF Init
  <2>2. ToSet(ids[s]) = {} /\ ToSet(rejected[s]) = {}
    BY <2>1 DEF ToSet
  <2>3. QED
    BY <2>1, <2>2 DEF Accounted, Behind, InQueue
<1>7. QED
  BY <1>1, <1>2, <1>3, <1>4, <1>5, <1>6 DEF PipelineInv, JobInv

\* Nothing but the state of one step changes: it is done, or failed.
LEMMA StepEnds ==
  ASSUME JobInv, NEW s \in Step, NEW v \in {"done", "failed"}, Running(s),
         step' = [step EXCEPT ![s] = v],
         UNCHANGED <<repo, was, launches, drafted, validated, loops, review_queue>>,
         s = "validated" => v = "failed",
         s = "enriched" /\ v = "done" => Distinct(curated_pairs(repo)),
         s \in Submitter /\ v = "done" => position[s] = Len(validated)
  PROVE  JobInv'
<1>1. UNCHANGED <<repo, was, launches, drafted, validated, position, ids, rejected, review_queue>>
  BY DEF loops
<1>2. /\ step'[s] = v /\ step[s] = "waiting"
      /\ \A t \in Step : t # s => step'[t] = step[t]
      /\ step' \in [Step -> {"waiting", "done", "failed"}]
  BY DEF JobInv, JobOK, Running
<1>3. JobOK'
  BY <1>1, <1>2 DEF JobInv, JobOK
<1>4. CuratedOnce'
  BY <1>1, <1>2, SubmittersAreSteps DEF JobInv, CuratedOnce
<1>5. AllChosen' /\ AllSourced' /\ Distinct(validated)'
  BY <1>1, SourcedKept DEF JobInv, AllChosen
<1>6. InputsDone'
  <2>1. s \in Submitter => step["validated"] = "done"
    BY DEF Running, Inputs, Submitter, Extractor
  <2>2. step["validated"] = "done" => step'["validated"] = "done"
    BY <1>2, SubmittersAreSteps
  <2>3. ASSUME NEW t \in Submitter, step'[t] # "waiting" \/ position'[t] # 0
        PROVE  step'["validated"] = "done"
    <3>1. CASE t = s
      BY <2>1, <2>2, <3>1
    <3>2. CASE t # s
      BY <1>1, <1>2, <2>2, <2>3, <3>2, SubmittersAreSteps DEF JobInv, InputsDone
    <3>3. QED
      BY <3>1, <3>2
  <2>4. step'["validated"] = "done" => step'["enriched"] = "done"
    BY <1>2, SubmittersAreSteps DEF JobInv, InputsDone
  <2>5. ASSUME step'["enriched"] = "done", NEW x \in Extractor PROVE step'[x] = "done"
    <3>1. step[x] = "done"
      <4>1. CASE s = "enriched"
        <5>1. Inputs("enriched") = Extractor
          BY ExtractorsAreSteps DEF Inputs, Submitter
        <5>2. QED
          BY <4>1, <5>1 DEF Running
      <4>2. CASE s # "enriched"
        BY <1>2, <2>5, <4>2, SubmittersAreSteps DEF JobInv, InputsDone
      <4>3. QED
        BY <4>1, <4>2
    <3>2. QED
      BY <1>2, <3>1, ExtractorsAreSteps
  <2>6. QED
    BY <2>3, <2>4, <2>5 DEF InputsDone
<1>7. ASSUME NEW t \in Submitter PROVE Accounted(t)'
  <2>1. Accounted(t) /\ t \in Step
    BY SubmittersAreSteps DEF JobInv
  <2>2. step'[t] = "done" => position[t] = Len(validated)
    BY <1>2, <2>1 DEF Accounted
  <2>3. QED
    BY <1>1, <2>1, <2>2, ZenonT(30) DEF Accounted, Behind, InQueue
<1>8. QueueOK'
  <2>1. ASSUME NEW i \in DOMAIN review_queue PROVE Submitted(review_queue[i])'
    <3> DEFINE e == review_queue[i]
    <3>1. Submitted(e) /\ e.by \in Submitter /\ e.by \in Step
      <4>1. e \in Submission
        BY ElementType DEF JobInv, JobOK
      <4>2. QED
        BY <4>1, SubmittersAreSteps DEF JobInv, QueueOK, Submission
    <3>2. Reached(e.by) \subseteq Reached(e.by)'
      <4>1. position[e.by] \in Nat
        BY <3>1 DEF JobInv, JobOK
      <4>2. step[e.by] = "failed" => step'[e.by] = "failed"
        BY <1>2, <3>1
      <4>3. QED
        BY <1>1, <4>1, <4>2 DEF Reached
    <3>3. QED
      BY <1>1, <3>1, <3>2 DEF Submitted
  <2>2. QED
    BY <1>1, <2>1 DEF JobInv, QueueOK
<1>9. QED
  BY <1>3, <1>4, <1>5, <1>6, <1>7, <1>8 DEF JobInv

LEMMA ExtractFailFinishKeep ==
  ASSUME JobInv, NEW s \in Step, Extract(s) \/ Fail(s) \/ (s \in Submitter /\ Finish(s))
  PROVE  JobInv'
<1>1. CASE Extract(s)
  <2>1. s \notin Submitter /\ s # "enriched" /\ s # "validated"
    BY <1>1 DEF Extract, Extractor, Submitter
  <2>2. QED
    BY <1>1, <2>1, StepEnds DEF Extract, files
<1>2. CASE Fail(s)
  BY <1>2, StepEnds DEF Fail, files
<1>3. CASE s \in Submitter /\ Finish(s)
  <2>1. s # "enriched" /\ s # "validated"
    BY <1>3 DEF Submitter
  <2>2. QED
    BY <1>3, <2>1, StepEnds DEF Finish, AtEnd, files
<1>4. QED
  BY <1>1, <1>2, <1>3

\* While a step still waits for validated_candidates, no submitter has begun.
LEMMA NoneBegun ==
  ASSUME JobInv, step["validated"] # "done", NEW s \in Submitter
  PROVE  step[s] = "waiting" /\ position[s] = 0
BY DEF JobInv, InputsDone

LEMMA EnrichKeeps ==
  ASSUME JobInv, Enrich
  PROVE  JobInv'
<1>1. CASE ~Distinct(curated_pairs(repo))
  BY <1>1, StepEnds, SubmittersAreSteps DEF Enrich, Submitter, files
<1>2. CASE Distinct(curated_pairs(repo)) /\ ~(Len(drafted) < Len(ToDraft[repo]))
  BY <1>2, StepEnds, SubmittersAreSteps DEF Enrich, Submitter, files
<1>3. CASE Distinct(curated_pairs(repo)) /\ Len(drafted) < Len(ToDraft[repo])
  <2>1. PICK d \in Draft : drafted' = Append(drafted, d)
    BY <1>3 DEF Enrich
  <2>2. UNCHANGED <<repo, was, launches, step, validated, position, ids, rejected, review_queue>>
    BY <1>3 DEF Enrich, loops, files
  <2>3. drafted \in Seq(Draft) /\ Len(drafted) \in Nat /\ Len(ToDraft[repo]) \in Nat
    <3>1. drafted \in Seq(Draft) /\ repo \in Repo
      BY DEF JobInv, JobOK
    <3>2. ToDraft[repo] \in Seq(Found)
      BY <3>1, ToDraftIsBest DEF OnePerTerm
    <3>3. QED
      BY <3>1, <3>2
  <2>4. drafted' \in Seq(Draft) /\ Len(drafted') = Len(drafted) + 1
    BY <2>1, <2>3
  <2>5. JobOK'
    BY <2>2, <2>4 DEF JobInv, JobOK
  <2>6. CuratedOnce' /\ InputsDone' /\ Distinct(validated)'
    BY <1>3, <2>2 DEF JobInv, CuratedOnce, InputsDone
  <2>7. AllChosen' /\ AllSourced'
    BY <1>3, <2>2, <2>3, <2>4, SourcedKept DEF JobInv, AllChosen
  <2>8. ASSUME NEW s \in Submitter PROVE Accounted(s)'
    <3>1. Accounted(s)
      BY DEF JobInv
    <3>2. QED
      BY <2>2, <3>1, ZenonT(30) DEF Accounted, Behind, InQueue
  <2>9. QueueOK'
    BY <2>2 DEF JobInv, QueueOK, Submitted, Reached
  <2>10. QED
    BY <2>5, <2>6, <2>7, <2>8, <2>9 DEF JobInv
<1>4. QED
  BY <1>1, <1>2, <1>3

Pair == [candidate : Candidate, term : Shape]

LEMMA ValidIs ==
  ASSUME JobInv
  PROVE  Valid \in Seq({x \in Pair : x.candidate \in Chosen(repo)})
<1> DEFINE S == {x \in Pair : x.candidate \in Chosen(repo)}
           T == ToDraft[repo]
           p == curated_pairs(repo)
           q == [i \in DOMAIN drafted |-> [candidate |-> T[i], term |-> drafted[i]]]
<1>1. repo \in Repo /\ drafted \in Seq(Draft) /\ Len(drafted) <= Len(T)
  BY DEF JobInv, JobOK, AllChosen
<1>2. p \in Seq(S)
  <2>1. p \in Seq(Pair)
    BY <1>1, CuratedType DEF Pair
  <2>2. \A i \in DOMAIN p : p[i] \in S
    BY <2>1, ElementType DEF Chosen
  <2> HIDE DEF p, S
  <2>3. QED
    BY <2>1, <2>2
<1>3. q \in Seq(S)
  <2>1. T \in Seq(Found)
    BY <1>1, ToDraftIsBest DEF OnePerTerm
  <2>2. Len(drafted) \in Nat /\ DOMAIN drafted = 1..Len(drafted)
    BY <1>1
  <2>3. ASSUME NEW i \in DOMAIN drafted PROVE [candidate |-> T[i], term |-> drafted[i]] \in S
    <3>1. i \in DOMAIN T
      BY <1>1, <2>1, <2>2
    <3>2. T[i] \in Chosen(repo) /\ T[i] \in Candidate
      BY <1>1, <3>1, ChosenType DEF Chosen, ToSet
    <3>3. drafted[i] \in Shape
      BY <1>1, PipelineConstants, ElementType
    <3> HIDE DEF T
    <3>4. QED
      BY <3>2, <3>3 DEF Pair
  <2> HIDE DEF T, S
  <2>4. QED
    BY <2>2, <2>3
<1>4. Enriched = p \o q
  BY DEF Enriched
<1>5. Enriched \in Seq(S)
  <2> HIDE DEF p, q, S
  <2>1. QED
    BY <1>2, <1>3, <1>4
<1>6. Valid \in Seq(S)
  <2> DEFINE K == {i \in DOMAIN Enriched : validate_term(Enriched[i].term)}
  <2>1. Valid = Pick(Enriched, K) /\ K \in SUBSET DOMAIN Enriched
    BY DEF Valid
  <2> HIDE DEF K, S
  <2>2. QED
    BY <1>5, <2>1, PickType
<1>7. QED
  BY <1>6

LEMMA ValidateKeeps ==
  ASSUME JobInv, Validate
  PROVE  JobInv'
<1>1. CASE ~validate_batch(Valid)
  BY <1>1, StepEnds, SubmittersAreSteps DEF Validate, Submitter, files
<1>2. CASE validate_batch(Valid)
  <2>1. /\ validated' = Valid /\ step' = [step EXCEPT !["validated"] = "done"]
        /\ UNCHANGED <<repo, was, launches, drafted, position, ids, rejected, review_queue>>
    BY <1>2 DEF Validate, loops, files
  <2>2. /\ step["validated"] = "waiting" /\ step["enriched"] = "done"
        /\ step'["validated"] = "done"
        /\ \A t \in Step : t # "validated" => step'[t] = step[t]
        /\ step' \in [Step -> {"waiting", "done", "failed"}]
    BY <2>1, SubmittersAreSteps DEF Validate, Running, Inputs, JobInv, JobOK, Extractor
  <2>3. Valid \in Seq({x \in Pair : x.candidate \in Chosen(repo)})
    BY ValidIs
  <2>4. validated' \in Seq(Pair) /\ \A i \in DOMAIN validated' : validated'[i].candidate \in Chosen(repo)
    BY <2>1, <2>3
  <2>5. JobOK'
    BY <2>1, <2>2, <2>4 DEF JobInv, JobOK, Pair
  <2>6. CuratedOnce'
    BY <2>1, <2>2 DEF JobInv, CuratedOnce
  <2>7. AllChosen' /\ AllSourced'
    BY <2>1, <2>4, SourcedKept DEF JobInv, AllChosen
  <2>8. Distinct(validated)'
    BY <1>2, <2>1 DEF validate_batch
  <2>9. \A s \in Submitter : /\ step[s] = "waiting" /\ position[s] = 0
                             /\ s # "validated" /\ step'[s] = "waiting" /\ s \in Step
    BY <2>2, NoneBegun, SubmittersAreSteps DEF Submitter
  <2>10. InputsDone'
    <3>1. \A x \in Extractor : step'[x] = "done"
      BY <2>2, ExtractorsAreSteps DEF JobInv, InputsDone
    <3>2. step'["enriched"] = "done"
      BY <2>2, SubmittersAreSteps
    <3>3. QED
      BY <2>1, <2>2, <3>1, <3>2 DEF InputsDone
  <2>11. ASSUME NEW s \in Submitter PROVE Accounted(s)'
    <3>1. Accounted(s) /\ position'[s] = 0 /\ position[s] = 0 /\ step'[s] = "waiting"
      BY <2>1, <2>9 DEF JobInv
    <3>2. Behind(s)' = Behind(s) /\ InQueue(s)' = InQueue(s)
      BY <2>1, <3>1 DEF Behind, InQueue
    <3>3. Len(validated') \in Nat
      BY <2>4
    <3>4. ids' = ids /\ rejected' = rejected
      BY <2>1
    <3>5. Len(ids'[s]) + Len(rejected'[s]) = position'[s]
      BY <3>1, <3>4 DEF Accounted
    <3>6. Behind(s)' = InQueue(s)' \cup ToSet(rejected'[s])
      BY <3>1, <3>2, <3>4 DEF Accounted
    <3>7. position'[s] <= Len(validated') /\ step'[s] # "done"
      BY <3>1, <3>3
    <3>8. QED
      BY <3>5, <3>6, <3>7 DEF Accounted
  <2>12. ASSUME NEW i \in DOMAIN review_queue PROVE Submitted(review_queue[i])'
    <3> DEFINE e == review_queue[i]
    <3>1. Submitted(e) /\ e.by \in Submitter
      <4>1. e \in Submission
        BY ElementType DEF JobInv, JobOK
      <4>2. QED
        BY <4>1 DEF JobInv, QueueOK, Submission
    <3>2. Reached(e.by) = {}
      BY <2>9, <3>1 DEF Reached
    <3>3. QED
      BY <2>1, <3>1, <3>2 DEF Submitted
  <2>13. QueueOK'
    BY <2>1, <2>12 DEF JobInv, QueueOK
  <2>14. QED
    BY <2>5, <2>6, <2>7, <2>8, <2>10, <2>11, <2>13 DEF JobInv
<1>3. QED
  BY <1>1, <1>2

-----------------------------------------------------------------------------
(* Submitting.                                                             *)

LEMMA AppendIs ==
  ASSUME NEW S, NEW s \in Seq(S), NEW a
  PROVE  /\ Len(s) \in Nat /\ DOMAIN s = 1..Len(s)
         /\ Len(Append(s, a)) = Len(s) + 1
         /\ DOMAIN Append(s, a) = 1..Len(s) + 1
         /\ a \in S => Append(s, a) \in Seq(S)
         /\ \A i \in DOMAIN s : i \in DOMAIN Append(s, a) /\ Append(s, a)[i] = s[i]
         /\ Append(s, a)[Len(s) + 1] = a
         /\ ToSet(Append(s, a)) = ToSet(s) \cup {a}
<1> DEFINE t == Append(s, a)
<1>1. /\ Len(s) \in Nat /\ DOMAIN s = 1..Len(s)
      /\ Len(t) = Len(s) + 1 /\ DOMAIN t = 1..Len(s) + 1
      /\ a \in S => t \in Seq(S)
  OBVIOUS
<1>2. /\ \A i \in DOMAIN s : i \in DOMAIN t /\ t[i] = s[i]
      /\ t[Len(s) + 1] = a
  OBVIOUS
<1> HIDE DEF t
<1>3. \A i \in DOMAIN t : i \in DOMAIN s \/ i = Len(s) + 1
  BY <1>1
<1>4. Len(s) + 1 \in DOMAIN t
  BY <1>1
<1>5. ToSet(t) \subseteq ToSet(s) \cup {a}
  BY <1>2, <1>3 DEF ToSet
<1>6. ToSet(s) \subseteq ToSet(t) /\ a \in ToSet(t)
  BY <1>2, <1>4 DEF ToSet
<1>7. QED
  BY <1>1, <1>2, <1>5, <1>6 DEF t

LEMMA CurrentIs ==
  ASSUME JobInv, NEW s \in Submitter, Busy(s)
  PROVE  /\ position[s] \in Nat /\ position[s] + 1 \in DOMAIN validated
         /\ Current(s) = validated[position[s] + 1].candidate
         /\ Current(s) \in Chosen(repo) /\ Current(s) \in Candidate /\ Current(s).name \in Name
         /\ validated # << >> /\ step[s] = "waiting" /\ step["validated"] = "done"
<1>1. position[s] \in Nat /\ validated \in Seq(Pair)
  BY DEF JobInv, JobOK, Pair
<1>2. position[s] + 1 \in DOMAIN validated
  BY <1>1 DEF Busy
<1>3. Current(s) \in Chosen(repo)
  BY <1>2 DEF Current, JobInv, AllChosen
<1>4. Current(s) \in Candidate
  BY <1>3, ChosenType DEF JobInv, JobOK
<1>5. Current(s).name \in Name
  BY <1>4 DEF Candidate
<1>6. validated # << >>
  BY <1>2
<1>7. step[s] = "waiting" /\ step["validated"] = "done"
  BY DEF Busy, Running, Inputs, Submitter, Extractor
<1>8. QED
  BY <1>1, <1>2, <1>3, <1>4, <1>5, <1>6, <1>7 DEF Current

\* A row that is put into the queue is not there yet.
LEMMA QueuedKeeps ==
  ASSUME JobInv, NEW s \in Submitter, Busy(s), Queued(s),
         UNCHANGED <<repo, was, launches, validated>>,
         \A t \in Submitter : Reached(t) \subseteq Reached(t)',
         position[s] + 1 \in Reached(s)'
  PROVE  /\ review_queue' \in Seq(Submission)
         /\ DOMAIN review_queue' = 1..Len(review_queue) + 1
         /\ \A i \in DOMAIN review_queue :
              i \in DOMAIN review_queue' /\ review_queue'[i] = review_queue[i]
         /\ review_queue'[Len(review_queue) + 1].candidate = Current(s)
         /\ Len(review_queue) \in Nat /\ DOMAIN review_queue = 1..Len(review_queue)
         /\ AllSourced'
         /\ QueueOK'
<1> DEFINE n == position[s] + 1
           last == Len(review_queue) + 1
<1>1. /\ n \in DOMAIN validated /\ Current(s) = validated[n].candidate
      /\ Current(s) \in Chosen(repo) /\ Current(s) \in Candidate
      /\ step[s] = "waiting" /\ position[s] \in Nat
  BY CurrentIs
<1>2. PICK e : e = [candidate |-> Current(s), by |-> s, launch |-> launches]
  OBVIOUS
<1>3. review_queue' = Append(review_queue, e)
  BY <1>2 DEF Queued
<1>4. e.candidate = Current(s) /\ e.by = s /\ e.launch = launches /\ e \in Submission
  BY <1>1, <1>2 DEF Submission, JobInv, JobOK
<1>5. review_queue \in Seq(Submission) /\ launches \in Nat
  BY PipelineConstants DEF JobInv, JobOK
<1>6. /\ review_queue' \in Seq(Submission)
      /\ Len(review_queue) \in Nat /\ DOMAIN review_queue = 1..Len(review_queue)
      /\ DOMAIN review_queue' = 1..last
      /\ \A i \in DOMAIN review_queue :
           i \in DOMAIN review_queue' /\ review_queue'[i] = review_queue[i]
      /\ review_queue'[last] = e
  BY <1>3, <1>4, <1>5, AppendIs
<1>7. \A i \in DOMAIN review_queue' : i \in DOMAIN review_queue \/ i = last
  BY <1>6
<1>8. Sourced(e)'
  <2>1. Distinct(curated_pairs(repo))
    BY CurrentIs DEF JobInv, CuratedOnce
  <2>2. was[e.launch] = repo
    BY <1>4 DEF JobInv, JobOK
  <2>3. QED
    BY <1>1, <1>4, <1>5, <2>1, <2>2 DEF Sourced
<1>9. AllSourced'
  <2>1. ASSUME NEW i \in DOMAIN review_queue' PROVE Sourced(review_queue[i])'
    <3>1. CASE i = last
      BY <1>6, <1>8, <3>1 DEF Sourced
    <3>2. CASE i \in DOMAIN review_queue
      <4>1. Sourced(review_queue[i]) /\ review_queue'[i] = review_queue[i]
        BY <1>6, <3>2 DEF JobInv, AllSourced
      <4>2. QED
        BY <4>1 DEF Sourced
    <3>3. QED
      BY <1>7, <3>1, <3>2
  <2>2. QED
    BY <2>1 DEF AllSourced
<1>10. ASSUME NEW x, Submitted(x), x.by \in Submitter PROVE Submitted(x)'
  <2>1. Reached(x.by) \subseteq Reached(x.by)'
    BY <1>10
  <2>2. QED
    BY <1>10, <2>1 DEF Submitted
<1>11. Submitted(e)'
  BY <1>1, <1>4, <1>5 DEF Submitted
<1>12. ASSUME NEW i \in DOMAIN review_queue PROVE review_queue[i] # e
  <2>1. SUFFICES ASSUME review_queue[i] = e PROVE FALSE
    OBVIOUS
  <2>2. Submitted(e)
    BY <2>1 DEF JobInv, QueueOK
  <2>3. PICK j \in DOMAIN validated \cap Reached(s) : validated[j].candidate = Current(s)
    BY <1>4, <2>2 DEF Submitted
  <2>4. j \in 1..position[s]
    BY <1>1, <2>3 DEF Reached
  <2>5. \A k, l \in DOMAIN validated :
          KeyOf(validated[k].candidate) = KeyOf(validated[l].candidate) => k = l
    BY DEF JobInv, Distinct, IsInjective
  <2>6. j = n
    BY <1>1, <2>3, <2>5
  <2>7. QED
    BY <1>1, <2>4, <2>6
<1>13. IsInjective(review_queue')
  <2>1. \A i, j \in DOMAIN review_queue : review_queue[i] = review_queue[j] => i = j
    BY DEF JobInv, QueueOK, IsInjective
  <2>2. ASSUME NEW i \in DOMAIN review_queue', NEW j \in DOMAIN review_queue',
               review_queue'[i] = review_queue'[j]
        PROVE  i = j
    BY <1>6, <1>7, <1>12, <2>1, <2>2
  <2>3. QED
    BY <2>2 DEF IsInjective
<1>14. QueueOK'
  <2>1. ASSUME NEW i \in DOMAIN review_queue' PROVE Submitted(review_queue[i])'
    <3>1. CASE i = last
      BY <1>6, <1>11, <3>1
    <3>2. CASE i \in DOMAIN review_queue
      <4>1. PICK x : x = review_queue[i]
        OBVIOUS
      <4>2. Submitted(x) /\ x.by \in Submitter
        <5>1. x \in Submission
          BY <1>5, <3>2, <4>1, ElementType
        <5>2. Submitted(x)
          BY <3>2, <4>1 DEF JobInv, QueueOK
        <5>3. QED
          BY <5>1, <5>2 DEF Submission
      <4>3. Submitted(x)'
        BY <1>10, <4>2
      <4>4. review_queue'[i] = x
        BY <1>6, <3>2, <4>1
      <4>5. QED
        BY <4>3, <4>4
    <3>3. QED
      BY <1>7, <3>1, <3>2
  <2>2. QED
    BY <1>13, <2>1 DEF QueueOK
<1>15. QED
  BY <1>4, <1>6, <1>9, <1>14

LEMMA OneMore ==
  ASSUME NEW a \in Nat, NEW b \in Nat
  PROVE  (a + 1) + b = (a + b) + 1 /\ a + (b + 1) = (a + b) + 1
OBVIOUS

LEMMA AccountedKept ==
  ASSUME JobInv, NEW t \in Submitter, validated' = validated,
         position'[t] = position[t], ids'[t] = ids[t], rejected'[t] = rejected[t],
         step'[t] = "done" => step[t] = "done",
         \A i \in DOMAIN review_queue : review_queue'[i] = review_queue[i]
  PROVE  Accounted(t)'
<1>1. Accounted(t)
  BY DEF JobInv
<1>2. Behind(t)' = Behind(t)
  BY DEF Behind
<1>3. ids[t] \in Seq(DOMAIN review_queue)
  BY DEF JobInv, JobOK
<1>4. \A i \in ToSet(ids[t]) : review_queue'[i] = review_queue[i]
  BY <1>3, ElementType DEF ToSet
<1>5. InQueue(t)' = InQueue(t)
  BY <1>4 DEF InQueue
<1>6. Len(ids'[t]) + Len(rejected'[t]) = position'[t] /\ position'[t] <= Len(validated')
  BY <1>1 DEF Accounted
<1>7. step'[t] = "done" => position'[t] = Len(validated')
  BY <1>1 DEF Accounted
<1>8. Behind(t)' = InQueue(t)' \cup ToSet(rejected'[t])
  BY <1>1, <1>2, <1>5 DEF Accounted
<1>9. QED
  BY <1>6, <1>7, <1>8 DEF Accounted

\* The parts of the invariant that a submission leaves as they are.
LEMMA SubmitFrame ==
  ASSUME JobInv, NEW s \in Submitter, Busy(s),
         UNCHANGED <<repo, was, launches, drafted, validated>>,
         step' \in [Step -> {"waiting", "done", "failed"}],
         \A t \in Step : t # s => step'[t] = step[t],
         \A t \in Submitter : t # s => position'[t] = position[t]
  PROVE  CuratedOnce' /\ AllChosen' /\ InputsDone' /\ Distinct(validated)'
<1>1. s # "enriched" /\ s # "validated" /\ validated # << >> /\ step["validated"] = "done"
  BY CurrentIs DEF Submitter
<1>2. step'["enriched"] = step["enriched"] /\ step'["validated"] = "done"
  BY <1>1, SubmittersAreSteps
<1>3. Distinct(curated_pairs(repo))
  BY <1>1 DEF JobInv, CuratedOnce
<1>4. CuratedOnce'
  BY <1>3 DEF CuratedOnce
<1>5. AllChosen'
  BY DEF JobInv, AllChosen
<1>6. InputsDone'
  <2>1. \A x \in Extractor : x \in Step /\ x # s
    BY ExtractorsAreSteps DEF Extractor, Submitter
  <2>2. QED
    BY <1>1, <1>2, <2>1 DEF JobInv, InputsDone
<1>7. QED
  BY <1>4, <1>5, <1>6 DEF JobInv

\* One more candidate that submitter s is done with.
LEMMA BehindGrows ==
  ASSUME JobInv, NEW s \in Submitter, Busy(s), Advance(s), UNCHANGED <<step, validated>>
  PROVE  /\ position' \in [Submitter -> Nat] /\ position'[s] = position[s] + 1
         /\ \A t \in Submitter : t # s => position'[t] = position[t]
         /\ position'[s] <= Len(validated)
         /\ step'[s] # "done"
         /\ Behind(s)' = Behind(s) \cup {Current(s).name}
         /\ \A t \in Submitter : Reached(t) \subseteq Reached(t)'
         /\ position[s] + 1 \in Reached(s)'
<1>1. /\ position[s] \in Nat /\ Current(s) = validated[position[s] + 1].candidate
      /\ position[s] + 1 \in DOMAIN validated /\ step[s] = "waiting"
  BY CurrentIs
<1>2. /\ position \in [Submitter -> Nat]
      /\ position' = [position EXCEPT ![s] = position[s] + 1]
  BY DEF JobInv, JobOK, Advance
<1>3. /\ position' \in [Submitter -> Nat] /\ position'[s] = position[s] + 1
      /\ \A t \in Submitter : t # s => position'[t] = position[t]
  BY <1>1, <1>2
<1>4. validated \in Seq(Pair)
  BY DEF JobInv, JobOK, Pair
<1>5. position'[s] <= Len(validated)
  BY <1>1, <1>3, <1>4
<1>6. 1..position[s] + 1 = 1..position[s] \cup {position[s] + 1}
  BY <1>1
<1>7. Behind(s)' = {validated[i].candidate.name : i \in 1..position[s] \cup {position[s] + 1}}
  BY <1>3, <1>6 DEF Behind
<1>8. Behind(s)' = Behind(s) \cup {Current(s).name}
  BY <1>1, <1>7 DEF Behind
<1>9. \A t \in Submitter : Reached(t) \subseteq Reached(t)'
  <2>1. ASSUME NEW t \in Submitter PROVE Reached(t) \subseteq Reached(t)'
    <3>1. position[t] \in Nat /\ position'[t] \in Nat /\ position[t] <= position'[t]
      BY <1>1, <1>2, <1>3
    <3>2. QED
      BY <3>1 DEF Reached
  <2>2. QED
    BY <2>1
<1>10. position[s] + 1 \in Reached(s)'
  BY <1>1, <1>3 DEF Reached
<1>11. QED
  BY <1>1, <1>3, <1>5, <1>8, <1>9, <1>10

LEMMA AcceptedKeeps ==
  ASSUME JobInv, NEW s \in Submitter, Busy(s), Accepted(s),
         UNCHANGED <<repo, was, launches, drafted, validated>>
  PROVE  JobInv'
<1> DEFINE last == Len(review_queue) + 1
<1>1. /\ Queued(s) /\ Advance(s) /\ UNCHANGED <<step, rejected>>
      /\ ids' = [ids EXCEPT ![s] = Append(ids[s], last)]
  BY DEF Accepted
<1>2. /\ position' \in [Submitter -> Nat] /\ position'[s] = position[s] + 1
      /\ \A t \in Submitter : t # s => position'[t] = position[t]
      /\ position'[s] <= Len(validated) /\ step'[s] # "done"
      /\ Behind(s)' = Behind(s) \cup {Current(s).name}
      /\ \A t \in Submitter : Reached(t) \subseteq Reached(t)'
      /\ position[s] + 1 \in Reached(s)'
  BY <1>1, BehindGrows
<1>3. /\ review_queue' \in Seq(Submission)
      /\ DOMAIN review_queue' = 1..last /\ DOMAIN review_queue = 1..Len(review_queue)
      /\ Len(review_queue) \in Nat
      /\ \A i \in DOMAIN review_queue :
           i \in DOMAIN review_queue' /\ review_queue'[i] = review_queue[i]
      /\ review_queue'[last].candidate = Current(s)
      /\ AllSourced' /\ QueueOK'
  BY <1>1, <1>2, QueuedKeeps
<1>4. /\ ids'[s] = Append(ids[s], last)
      /\ \A t \in Submitter : t # s => ids'[t] = ids[t]
      /\ ids' \in [Submitter -> Seq(DOMAIN review_queue')]
  <2>1. /\ \A t \in Submitter : ids[t] \in Seq(DOMAIN review_queue)
        /\ DOMAIN ids = Submitter
    BY DEF JobInv, JobOK
  <2>2. DOMAIN review_queue \subseteq DOMAIN review_queue' /\ last \in DOMAIN review_queue'
    BY <1>3
  <2>3. \A t \in Submitter : ids[t] \in Seq(DOMAIN review_queue')
    BY <2>1, <2>2
  <2>4. Append(ids[s], last) \in Seq(DOMAIN review_queue')
    BY <2>2, <2>3, AppendIs
  <2> HIDE DEF last
  <2>5. QED
    BY <1>1, <2>1, <2>3, <2>4
<1>5. JobOK'
  BY <1>1, <1>2, <1>3, <1>4 DEF JobInv, JobOK
<1>6. CuratedOnce' /\ AllChosen' /\ InputsDone' /\ Distinct(validated)'
  <2>1. step' \in [Step -> {"waiting", "done", "failed"}] /\ \A t \in Step : step'[t] = step[t]
    BY <1>1 DEF JobInv, JobOK
  <2>2. QED
    BY <1>2, <1>3, <2>1, SubmitFrame
<1>7. Accounted(s)'
  <2>1. /\ Accounted(s) /\ ids[s] \in Seq(DOMAIN review_queue) /\ rejected[s] \in Seq(Name)
    BY DEF JobInv, JobOK
  <2>2. /\ Len(ids'[s]) = Len(ids[s]) + 1 /\ Len(ids[s]) \in Nat
        /\ ToSet(ids'[s]) = ToSet(ids[s]) \cup {last}
    BY <1>4, <2>1, AppendIs
  <2>3. Len(ids'[s]) + Len(rejected'[s]) = position'[s]
    <3>1. Len(rejected[s]) \in Nat
      BY <2>1
    <3>2. Len(ids[s]) + Len(rejected[s]) = position[s]
      BY <2>1 DEF Accounted
    <3>3. /\ rejected'[s] = rejected[s] /\ position'[s] = position[s] + 1
          /\ Len(ids'[s]) = Len(ids[s]) + 1 /\ Len(ids[s]) \in Nat
      BY <1>1, <1>2, <2>2
    <3>4. (Len(ids[s]) + 1) + Len(rejected[s]) = (Len(ids[s]) + Len(rejected[s])) + 1
      BY <3>1, <3>3, OneMore, Zenon
    <3>5. QED
      BY <3>2, <3>3, <3>4, Zenon
  <2>4. \A i \in ToSet(ids[s]) : review_queue'[i] = review_queue[i]
    BY <1>3, <2>1, ElementType DEF ToSet
  <2>5. InQueue(s)' = InQueue(s) \cup {Current(s).name}
    <3> HIDE DEF last
    <3>1. InQueue(s)' = {review_queue'[i].candidate.name : i \in ToSet(ids[s]) \cup {last}}
      BY <2>2 DEF InQueue
    <3>2. QED
      BY <1>3, <2>4, <3>1 DEF InQueue
  <2>6. Behind(s)' = InQueue(s)' \cup ToSet(rejected'[s])
    BY <1>1, <1>2, <2>1, <2>5 DEF Accounted
  <2>7. QED
    BY <1>2, <2>3, <2>6 DEF Accounted
<1>8. ASSUME NEW t \in Submitter, t # s PROVE Accounted(t)'
  <2>1. position'[t] = position[t] /\ ids'[t] = ids[t] /\ rejected'[t] = rejected[t]
    BY <1>1, <1>2, <1>4, <1>8
  <2>2. QED
    BY <1>1, <1>3, <2>1, AccountedKept
<1>9. QED
  BY <1>3, <1>5, <1>6, <1>7, <1>8 DEF JobInv

LEMMA RejectedKeeps ==
  ASSUME JobInv, NEW s \in Submitter, Busy(s), Rejected(s),
         UNCHANGED <<repo, was, launches, drafted, validated>>
  PROVE  JobInv'
<1>1. /\ Advance(s) /\ UNCHANGED <<step, ids, review_queue>>
      /\ rejected' = [rejected EXCEPT ![s] = Append(rejected[s], Current(s).name)]
  BY DEF Rejected
<1>2. /\ position' \in [Submitter -> Nat] /\ position'[s] = position[s] + 1
      /\ \A t \in Submitter : t # s => position'[t] = position[t]
      /\ position'[s] <= Len(validated) /\ step'[s] # "done"
      /\ Behind(s)' = Behind(s) \cup {Current(s).name}
      /\ \A t \in Submitter : Reached(t) \subseteq Reached(t)'
  BY <1>1, BehindGrows
<1>3. /\ rejected'[s] = Append(rejected[s], Current(s).name)
      /\ \A t \in Submitter : t # s => rejected'[t] = rejected[t]
      /\ rejected' \in [Submitter -> Seq(Name)]
  <2>1. Current(s).name \in Name
    BY CurrentIs
  <2>2. rejected \in [Submitter -> Seq(Name)]
    BY DEF JobInv, JobOK
  <2>3. Append(rejected[s], Current(s).name) \in Seq(Name)
    BY <2>1, <2>2, AppendIs
  <2>4. QED
    BY <1>1, <2>2, <2>3
<1>4. JobOK'
  BY <1>1, <1>2, <1>3 DEF JobInv, JobOK
<1>5. CuratedOnce' /\ AllChosen' /\ InputsDone' /\ Distinct(validated)'
  <2>1. step' \in [Step -> {"waiting", "done", "failed"}] /\ \A t \in Step : step'[t] = step[t]
    BY <1>1 DEF JobInv, JobOK
  <2>2. QED
    BY <1>2, <2>1, SubmitFrame
<1>6. Accounted(s)'
  <2>1. Accounted(s) /\ ids[s] \in Seq(DOMAIN review_queue) /\ rejected[s] \in Seq(Name)
    BY DEF JobInv, JobOK
  <2>2. /\ Len(rejected'[s]) = Len(rejected[s]) + 1 /\ Len(rejected[s]) \in Nat
        /\ ToSet(rejected'[s]) = ToSet(rejected[s]) \cup {Current(s).name}
    BY <1>3, <2>1, AppendIs
  <2>3. Len(ids'[s]) + Len(rejected'[s]) = position'[s]
    <3>1. Len(ids[s]) \in Nat
      BY <2>1, ElementType
    <3>2. Len(ids[s]) + Len(rejected[s]) = position[s]
      BY <2>1 DEF Accounted
    <3>3. /\ ids'[s] = ids[s] /\ position'[s] = position[s] + 1
          /\ Len(rejected'[s]) = Len(rejected[s]) + 1 /\ Len(rejected[s]) \in Nat
      BY <1>1, <1>2, <2>2
    <3>4. Len(ids[s]) + (Len(rejected[s]) + 1) = (Len(ids[s]) + Len(rejected[s])) + 1
      BY <3>1, <3>3, OneMore, Zenon
    <3>5. QED
      BY <3>2, <3>3, <3>4, Zenon
  <2>4. InQueue(s)' = InQueue(s)
    BY <1>1 DEF InQueue
  <2>5. Behind(s)' = InQueue(s)' \cup ToSet(rejected'[s])
    BY <1>2, <2>1, <2>2, <2>4 DEF Accounted
  <2>6. QED
    BY <1>2, <2>3, <2>5 DEF Accounted
<1>7. ASSUME NEW t \in Submitter, t # s PROVE Accounted(t)'
  <2>1. position'[t] = position[t] /\ ids'[t] = ids[t] /\ rejected'[t] = rejected[t]
    BY <1>1, <1>2, <1>3, <1>7
  <2>2. QED
    BY <1>1, <2>1, AccountedKept
<1>8. QueueOK'
  <2>1. ASSUME NEW i \in DOMAIN review_queue PROVE Submitted(review_queue[i])'
    <3>1. Submitted(review_queue[i]) /\ review_queue[i].by \in Submitter
      <4>1. review_queue[i] \in Submission
        BY ElementType DEF JobInv, JobOK
      <4>2. QED
        BY <4>1 DEF JobInv, QueueOK, Submission
    <3>2. Reached(review_queue[i].by) \subseteq Reached(review_queue[i].by)'
      BY <1>1, <1>2, <3>1
    <3>3. QED
      BY <1>1, <3>1, <3>2 DEF Submitted
  <2>2. QED
    BY <1>1, <2>1 DEF JobInv, QueueOK
<1>9. AllSourced'
  BY <1>1, SourcedKept DEF JobInv
<1>10. QED
  BY <1>4, <1>5, <1>6, <1>7, <1>8, <1>9 DEF JobInv

LEMMA UnansweredKeeps ==
  ASSUME JobInv, NEW s \in Submitter, Busy(s), Unanswered(s),
         UNCHANGED <<repo, was, launches, drafted, validated>>
  PROVE  JobInv'
<1>1. /\ Queued(s) /\ UNCHANGED <<position, ids, rejected>>
      /\ step' = [step EXCEPT ![s] = "failed"]
  BY DEF Unanswered, loops
<1>2. /\ s \in Step /\ step'[s] = "failed" /\ step[s] = "waiting"
      /\ \A t \in Step : t # s => step'[t] = step[t]
      /\ step' \in [Step -> {"waiting", "done", "failed"}]
  BY <1>1, CurrentIs, SubmittersAreSteps DEF JobInv, JobOK
<1>3. position[s] + 1 \in Reached(s)' /\ \A t \in Submitter : Reached(t) \subseteq Reached(t)'
  <2>1. \A t \in Submitter : position[t] \in Nat /\ t \in Step
    BY SubmittersAreSteps DEF JobInv, JobOK
  <2>2. ASSUME NEW t \in Submitter PROVE Reached(t) \subseteq Reached(t)'
    <3>1. step[t] = "failed" => step'[t] = "failed"
      BY <1>2, <2>1
    <3>2. QED
      BY <1>1, <2>1, <3>1 DEF Reached
  <2>3. QED
    BY <1>1, <1>2, <2>1, <2>2 DEF Reached
<1>4. /\ review_queue' \in Seq(Submission)
      /\ \A i \in DOMAIN review_queue :
           i \in DOMAIN review_queue' /\ review_queue'[i] = review_queue[i]
      /\ AllSourced' /\ QueueOK'
  BY <1>1, <1>3, QueuedKeeps
<1>5. JobOK'
  <2>1. DOMAIN review_queue \subseteq DOMAIN review_queue'
    BY <1>4
  <2>2. ids \in [Submitter -> Seq(DOMAIN review_queue')]
    <3>1. ids \in [Submitter -> Seq(DOMAIN review_queue)]
      BY DEF JobInv, JobOK
    <3>2. ASSUME NEW t \in Submitter PROVE ids[t] \in Seq(DOMAIN review_queue')
      BY <2>1, <3>1
    <3>3. QED
      BY <3>1, <3>2
  <2>3. QED
    BY <1>1, <1>2, <1>4, <2>2 DEF JobInv, JobOK
<1>6. CuratedOnce' /\ AllChosen' /\ InputsDone' /\ Distinct(validated)'
  BY <1>1, <1>2, <1>4, SubmitFrame
<1>7. ASSUME NEW t \in Submitter PROVE Accounted(t)'
  <2>1. step'[t] = "done" => step[t] = "done"
    BY <1>2, SubmittersAreSteps
  <2>2. QED
    BY <1>1, <1>4, <2>1, AccountedKept
<1>8. QED
  BY <1>4, <1>5, <1>6, <1>7 DEF JobInv

\* A launch begins with what the steps it does not repeat have left.
LEMMA RelaunchKeeps ==
  ASSUME JobInv, RelaunchFailed \/ RelaunchAll
  PROVE  JobInv'
<1>1. PICK S : Relaunch(S) /\ (S = Step \/ S = {s \in Step : step[s] # "done"})
  BY DEF RelaunchFailed, RelaunchAll
<1>2. /\ UNCHANGED review_queue /\ launches' = launches + 1
      /\ launches \in Nat \ {0} /\ launches' \in 1..MaxLaunches
      /\ repo' \in Edited(S) /\ repo' \in Repo /\ was' = Append(was, repo')
  BY <1>1, PipelineConstants DEF Relaunch, Edited, JobInv, JobOK
<1>3. /\ step' \in [Step -> {"waiting", "done", "failed"}]
      /\ \A s \in Step : step'[s] = IF s \in S THEN "waiting" ELSE "done"
  <2>1. step' = [s \in Step |-> IF s \in S THEN "waiting" ELSE step[s]]
    BY <1>1 DEF Relaunch
  <2>2. \A s \in Step : s \notin S => step[s] = "done"
    BY <1>1 DEF JobInv, JobOK
  <2>3. QED
    BY <2>1, <2>2
<1>4. /\ drafted' = << >> \/ drafted' = drafted
      /\ "enriched" \in S => drafted' = << >>
  BY <1>1 DEF Relaunch
<1>5. /\ validated' = << >> \/ validated' = validated
      /\ "validated" \in S => validated' = << >>
      /\ "validated" \notin S => validated' = validated
  BY <1>1 DEF Relaunch
<1>6. \A s \in Submitter :
        /\ s \in S => position'[s] = 0 /\ ids'[s] = << >> /\ rejected'[s] = << >>
        /\ s \notin S => /\ position'[s] = position[s] /\ ids'[s] = ids[s]
                         /\ rejected'[s] = rejected[s]
  BY <1>1 DEF Relaunch
<1>7. JobOK'
  <2>1. /\ drafted \in Seq(Draft) /\ validated \in Seq(Pair)
        /\ \A s \in Submitter : /\ position[s] \in Nat /\ ids[s] \in Seq(DOMAIN review_queue)
                                /\ rejected[s] \in Seq(Name)
    BY DEF JobInv, JobOK, Pair
  <2>2. drafted' \in Seq(Draft) /\ validated' \in Seq(Pair)
    BY <1>4, <1>5, <2>1, EmptyType
  <2>3. \A s \in Submitter : /\ position'[s] \in Nat /\ ids'[s] \in Seq(DOMAIN review_queue)
                             /\ rejected'[s] \in Seq(Name)
    <3>1. ASSUME NEW s \in Submitter
          PROVE  /\ position'[s] \in Nat /\ ids'[s] \in Seq(DOMAIN review_queue)
                 /\ rejected'[s] \in Seq(Name)
      <4>1. CASE s \in S
        <5>1. << >> \in Seq(DOMAIN review_queue) /\ << >> \in Seq(Name) /\ 0 \in Nat
          BY EmptyType
        <5>2. position'[s] = 0 /\ ids'[s] = << >> /\ rejected'[s] = << >>
          BY <1>6, <4>1
        <5>3. QED
          BY <5>1, <5>2, Zenon
      <4>2. CASE s \notin S
        BY <1>6, <2>1, <4>2
      <4>3. QED
        BY <4>1, <4>2
    <3>2. QED
      BY <3>1
  <2>4. /\ position' = [s \in Submitter |-> position'[s]]
        /\ ids' = [s \in Submitter |-> ids'[s]]
        /\ rejected' = [s \in Submitter |-> rejected'[s]]
    BY <1>1 DEF Relaunch
  <2>5. /\ position' \in [Submitter -> Nat]
        /\ ids' \in [Submitter -> Seq(DOMAIN review_queue)]
        /\ rejected' \in [Submitter -> Seq(Name)]
    BY <2>3, <2>4
  <2>6. was' \in Seq(Repo) /\ Len(was') = launches' /\ was'[launches'] = repo'
    <3>1. was \in Seq(Repo) /\ Len(was) = launches
      BY DEF JobInv, JobOK
    <3>2. QED
      BY <1>2, <3>1, AppendIs
  <2>7. QED
    BY <1>2, <1>3, <2>2, <2>5, <2>6 DEF JobInv, JobOK, Pair
\* A submitter is launched again whenever what it reads is computed again.
<1>8. ASSUME NEW s \in Submitter, s \notin S
      PROVE  step[s] = "done" /\ "validated" \notin S /\ validated' = validated
  <2>1. S = {t \in Step : step[t] # "done"} /\ s \in Step
    BY <1>1, <1>8, SubmittersAreSteps
  <2>2. step[s] = "done"
    BY <1>8, <2>1
  <2>3. step["validated"] = "done"
    BY <2>2 DEF JobInv, InputsDone
  <2>4. "validated" \notin S
    BY <2>1, <2>3
  <2>5. QED
    BY <1>5, <2>2, <2>4
\* What the steps it does not repeat have read is what is still there.
<1>9. ASSUME "enriched" \notin S PROVE repo' = repo
  <2>1. S = {t \in Step : step[t] # "done"} /\ step["enriched"] = "done"
    BY <1>1, <1>9, SubmittersAreSteps
  <2>2. Extractor \ S = Extractor
    BY <2>1 DEF JobInv, InputsDone
  <2>3. (\A x \in Extractor : repo'.mentions[x] = repo.mentions[x]) /\ repo'.curated = repo.curated
    BY <1>2, <1>9, <2>2 DEF Edited
  <2>4. repo \in RepoType /\ repo' \in RepoType
    BY <1>2, PipelineConstants DEF JobInv, JobOK
  <2>5. repo'.mentions = repo.mentions
    BY <2>3, <2>4 DEF RepoType
  <2>6. QED
    BY <2>3, <2>4, <2>5 DEF RepoType
<1>10. "validated" \notin S => "enriched" \notin S
  <2>1. SUFFICES ASSUME "validated" \notin S PROVE "enriched" \notin S
    OBVIOUS
  <2>2. S = {t \in Step : step[t] # "done"} /\ step["validated"] = "done"
    BY <1>1, <2>1, SubmittersAreSteps
  <2>3. QED
    BY <2>2 DEF JobInv, InputsDone
<1>11. CuratedOnce' /\ AllChosen'
  <2>1. CASE "enriched" \in S
    <3>1. drafted' = << >> /\ validated' = << >> /\ step'["enriched"] = "waiting"
      BY <1>3, <1>4, <1>5, <1>10, <2>1, SubmittersAreSteps
    <3>2. ToDraft[repo'] \in Seq(Found)
      BY <1>2, ToDraftIsBest DEF OnePerTerm
    <3>3. Len(<< >>) <= Len(ToDraft[repo'])
      BY <3>2
    <3>4. QED
      BY <3>1, <3>3 DEF CuratedOnce, AllChosen
  <2>2. CASE "enriched" \notin S
    <3>1. repo' = repo /\ step["enriched"] = "done" /\ drafted' = drafted
      BY <1>1, <1>9, <2>2, SubmittersAreSteps DEF Relaunch
    <3>2. Distinct(curated_pairs(repo))
      BY <3>1 DEF JobInv, CuratedOnce
    <3>3. CuratedOnce'
      BY <3>1, <3>2 DEF CuratedOnce
    <3>4. AllChosen'
      BY <1>5, <3>1 DEF JobInv, AllChosen
    <3>5. QED
      BY <3>3, <3>4
  <2>3. QED
    BY <2>1, <2>2
<1>12. AllSourced'
  <2>1. ASSUME NEW i \in DOMAIN review_queue PROVE Sourced(review_queue[i])'
    <3> DEFINE e == review_queue[i]
    <3>1. Sourced(e) /\ e.launch \in Nat \ {0}
      <4>1. e \in Submission
        BY ElementType DEF JobInv, JobOK
      <4>2. QED
        BY <4>1 DEF JobInv, AllSourced, Submission
    <3>2. was \in Seq(Repo) /\ Len(was) = launches
      BY DEF JobInv, JobOK
    <3>3. e.launch \in DOMAIN was
      BY <1>2, <3>1, <3>2 DEF Sourced
    <3>4. was'[e.launch] = was[e.launch]
      BY <1>2, <3>2, <3>3, AppendIs
    <3>5. e.launch <= launches'
      BY <1>2, <3>1 DEF Sourced
    <3> HIDE DEF e
    <3>6. e' = e
      BY <1>2 DEF e
    <3>7. QED
      BY <3>1, <3>4, <3>5, <3>6 DEF Sourced, e
  <2>2. QED
    BY <1>2, <2>1 DEF AllSourced
<1>13. InputsDone'
  <2>1. step'["validated"] = "done" => step'["enriched"] = "done"
    <3>1. SUFFICES ASSUME step'["validated"] = "done" PROVE step'["enriched"] = "done"
      OBVIOUS
    <3>2. "validated" \notin S
      BY <1>3, <3>1, SubmittersAreSteps
    <3>3. S = {t \in Step : step[t] # "done"} /\ step["validated"] = "done"
      BY <1>1, <3>2, SubmittersAreSteps
    <3>4. step["enriched"] = "done"
      BY <3>3 DEF JobInv, InputsDone
    <3>5. QED
      BY <1>3, <3>3, <3>4, SubmittersAreSteps
  <2>2. ASSUME NEW s \in Submitter, step'[s] # "waiting" \/ position'[s] # 0
        PROVE  step'["validated"] = "done"
    <3>1. s \notin S
      BY <1>3, <1>6, <2>2, SubmittersAreSteps
    <3>2. QED
      BY <1>3, <1>8, <3>1, SubmittersAreSteps
  <2>3. ASSUME step'["enriched"] = "done", NEW x \in Extractor PROVE step'[x] = "done"
    <3>1. S = {t \in Step : step[t] # "done"} /\ step["enriched"] = "done"
      BY <1>1, <1>3, <2>3, SubmittersAreSteps
    <3>2. step[x] = "done" /\ x \in Step
      BY <3>1, ExtractorsAreSteps DEF JobInv, InputsDone
    <3>3. QED
      BY <1>3, <3>1, <3>2
  <2>4. QED
    BY <2>1, <2>2, <2>3 DEF InputsDone
<1>14. Distinct(validated)'
  <2>1. CASE validated' = << >>
    BY <2>1 DEF Distinct, IsInjective
  <2>2. QED
    BY <1>5, <2>1 DEF JobInv
<1>15. ASSUME NEW s \in Submitter PROVE Accounted(s)'
  <2>1. CASE s \in S
    <3>1. /\ position'[s] = 0 /\ ids'[s] = << >> /\ rejected'[s] = << >>
          /\ step'[s] = "waiting"
      BY <1>3, <1>6, <2>1, SubmittersAreSteps
    <3>2. ToSet(ids'[s]) = {} /\ ToSet(rejected'[s]) = {}
      BY <3>1 DEF ToSet
    <3>3. Behind(s)' = {} /\ InQueue(s)' = {}
      BY <3>1, <3>2 DEF Behind, InQueue
    <3>4. Len(validated') \in Nat
      BY <1>7 DEF JobOK
    <3>5. Len(ids'[s]) + Len(rejected'[s]) = position'[s] /\ position'[s] <= Len(validated')
      BY <3>1, <3>4
    <3>6. QED
      BY <3>1, <3>2, <3>3, <3>5 DEF Accounted
  <2>2. CASE s \notin S
    <3>1. step[s] = "done" /\ validated' = validated
      BY <1>8, <2>2
    <3>2. /\ position'[s] = position[s] /\ ids'[s] = ids[s] /\ rejected'[s] = rejected[s]
          /\ review_queue' = review_queue
      BY <1>2, <1>6, <2>2
    <3>3. QED
      BY <3>1, <3>2, AccountedKept
  <2>3. QED
    BY <2>1, <2>2
<1>16. QueueOK'
  <2>1. ASSUME NEW i \in DOMAIN review_queue PROVE Submitted(review_queue[i])'
    <3>1. review_queue[i].launch <= launches /\ review_queue[i].launch \in Nat
      <4>1. review_queue[i] \in Submission
        BY ElementType DEF JobInv, JobOK
      <4>2. review_queue[i].launch \in 1..MaxLaunches
        BY <4>1 DEF Submission
      <4>3. review_queue[i].launch <= launches
        BY DEF JobInv, QueueOK, Submitted
      <4>4. QED
        BY <4>2, <4>3
    <3>2. review_queue[i].launch <= launches' /\ review_queue[i].launch # launches'
      BY <1>2, <3>1
    <3>3. QED
      BY <1>2, <3>2 DEF Submitted
  <2>2. QED
    BY <1>2, <2>1 DEF JobInv, QueueOK
<1>17. QED
  BY <1>7, <1>11, <1>12, <1>13, <1>14, <1>15, <1>16 DEF JobInv

-----------------------------------------------------------------------------
(* The graph, and every step.                                              *)

\* Within a pass the graph goes round only while passes are left.
LEMMA GraphKeeps ==
  ASSUME GraphOK,
         retrieve \/ write_draft \/ critique \/ FreshGraph \/ UNCHANGED graph
  PROVE  GraphOK'
<1>1. CASE retrieve
  BY <1>1, PipelineConstants DEF GraphOK, retrieve, AtNode, Node
<1>2. CASE write_draft
  BY <1>2 DEF GraphOK, write_draft, AtNode, Node
<1>3. CASE critique
  BY <1>3, PipelineConstants DEF GraphOK, critique, AtNode, Node, AgenticCritic
<1>4. CASE FreshGraph
  BY <1>4, PipelineConstants DEF GraphOK, FreshGraph, Node
<1>5. CASE UNCHANGED graph
  BY <1>5 DEF GraphOK, graph
<1>6. QED
  BY <1>1, <1>2, <1>3, <1>4, <1>5

\* What does not touch the job.
LEMMA JobKept ==
  ASSUME JobInv,
         UNCHANGED <<repo, was, launches, step, drafted, validated, loops, review_queue>>
  PROVE  JobInv'
<1>1. UNCHANGED <<repo, was, launches, step, drafted, validated, position, ids, rejected,
                  review_queue>>
  BY DEF loops
<1>2. JobOK' /\ CuratedOnce' /\ AllChosen' /\ InputsDone' /\ Distinct(validated)'
  BY <1>1 DEF JobInv, JobOK, CuratedOnce, AllChosen, InputsDone
<1>3. ASSUME NEW s \in Submitter PROVE Accounted(s)'
  BY <1>1, AccountedKept
<1>4. QueueOK' /\ AllSourced'
  BY <1>1, SourcedKept DEF JobInv, QueueOK, Submitted, Reached
<1>5. QED
  BY <1>2, <1>3, <1>4 DEF JobInv

LEMMA SubmitKeeps ==
  ASSUME JobInv, NEW s \in Submitter, Busy(s), Submit(s),
         UNCHANGED <<repo, was, launches, drafted, validated>>
  PROVE  JobInv'
BY AcceptedKeeps, RejectedKeeps, UnansweredKeeps DEF Submit

LEMMA ProgressKeeps ==
  ASSUME PipelineInv, NEW s \in Step, Progress(s) \/ Fail(s)
  PROVE  PipelineInv'
<1>1. JobInv /\ GraphOK
  BY DEF PipelineInv
<1>2. CASE Extract(s) \/ Fail(s) \/ (s \in Submitter /\ Finish(s))
  <2>1. UNCHANGED graph
    BY <1>2 DEF Extract, Fail, Finish
  <2>2. QED
    BY <1>1, <1>2, <2>1, ExtractFailFinishKeep, GraphKeeps DEF PipelineInv
<1>3. CASE Enrich
  <2>1. UNCHANGED graph
    BY <1>3 DEF Enrich
  <2>2. QED
    BY <1>1, <1>3, <2>1, EnrichKeeps, GraphKeeps DEF PipelineInv
<1>4. CASE Validate
  <2>1. UNCHANGED graph
    BY <1>4 DEF Validate
  <2>2. QED
    BY <1>1, <1>4, <2>1, ValidateKeeps, GraphKeeps DEF PipelineInv
<1>5. CASE Load
  <2>1. UNCHANGED graph /\ "loaded" \in Submitter
    BY <1>5 DEF Load, Submitter
  <2>2. JobInv'
    BY <1>1, <1>5, <2>1, SubmitKeeps DEF Load, files
  <2>3. QED
    BY <1>1, <2>1, <2>2, GraphKeeps DEF PipelineInv
<1>6. CASE retrieve \/ write_draft \/ critique
  <2>1. UNCHANGED <<repo, was, launches, step, drafted, validated, loops, review_queue>>
    BY <1>6 DEF retrieve, write_draft, critique, AtNode, files
  <2>2. QED
    BY <1>1, <1>6, <2>1, JobKept, GraphKeeps DEF PipelineInv
<1>7. CASE submit_review
  <2>1. "agentic" \in Submitter
    BY DEF Submitter
  <2>2. JobInv'
    BY <1>1, <1>7, <2>1, SubmitKeeps DEF submit_review, AtNode, files
  <2>3. GraphOK'
    BY <1>1, <1>7, GraphKeeps DEF submit_review
  <2>4. QED
    BY <2>2, <2>3 DEF PipelineInv
<1>8. QED
  BY <1>2, <1>3, <1>4, <1>5, <1>6, <1>7 DEF Progress

LEMMA NextInv == PipelineInv /\ [Next]_vars => PipelineInv'
<1> SUFFICES ASSUME PipelineInv, [Next]_vars PROVE PipelineInv'
  OBVIOUS
<1>1. ASSUME NEW s \in Step, Progress(s) \/ Fail(s) PROVE PipelineInv'
  BY <1>1, ProgressKeeps
<1>2. CASE RelaunchFailed \/ RelaunchAll
  <2>1. FreshGraph
    BY <1>2 DEF RelaunchFailed, RelaunchAll, Relaunch
  <2>2. QED
    BY <1>2, <2>1, RelaunchKeeps, GraphKeeps DEF PipelineInv
<1>3. CASE UNCHANGED vars
  BY <1>3, JobKept, GraphKeeps DEF PipelineInv, vars, files
<1>4. QED
  BY <1>1, <1>2, <1>3 DEF Next

LEMMA PipelineInvariant == Spec => []PipelineInv
<1>1. Init => PipelineInv
  BY InitInv
<1>2. PipelineInv /\ [Next]_vars => PipelineInv'
  BY NextInv
<1>3. QED
  BY <1>1, <1>2, PTL DEF Spec

-----------------------------------------------------------------------------
(* What follows.                                                           *)

\* Type correctness of the pipeline, for any repositories and any drafts; the
\* graph retrieves at most MAX_RETRIEVAL_PASSES times for a candidate.
THEOREM PipelineTyping == Spec => []TypeOK
<1>1. PipelineInv => TypeOK
  BY DEF PipelineInv, GraphOK, JobInv, JobOK, TypeOK
<1>2. QED
  BY <1>1, PipelineInvariant, PTL

\* Every candidate in the queue comes from the most trusted source that named its
\* term in the files its launch read; and launches that read the same files queue
\* no other candidate for the term (enriched_candidates).
THEOREM AlwaysMostTrusted == Spec => []MostTrusted
<1>1. ASSUME PipelineInv PROVE MostTrusted
  <2>1. SUFFICES ASSUME NEW e \in ToSet(review_queue), NEW f \in ToSet(review_queue)
                 PROVE  /\ \A source \in Naming(was[e.launch], KeyOf(e.candidate)) :
                             confidence_rank(e.candidate.source_type) <= confidence_rank(source)
                        /\ /\ KeyOf(f.candidate) = KeyOf(e.candidate)
                           /\ was[f.launch] = was[e.launch]
                           => f.candidate = e.candidate
    BY DEF MostTrusted
  <2>2. /\ e.candidate \in Chosen(was[e.launch]) /\ Distinct(curated_pairs(was[e.launch]))
        /\ f.candidate \in Chosen(was[f.launch]) /\ e.launch <= launches
    BY <1>1 DEF PipelineInv, JobInv, AllSourced, Sourced, ToSet
  <2>3. was[e.launch] \in Repo
    <3>1. was \in Seq(Repo) /\ Len(was) = launches /\ launches \in Nat
      BY <1>1, PipelineConstants DEF PipelineInv, JobInv, JobOK
    <3>2. e \in Submission
      BY <1>1, ElementType DEF PipelineInv, JobInv, JobOK, ToSet
    <3>3. e.launch \in Nat \ {0}
      BY <3>2 DEF Submission
    <3>4. e.launch \in DOMAIN was
      BY <2>2, <3>1, <3>3
    <3>5. QED
      BY <3>1, <3>4, ElementType
  <2>4. \A source \in Naming(was[e.launch], KeyOf(e.candidate)) :
          confidence_rank(e.candidate.source_type) <= confidence_rank(source)
    BY <2>2, <2>3, ChosenBest
  <2>5. KeyOf(f.candidate) = KeyOf(e.candidate) /\ was[f.launch] = was[e.launch] =>
          f.candidate = e.candidate
    BY <2>2, <2>3, ChosenOnce
  <2>6. QED
    BY <2>4, <2>5
<1>2. QED
  BY <1>1, PipelineInvariant, PTL

\* A submitter that is done has submitted every validated term that was not
\* rejected; and no launch puts a term into the queue twice by the same step
\* (loaded_candidates, agentic_review_candidates).
THEOREM AlwaysEachOnce == Spec => []EachOnce
<1>1. ASSUME PipelineInv PROVE EachOnce
  <2>1. ASSUME NEW s \in Submitter, step[s] = "done"
        PROVE  /\ {validated[i].candidate.name : i \in DOMAIN validated}
                    = {review_queue[i].candidate.name : i \in ToSet(ids[s])}
                        \cup ToSet(rejected[s])
               /\ Len(ids[s]) + Len(rejected[s]) = Len(validated)
    <3>1. Accounted(s) /\ DOMAIN validated = 1..Len(validated)
      BY <1>1 DEF PipelineInv, JobInv, JobOK
    <3>2. position[s] = Len(validated)
      BY <2>1, <3>1 DEF Accounted
    <3>3. Behind(s) = {validated[i].candidate.name : i \in DOMAIN validated}
      BY <3>1, <3>2 DEF Behind
    <3>4. QED
      BY <3>1, <3>2, <3>3 DEF Accounted, InQueue
  <2>2. IsInjective(review_queue)
    BY <1>1 DEF PipelineInv, JobInv, QueueOK
  <2>3. QED
    BY <2>1, <2>2 DEF EachOnce
<1>2. QED
  BY <1>1, PipelineInvariant, PTL

-----------------------------------------------------------------------------
(* A run winds down: what is left to do, in order of weight.               *)

Waiting      == {s \in Step : step[s] = "waiting"}
StepsLeft    == Cardinality(Waiting)
DraftsLeft   == Len(ToDraft[repo]) - Len(drafted)
Ahead(s)     == Len(validated) - position[s]
SubmitsLeft  == Ahead("loaded") + Ahead("agentic")
PassesLeft   == MAX_RETRIEVAL_PASSES - retrieval_passes
NodesLeft    ==
  3 * PassesLeft + (IF node = "draft" THEN 2 ELSE IF node = "critique" THEN 1 ELSE 0)

WorkIsCounted ==
  StepsLeft \in Nat /\ DraftsLeft \in Nat /\ SubmitsLeft \in Nat /\ NodesLeft \in Nat

LessWork ==
  \/ StepsLeft' < StepsLeft
  \/ StepsLeft' = StepsLeft /\ DraftsLeft' < DraftsLeft
  \/ StepsLeft' = StepsLeft /\ DraftsLeft' = DraftsLeft /\ SubmitsLeft' < SubmitsLeft
  \/ /\ StepsLeft' = StepsLeft /\ DraftsLeft' = DraftsLeft /\ SubmitsLeft' = SubmitsLeft
     /\ NodesLeft' < NodesLeft

WindsDown == [][(\E s \in Step : Progress(s) \/ Fail(s)) => LessWork]_vars

LEMMA StepsAreFinite == IsFiniteSet(Step)
<1>1. /\ IsFiniteSet({"DEPENDENCY_MANIFEST"}) /\ IsFiniteSet({"ADR_HEADING"})
      /\ IsFiniteSet({"CLASS_NAME"}) /\ IsFiniteSet({"DOCUMENT_OCR"})
      /\ IsFiniteSet({"enriched"}) /\ IsFiniteSet({"validated"})
      /\ IsFiniteSet({"loaded"}) /\ IsFiniteSet({"agentic"})
  BY FS_Singleton
<1>2. IsFiniteSet({"DEPENDENCY_MANIFEST"} \cup {"ADR_HEADING"})
  BY <1>1, FS_Union
<1>3. IsFiniteSet({"CLASS_NAME"} \cup {"DOCUMENT_OCR"})
  BY <1>1, FS_Union
<1>4. IsFiniteSet({"enriched"} \cup {"validated"})
  BY <1>1, FS_Union
<1>5. IsFiniteSet({"loaded"} \cup {"agentic"})
  BY <1>1, FS_Union
<1> DEFINE A == {"DEPENDENCY_MANIFEST"} \cup {"ADR_HEADING"}
           B == {"CLASS_NAME"} \cup {"DOCUMENT_OCR"}
           C == {"enriched"} \cup {"validated"}
           D == {"loaded"} \cup {"agentic"}
<1>6. Step = (A \cup B) \cup (C \cup D)
  BY DEF Step, Extractor, Submitter
<1> HIDE DEF A, B, C, D
<1>7. IsFiniteSet(A \cup B) /\ IsFiniteSet(C \cup D)
  BY <1>2, <1>3, <1>4, <1>5, FS_Union DEF A, B, C, D
<1>8. QED
  BY <1>6, <1>7, FS_Union

LEMMA WorkCounted ==
  ASSUME PipelineInv
  PROVE  /\ WorkIsCounted /\ IsFiniteSet(Waiting)
         /\ \A s \in Submitter : Ahead(s) \in Nat
<1>1. Waiting \subseteq Step
  BY DEF Waiting
<1>2. IsFiniteSet(Waiting)
  BY <1>1, StepsAreFinite, FS_Subset
<1>3. StepsLeft \in Nat
  BY <1>2, FS_CardinalityType DEF StepsLeft
<1>4. DraftsLeft \in Nat
  <2>1. ToDraft[repo] \in Seq(Found)
    BY ToDraftIsBest DEF PipelineInv, JobInv, JobOK, OnePerTerm
  <2>2. drafted \in Seq(Draft) /\ Len(drafted) <= Len(ToDraft[repo])
    BY DEF PipelineInv, JobInv, JobOK, AllChosen
  <2>3. Len(drafted) \in Nat /\ Len(ToDraft[repo]) \in Nat
    BY <2>1, <2>2, ElementType
  <2>4. QED
    BY <2>2, <2>3 DEF DraftsLeft
<1>5. ASSUME NEW s \in Submitter PROVE Ahead(s) \in Nat
  <2>1. position[s] \in Nat /\ validated \in Seq(Pair)
    BY DEF PipelineInv, JobInv, JobOK, Pair
  <2>2. position[s] <= Len(validated)
    BY DEF PipelineInv, JobInv, Accounted
  <2>3. Len(validated) \in Nat
    BY <2>1, ElementType
  <2>4. QED
    BY <2>1, <2>2, <2>3 DEF Ahead
<1>6. SubmitsLeft \in Nat
  BY <1>5 DEF SubmitsLeft, Submitter
<1>7. NodesLeft \in Nat
  BY PipelineConstants DEF PipelineInv, GraphOK, NodesLeft, PassesLeft
<1>8. QED
  BY <1>2, <1>3, <1>4, <1>5, <1>6, <1>7 DEF WorkIsCounted

\* A step that ends is one step less.
LEMMA OneStepLess ==
  ASSUME PipelineInv, NEW s \in Step, NEW v \in {"done", "failed"}, Running(s),
         step' = [step EXCEPT ![s] = v]
  PROVE  LessWork
<1>1. /\ step'[s] = v /\ step[s] = "waiting"
      /\ \A t \in Step : t # s => step'[t] = step[t]
  BY DEF PipelineInv, JobInv, JobOK, Running
<1>2. Waiting' = Waiting \ {s} /\ s \in Waiting
  BY <1>1 DEF Waiting
<1>3. IsFiniteSet(Waiting) /\ StepsLeft \in Nat
  BY WorkCounted DEF WorkIsCounted
<1>4. Cardinality(Waiting \ {s}) = Cardinality(Waiting) - 1
  BY <1>2, <1>3, FS_RemoveElement
<1>5. StepsLeft' = StepsLeft - 1
  BY <1>2, <1>4 DEF StepsLeft
<1>6. QED
  BY <1>3, <1>5 DEF LessWork

LEMMA SubmitIsLess ==
  ASSUME PipelineInv, NEW s \in Submitter, Busy(s), Submit(s),
         UNCHANGED <<repo, drafted, validated>>
  PROVE  LessWork
<1>1. CASE Unanswered(s)
  BY <1>1, OneStepLess, SubmittersAreSteps DEF Unanswered, Busy
<1>2. CASE Accepted(s) \/ Rejected(s)
  <2>1. Advance(s) /\ UNCHANGED step
    BY <1>2 DEF Accepted, Rejected
  <2>2. /\ position'[s] = position[s] + 1
        /\ \A t \in Submitter : t # s => position'[t] = position[t]
    BY <2>1, BehindGrows DEF PipelineInv
  <2>3. StepsLeft' = StepsLeft /\ DraftsLeft' = DraftsLeft
    BY <2>1 DEF StepsLeft, Waiting, DraftsLeft
  <2>4. \A t \in Submitter : Ahead(t) \in Nat
    BY WorkCounted
  <2>5. position[s] \in Nat /\ Len(validated) \in Nat
    BY ElementType DEF PipelineInv, JobInv, JobOK
  <2>6. Ahead(s)' = Ahead(s) - 1 /\ \A t \in Submitter : t # s => Ahead(t)' = Ahead(t)
    BY <2>2, <2>5 DEF Ahead
  <2>7. SubmitsLeft' = SubmitsLeft - 1 /\ SubmitsLeft \in Nat
    <3>1. s = "loaded" \/ s = "agentic"
      BY DEF Submitter
    <3>2. "loaded" \in Submitter /\ "agentic" \in Submitter
      BY DEF Submitter
    <3>3. QED
      BY <2>4, <2>6, <3>1, <3>2 DEF SubmitsLeft
  <2>8. QED
    BY <2>3, <2>7 DEF LessWork
<1>3. QED
  BY <1>1, <1>2 DEF Submit

LEMMA GraphIsLess ==
  ASSUME PipelineInv, retrieve \/ write_draft \/ critique
  PROVE  LessWork
<1>1. UNCHANGED <<repo, step, drafted, validated, position>>
  BY DEF retrieve, write_draft, critique, AtNode, loops, files
<1>2. /\ StepsLeft' = StepsLeft /\ DraftsLeft' = DraftsLeft
      /\ SubmitsLeft' = SubmitsLeft
  BY <1>1 DEF StepsLeft, Waiting, DraftsLeft, SubmitsLeft, Ahead
<1>3. /\ MAX_RETRIEVAL_PASSES \in Nat /\ retrieval_passes \in Nat
      /\ retrieval_passes <= MAX_RETRIEVAL_PASSES
  BY PipelineConstants DEF PipelineInv, GraphOK
<1>4. NodesLeft' < NodesLeft
  <2>1. CASE retrieve
    BY <1>3, <2>1 DEF retrieve, AtNode, NodesLeft, PassesLeft
  <2>2. CASE write_draft
    BY <1>3, <2>2 DEF write_draft, AtNode, NodesLeft, PassesLeft
  <2>3. CASE critique
    BY <1>3, <2>3 DEF critique, AtNode, NodesLeft, PassesLeft, AgenticCritic
  <2>4. QED
    BY <2>1, <2>2, <2>3
<1>5. QED
  BY <1>2, <1>4 DEF LessWork

LEMMA DraftIsLess ==
  ASSUME PipelineInv, Enrich
  PROVE  LessWork
<1>1. CASE step' = step
  <2>1. /\ Len(drafted) < Len(ToDraft[repo])
        /\ \E d \in Draft : drafted' = Append(drafted, d)
        /\ UNCHANGED repo
    <3>1. step["enriched"] = "waiting" /\ step'["enriched"] = "waiting"
      BY <1>1 DEF Enrich, Running
    <3>2. /\ step' # [step EXCEPT !["enriched"] = "failed"]
          /\ step' # [step EXCEPT !["enriched"] = "done"]
      BY <3>1, SubmittersAreSteps DEF PipelineInv, JobInv, JobOK
    <3>3. QED
      BY <3>2 DEF Enrich, files
  <2>2. drafted \in Seq(Draft) /\ DraftsLeft \in Nat
    BY WorkCounted DEF PipelineInv, JobInv, JobOK, WorkIsCounted
  <2>3. Len(drafted') = Len(drafted) + 1 /\ Len(drafted) \in Nat
    BY <2>1, <2>2, AppendIs
  <2>4. Len(ToDraft[repo]) \in Nat
    <3>1. ToDraft[repo] \in Seq(Found)
      BY ToDraftIsBest DEF PipelineInv, JobInv, JobOK, OnePerTerm
    <3>2. QED
      BY <3>1, ElementType
  <2>5. DraftsLeft' < DraftsLeft
    BY <2>1, <2>3, <2>4 DEF DraftsLeft
  <2>6. StepsLeft' = StepsLeft
    BY <1>1 DEF StepsLeft, Waiting
  <2>7. QED
    BY <2>5, <2>6 DEF LessWork
<1>2. CASE step' # step
  BY <1>2, OneStepLess, SubmittersAreSteps DEF Enrich
<1>3. QED
  BY <1>1, <1>2

\* Every step of a run, and every failure, leaves less to do, in numbers that
\* cannot fall for ever; only a launch adds to them.  That is the part of
\* EveryRunEnds that the code has to see to: the rest is fairness.
THEOREM RunsWindDown == Spec => []WorkIsCounted /\ WindsDown
<1>1. PipelineInv => WorkIsCounted
  BY WorkCounted
<1>2. ASSUME PipelineInv, NEW s \in Step, Progress(s) \/ Fail(s) PROVE LessWork
  <2>1. CASE Extract(s)
    BY <1>2, <2>1, OneStepLess DEF Extract
  <2>2. CASE Fail(s)
    BY <1>2, <2>2, OneStepLess DEF Fail
  <2>3. CASE s \in Submitter /\ Finish(s)
    BY <1>2, <2>3, OneStepLess DEF Finish, AtEnd
  <2>4. CASE Enrich
    BY <1>2, <2>4, DraftIsLess
  <2>5. CASE Validate
    BY <1>2, <2>5, OneStepLess, SubmittersAreSteps DEF Validate
  <2>6. CASE Load
    BY <1>2, <2>6, SubmitIsLess DEF Load, Submitter, files
  <2>7. CASE retrieve \/ write_draft \/ critique
    BY <1>2, <2>7, GraphIsLess
  <2>8. CASE submit_review
    BY <1>2, <2>8, SubmitIsLess DEF submit_review, AtNode, Submitter, files
  <2>9. QED
    BY <1>2, <2>1, <2>2, <2>3, <2>4, <2>5, <2>6, <2>7, <2>8 DEF Progress
<1>3. PipelineInv /\ [Next]_vars =>
        [(\E s \in Step : Progress(s) \/ Fail(s)) => LessWork]_vars
  BY <1>2
<1>4. QED
  BY <1>1, <1>3, PipelineInvariant, PTL DEF Spec, WindsDown

=============================================================================
