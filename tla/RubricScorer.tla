---------------------------- MODULE RubricScorer ----------------------------
(***************************************************************************)
(* The deterministic scorer of all four slices of the rubric               *)
(* (domain/rubric_scorer.py), which no other file of the repository calls  *)
(* any more: content is scored by its overlap with the term's own texts.   *)
(*                                                                         *)
(* Texts, words and fractions are those of Grading, and Knowledge is what  *)
(* scoring reads of a term: three non-empty lists of texts, of which only  *)
(* the examples may have no element.                                       *)
(***************************************************************************)
EXTENDS Grading

CONSTANTS
  STOPWORDS,        \* words
  PURPOSE_MARKERS,  \* normalized texts
  EXAMPLE_MARKERS

Knowledge == [expansions : Seq(Text) \ {<< >>}, definitions : Seq(Text) \ {<< >>},
              examples : Seq(Text)]

MIN_CONTENT_WORDS    == 4
\* In percent.
CONCEPT_FULL_OVERLAP == 45
EXAMPLE_OVERLAP      == 25

\* round(), of a fraction: to the nearest, and halfway to the even one.
Nearest(hits, of) ==
  LET n == hits \div of
      twice == 2 * (hits % of)
  IN  IF twice > of \/ (twice = of /\ n % 2 = 1) THEN n + 1 ELSE n

\* Words that carry no signal.
Noise(word) == word \in STOPWORDS \/ Len(word) <= 2

content_words(text) == {word \in words(normalize(text)) : ~Noise(word)}

TooShort(answer) == Cardinality(content_words(answer)) < MIN_CONTENT_WORDS

\* Which share of the target's content words the answer has.
overlap(answer, target) ==
  IF content_words(target) = {} THEN [hits |-> 0, of |-> 1]
  ELSE [hits |-> Cardinality(content_words(answer) \cap content_words(target)),
        of |-> Cardinality(content_words(target))]

contains_marker(answer, markers) ==
  LET padded == <<Blank>> \o normalize(answer) \o <<Blank>>
  IN  \E m \in markers : <<Blank>> \o m \o <<Blank>> \in SubSeqs(padded)

\* The best overlap with the definitions, as a share of what counts as all.
Grounding(answer, term) ==
  LET best == Greatest({overlap(answer, d) : d \in ToSet(term.definitions)})
  IN  IF AtLeast(best, CONCEPT_FULL_OVERLAP) THEN [hits |-> 1, of |-> 1]
      ELSE [hits |-> 100 * best.hits, of |-> CONCEPT_FULL_OVERLAP * best.of]

score_expansion(answer, term) ==
  LET best == Best(answer, term.expansions)
  IN  Nearest(EXPANSION_WEIGHT * best.hits, best.of)

score_concept(answer, term) ==
  LET ratio == Grounding(answer, term)
  IN  IF TooShort(answer) THEN 0 ELSE Nearest(CONCEPT_WEIGHT * ratio.hits, ratio.of)

SignalsPurpose(answer) == contains_marker(answer, PURPOSE_MARKERS)

\* Half for signalling purpose at all, half for grounding it.
score_purpose(answer, term) ==
  LET ratio == Grounding(answer, term)
  IN  IF ~SignalsPurpose(answer) \/ TooShort(answer) THEN 0
      ELSE Nearest(PURPOSE_WEIGHT * (ratio.of + ratio.hits), 2 * ratio.of)

SignalsExample(answer) == contains_marker(answer, EXAMPLE_MARKERS)

score_example(answer, term) ==
  IF /\ ~TooShort(answer)
     /\ \/ SignalsExample(answer)
        \/ \E x \in ToSet(term.examples) : AtLeast(overlap(answer, x), EXAMPLE_OVERLAP)
  THEN EXAMPLE_WEIGHT ELSE 0

score(answer, term) ==
  [concept   |-> score_concept(answer, term),
   expansion |-> score_expansion(answer, term),
   purpose   |-> score_purpose(answer, term),
   example   |-> score_example(answer, term)]
=============================================================================
