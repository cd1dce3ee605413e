------------------------------- MODULE Grading -------------------------------
(***************************************************************************)
(* How an answer is graded: the chain of deterministic graders             *)
(* (domain/graders.py), and the rubric judge the answer may be escalated   *)
(* to (domain/llm_grader.py, infrastructure/llm_judge.py).                 *)
(*                                                                         *)
(* A text is a sequence of lower-case alphanumerics, its letters, and of   *)
(* anything else, all of which is one Blank to the graders.  Similarities  *)
(* are fractions, compared exactly; the code computes them as floats.      *)
(* Confidences and feedback texts are left out.                            *)
(***************************************************************************)
EXTENDS Integers, SequencesExt

CONSTANTS
  Letter, Blank,
  Offensive,          \* the texts the profanity checker knows
  CONCEPT_WEIGHT, EXPANSION_WEIGHT, PURPOSE_WEIGHT, EXAMPLE_WEIGHT

ASSUME GradingConstants ==
  /\ Blank \notin Letter
  /\ {CONCEPT_WEIGHT, EXPANSION_WEIGHT, PURPOSE_WEIGHT, EXAMPLE_WEIGHT} \subseteq Nat

Text == Seq(Letter \cup {Blank})

\* In percent.
FUZZY_ACCEPT_THRESHOLD  == 62
FUZZY_PARTIAL_THRESHOLD == 40
SUBSTRING_SIMILARITY    == 88
\* In points.
PARTIAL_SCORE_THRESHOLD == 40
CORRECT_SCORE_THRESHOLD == 70

\* Of 40, 30, 20 and 10 points: a partial match is worth one at least, and the
\* slices other than the concept do not add up to a correct answer.
ASSUME RubricWeights ==
  /\ EXPANSION_WEIGHT * FUZZY_PARTIAL_THRESHOLD >= 100
  /\ EXPANSION_WEIGHT + PURPOSE_WEIGHT + EXAMPLE_WEIGHT < CORRECT_SCORE_THRESHOLD

RubricBreakdown ==
  [concept : 0..CONCEPT_WEIGHT, expansion : 0..EXPANSION_WEIGHT,
   purpose : 0..PURPOSE_WEIGHT, example : 0..EXAMPLE_WEIGHT]

total(rubric) == rubric.concept + rubric.expansion + rubric.purpose + rubric.example

zero == [concept |-> 0, expansion |-> 0, purpose |-> 0, example |-> 0]
expansion_only == [zero EXCEPT !.expansion = EXPANSION_WEIGHT]

Outcome(verdict, rubric, via) ==
  [verdict |-> verdict, rubric |-> rubric, matched_via |-> via]

\* A grader that has no opinion.
Abstains == [verdict |-> "NONE"]

-----------------------------------------------------------------------------
\* One Blank between words, none at the ends.
normalize(text) ==
  LET kept == {i \in DOMAIN text :
                 \/ text[i] # Blank
                 \/ /\ i > 1 /\ text[i - 1] # Blank
                    /\ \E j \in DOMAIN text : j > i /\ text[j] # Blank}
  IN  [n \in 1..Cardinality(kept) |->
         text[CHOOSE i \in kept : Cardinality({j \in kept : j <= i}) = n]]

\* set(text.split()), of a normalized text.
words(text) ==
  LET padded == <<Blank>> \o text \o <<Blank>>
  IN  {w \in SubSeqs(text) : /\ w # << >> /\ Blank \notin ToSet(w)
                             /\ <<Blank>> \o w \o <<Blank>> \in SubSeqs(padded)}

Longer(a, b) == IF Cardinality(a) >= Cardinality(b) THEN a ELSE b

token_similarity(answer, target) ==
  LET given  == normalize(answer)
      wanted == normalize(target)
      hits   == words(given) \cap words(wanted)
  IN  IF given = << >> \/ wanted = << >> THEN [hits |-> 0, of |-> 1]
      ELSE IF given = wanted THEN [hits |-> 1, of |-> 1]
      ELSE IF given \in SubSeqs(wanted) \/ wanted \in SubSeqs(given)
      THEN [hits |-> SUBSTRING_SIMILARITY, of |-> 100]
      ELSE [hits |-> Cardinality(hits),
            of |-> Cardinality(Longer(words(given), words(wanted)))]

NoLess(s, r) == s.hits * r.of >= r.hits * s.of
AtLeast(s, percent) == NoLess(s, [hits |-> percent, of |-> 100])

Greatest(similarities) ==
  CHOOSE s \in similarities : \A r \in similarities : NoLess(s, r)

\* all_acceptable_expansions: the expansion and then the aliases.
Best(answer, expansions) ==
  Greatest({token_similarity(answer, x) : x \in ToSet(expansions)})

-----------------------------------------------------------------------------
ProfanityGrader(answer) ==
  IF answer \in Offensive THEN Outcome("INCORRECT", zero, "FLAGGED") ELSE Abstains

ExactGrader(answer, expansions) ==
  IF normalize(answer) = normalize(expansions[1])
  THEN Outcome("CORRECT", expansion_only, "EXACT") ELSE Abstains

\* Mutant of AliasGrader: spaces count for nothing.
AliasGraderSpaceless(answer, expansions) ==
  LET Squeezed(text) == SelectSeq(text, LAMBDA c : c # Blank)
  IN  IF \E i \in 2..Len(expansions) : Squeezed(answer) = Squeezed(expansions[i])
      THEN Outcome("CORRECT", expansion_only, "ALIAS") ELSE Abstains

AliasGrader(answer, expansions) ==
  IF \E i \in 2..Len(expansions) : normalize(answer) = normalize(expansions[i])
  THEN Outcome("CORRECT", expansion_only, "ALIAS") ELSE Abstains

\* Mutant of PartialRubric: a partial match takes the whole expansion.
PartialRubricFull(s) == expansion_only

\* int(EXPANSION_WEIGHT * best)
PartialRubric(s) == [zero EXCEPT !.expansion = (EXPANSION_WEIGHT * s.hits) \div s.of]

\* Never abstains.
FuzzyGrader(answer, expansions) ==
  LET best == Best(answer, expansions)
  IN  IF AtLeast(best, FUZZY_ACCEPT_THRESHOLD)
      THEN Outcome("CORRECT", expansion_only, "FUZZY")
      ELSE IF AtLeast(best, FUZZY_PARTIAL_THRESHOLD)
      THEN Outcome("PARTIAL", PartialRubric(best), "FUZZY")
      ELSE Outcome("INCORRECT", zero, "FUZZY")

\* build_deterministic_evaluator, with a profanity checker.
Chain == <<"FLAGGED", "EXACT", "ALIAS", "FUZZY">>

grade(grader, answer, expansions) ==
  CASE grader = "FLAGGED" -> ProfanityGrader(answer)
    [] grader = "EXACT"   -> ExactGrader(answer, expansions)
    [] grader = "ALIAS"   -> AliasGrader(answer, expansions)
    [] grader = "FUZZY"   -> FuzzyGrader(answer, expansions)

-----------------------------------------------------------------------------
\* The judge's scores are clamped into the rubric.
clamped_score(raw, maximum) ==
  IF raw < 0 THEN 0 ELSE IF raw > maximum THEN maximum ELSE raw

judge(raw) ==
  [concept   |-> clamped_score(raw.concept, CONCEPT_WEIGHT),
   expansion |-> clamped_score(raw.expansion, EXPANSION_WEIGHT),
   purpose   |-> clamped_score(raw.purpose, PURPOSE_WEIGHT),
   example   |-> clamped_score(raw.example, EXAMPLE_WEIGHT)]

\* LLMRubricGrader.grade
LLMGrade(raw) ==
  LET rubric == judge(raw)
      points == total(rubric)
      verdict == IF points < PARTIAL_SCORE_THRESHOLD THEN "INCORRECT"
                 ELSE IF points < CORRECT_SCORE_THRESHOLD THEN "PARTIAL"
                 ELSE "CORRECT"
  IN  Outcome(verdict, rubric, "LLM_RUBRIC")
=============================================================================
