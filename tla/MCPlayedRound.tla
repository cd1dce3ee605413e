--------------------------- MODULE MCPlayedRound ---------------------------
(***************************************************************************)
(* A small instance of PlayedRound: three terms, of which one bears a Boss *)
(* round and one misses it by its definition only, and ten answers.  The   *)
(* rubric scorer is tried on words of three letters.                       *)
(***************************************************************************)
EXTENDS PlayedRound, RubricScorer

CONSTANTS a, b, c, d, e, t1, t2, t3, web

MCReq == 1..2

MCProfile ==
  [t \in {t1, t2, t3} |->
     CASE t = t1 -> [categories |-> {web}, difficulty |-> 2, examples |-> 1,
                     definition_length |-> 2]
       [] t = t2 -> [categories |-> {web}, difficulty |-> 1, examples |-> 0,
                     definition_length |-> 2]
       [] t = t3 -> [categories |-> {}, difficulty |-> 2, examples |-> 1,
                     definition_length |-> 1]]

\* Five words, one word with an alias in another alphabet, two words with an
\* alias of one.
MCExpansions ==
  [t \in {t1, t2, t3} |->
     CASE t = t1 -> <<<<a, Blank, b, Blank, c, Blank, d, Blank, e>>>>
       [] t = t2 -> <<<<a, c>>, <<Blank>>>>
       [] t = t3 -> <<<<c, Blank, d>>, <<a, Blank, b>>>>]

MCShuffle ==
  [s \in SUBSET {t1, t2, t3} |->
     SelectSeq(IF t1 \in s THEN <<t3, t1, t2>> ELSE <<t2, t3, t1>>, LAMBDA t : t \in s)]

\* Nothing, a part, all, and one, two or three of five words in any order.
MCTexts ==
  {<<Blank>>, <<a>>, <<a, c>>, <<a, b>>, <<b, Blank, a>>, <<a, Blank, c>>,
   <<b, Blank, d, Blank, a>>, <<Blank, c, Blank, Blank, d>>, <<d, d>>, <<b, b>>}
MCOffensive == {<<d, d>>}

MCRawJudgments ==
  {[concept |-> 45, expansion |-> 30, purpose |-> 28, example |-> 10],
   [concept |-> 0, expansion |-> 38, purpose |-> 28, example |-> 12],
   [concept |-> -1, expansion |-> 0, purpose |-> 0, example |-> 0]}

-----------------------------------------------------------------------------
\* A text of the words given, each one letter three times.
Said(letters) == FlattenSeq([i \in DOMAIN letters |->
                              IF i = 1 THEN [n \in 1..3 |-> letters[i]]
                              ELSE <<Blank>> \o [n \in 1..3 |-> letters[i]]])

MCSTOPWORDS       == {Said(<<e>>)}
MCPURPOSE_MARKERS == {Said(<<a, b>>)}
MCEXAMPLE_MARKERS == {Said(<<e>>)}

\* Two definitions, of which one says nothing, and an example of four words.
Sample == [expansions  |-> <<Said(<<a, b, c>>), Said(<<d>>)>>,
           definitions |-> <<Said(<<c, d>>), Said(<<e, e>>)>>,
           examples    |-> <<Said(<<a, b, c, d>>)>>]

SaidTexts == {Said(s) : s \in UNION {[1..n -> {a, b, c, d, e}] : n \in {1, 4}}}

\* Every answer has a rubric, and the slices come as the scorer's comments say.
ASSUME RubricsOfSample ==
  /\ \A answer \in SaidTexts : score(answer, Sample) \in RubricBreakdown
  /\ score(Said(<<a, b, c, d>>), Sample)
       = [concept |-> 40, expansion |-> 26, purpose |-> 20, example |-> 10]
  /\ score(Said(<<d, d, d, d>>), Sample)
       = [concept |-> 0, expansion |-> 26, purpose |-> 0, example |-> 0]
  /\ score(Said(<<a, e, b, c>>), Sample)
       = [concept |-> 0, expansion |-> 22, purpose |-> 0, example |-> 0]
=============================================================================
