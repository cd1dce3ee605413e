----------------------------- MODULE PlayedRound -----------------------------
(***************************************************************************)
(* One round, as its player goes through it: which term is shown next      *)
(* (GetNextTerm in game-service, the filter it sends and the query of      *)
(* content-service that answers it), how the answer is graded, step by     *)
(* step of the chain, and what is recorded.                                *)
(*                                                                         *)
(* A term is what selection and grading look at.  A draw at random is the  *)
(* set of the terms it may return, empty where the code raises ValueError. *)
(* Time, crashes, overlapping submissions and the grade cache are          *)
(* AnswerSubmission's subject: here the clock stands at 0, and the next    *)
(* answer waits until the last one is committed.                           *)
(***************************************************************************)
EXTENDS GameRound, Grading

CONSTANTS
  Term,             \* the ids a term may have
  Category,
  Profile,          \* what each term is like
  Expansions,       \* for each term, its expansion and then its aliases
  Shuffle,          \* the day's shuffle of the ids of each possible bank
  Texts,            \* the answers the player may give
  RawJudgments,     \* the scores the judge may reply with
  MODERATE,         \* Difficulty.MODERATE, as its integer
  TERM_PRIMARY_DEFINITION_MIN_LEN,
  Anything,         \* a filter left out
  Nothing

TermProfile ==
  [categories : SUBSET Category, difficulty : Nat,
   examples : Nat, definition_length : Nat]

RawJudgment == [concept : Int, expansion : Int, purpose : Int, example : Int]

ASSUME PlayConstants ==
  /\ IsFiniteSet(Term)
  /\ Profile \in [Term -> TermProfile]
  /\ Expansions \in [Term -> Seq(Text) \ {<< >>}]
  /\ Shuffle \in [SUBSET Term -> Seq(Term)]
  /\ \A b \in SUBSET Term : IsInjective(Shuffle[b]) /\ ToSet(Shuffle[b]) = b
  /\ Texts \subseteq Text /\ Nothing \notin Texts
  /\ RawJudgments \subseteq RawJudgment
  /\ Nothing \notin Term
  /\ MODERATE \in Nat /\ TERM_PRIMARY_DEFINITION_MIN_LEN \in Nat
  /\ Anything \notin Category \cup Nat
  /\ Req = 1..ROUND_MAX_ANSWERS

\* What the pickers of the client ask for, for the whole round.  One floor of
\* difficulty stands for all.
Pick == [category : Category \cup {Anything}, difficulty : {MODERATE, Anything}]

VARIABLES
  bank,             \* content-service's terms
  rd,               \* the committed round
  term_ids,         \* its snapshot, in a Daily 20 round
  answered,         \* the terms of rd.answers
  pick,
  term,             \* the one on the screen
  asked,            \* it is still to be answered
  stage,            \* of the submission
  subject, text,    \* the term and the answer submitted
  streamed,         \* to the streaming endpoint
  graders,          \* the rest of the chain
  outcome,
  ahead             \* history: a term was drawn before a commit it came after

screen == <<term, asked>>
round  == <<rd, term_ids, answered, pick>>
submission == <<stage, subject, text, streamed, graders, outcome>>
vars == <<bank, round, screen, submission, ahead>>

\* "shown" is where the streaming endpoint has sent the grade, and its
\* transaction is still open.
Stage == {"idle", "grading", "graded", "shown"}

GradeOutcomes ==
  [verdict : Verdict, rubric : RubricBreakdown,
   matched_via : {"FLAGGED", "EXACT", "ALIAS", "FUZZY", "LLM_RUBRIC"}]

TypeOK ==
  /\ bank \subseteq Term
  /\ rd \in Round /\ LegalRound(rd)
  /\ term_ids \in Seq(Term) /\ IsInjective(term_ids)
  /\ answered \in Seq(Term) /\ Len(answered) = Len(rd.answers)
  /\ pick \in Pick
  /\ term \in Term \cup {Nothing}
  /\ asked \in BOOLEAN
  /\ stage \in Stage
  /\ subject \in Term \cup {Nothing}
  /\ text \in Texts \cup {Nothing}
  /\ streamed \in BOOLEAN
  /\ IsSuffix(graders, Chain)
  /\ outcome \in GradeOutcomes \cup {Nothing}
  /\ ahead \in BOOLEAN

-----------------------------------------------------------------------------
(* Which terms may come next.                                              *)

is_boss_eligible(t) ==
  /\ Profile[t].difficulty >= MODERATE
  /\ Profile[t].examples > 0
  /\ Profile[t].definition_length >= TERM_PRIMARY_DEFINITION_MIN_LEN

\* TermFilter; what it leaves out constrains nothing.
Unfiltered == [min_difficulty |-> Anything, require_examples |-> FALSE,
               min_definition_length |-> Anything]
boss_eligible == [min_difficulty |-> MODERATE, require_examples |-> TRUE,
                  min_definition_length |-> TERM_PRIMARY_DEFINITION_MIN_LEN]

\* None is not a filter.
ASSUME NoFilter == Anything # boss_eligible

\* The request on the wire, with no field set for a filter that is not there.
GetRandomRequest(excluded, category, f) ==
  [excluded_ids |-> excluded, category |-> category,
   min_difficulty |-> IF f = Anything THEN Anything ELSE f.min_difficulty,
   require_examples |-> f # Anything /\ f.require_examples,
   min_definition_length |-> IF f = Anything THEN Anything
                             ELSE f.min_definition_length]

matches(f, t) ==
  /\ f.min_difficulty = Anything \/ Profile[t].difficulty >= f.min_difficulty
  /\ f.require_examples => Profile[t].examples > 0
  /\ \/ f.min_definition_length = Anything
     \/ Profile[t].definition_length >= f.min_definition_length

\* The query for a request.
InScope(request) ==
  {t \in bank : /\ \/ request.category = Anything
                   \/ request.category \in Profile[t].categories
                /\ matches(request, t)}

\* Mutants of random: the fallback drops the filter with the exclusions; it
\* never excludes.
randomUnscoped(request) ==
  IF InScope(request) \ request.excluded_ids # {}
  THEN InScope(request) \ request.excluded_ids ELSE bank
randomRepeats(request) == InScope(request)

\* Excluded ids are avoided where possible; once they cover the whole scope
\* the query runs again without them.
random(request) ==
  IF InScope(request) \ request.excluded_ids # {}
  THEN InScope(request) \ request.excluded_ids ELSE InScope(request)

\* The servicer: a term, or the reply that none was found.
GetRandom(request) == IF random(request) = {} THEN {Nothing} ELSE random(request)

\* ListAllTermIds.
all_ids == bank

\* daily_term_ids, of the ids content-service has.
daily_term_ids(ids) ==
  SubSeq(Shuffle[ids], 1, IF Cardinality(ids) < DAILY_20_ROUND_SIZE
                          THEN Cardinality(ids) ELSE DAILY_20_ROUND_SIZE)

FilterOf(mode, difficulty) ==
  IF mode = "BOSS" THEN boss_eligible
  ELSE IF difficulty = Anything THEN Anything
  ELSE [Unfiltered EXCEPT !.min_difficulty = difficulty]

\* What is asked of content-service on behalf of the player.
Request ==
  GetRandomRequest(ToSet(answered), pick.category, FilterOf(rd.mode, pick.difficulty))

\* Mutant of GetNextTerm: a Daily 20 round asks for today's set again.
GetNextTermToday ==
  IF rd.mode = "DAILY_20"
  THEN IF Len(rd.answers) >= Len(daily_term_ids(all_ids)) THEN {}
       ELSE {daily_term_ids(all_ids)[Len(rd.answers) + 1]}
  ELSE GetRandom(Request) \ {Nothing}

\* A Daily 20 round walks its snapshot by the number of recorded answers; all
\* other modes draw, avoiding the terms of the recorded answers.
GetNextTerm ==
  IF rd.mode = "DAILY_20"
  THEN IF Len(rd.answers) >= Len(term_ids) THEN {}
       ELSE {term_ids[Len(rd.answers) + 1]}
  ELSE GetRandom(Request) \ {Nothing}

-----------------------------------------------------------------------------
(* The round.                                                              *)

\* CreateGameRound: a Daily 20 round needs a term.
Init ==
  /\ bank \in SUBSET Term
  /\ pick \in Pick
  /\ \E m \in RoundMode, d \in SprintDurations :
       LET ids == IF m = "DAILY_20" THEN daily_term_ids(all_ids) ELSE << >> IN
         /\ m = "DAILY_20" => ids # << >>
         /\ term_ids = ids
         /\ rd = start(m, 0, d, Len(ids))
  /\ answered = << >> /\ term = Nothing /\ asked = FALSE
  /\ stage = "idle" /\ subject = Nothing /\ text = Nothing /\ streamed = FALSE
  /\ graders = << >> /\ outcome = Nothing /\ ahead = FALSE

\* A term reaches the bank: an author's, or an approved candidate.
Publish ==
  /\ \E t \in Term \ bank : bank' = bank \cup {t}
  /\ UNCHANGED <<round, screen, submission, ahead>>

Entry == [by |-> Len(rd.answers) + 1, verdict |-> outcome.verdict,
          matched_via |-> IF outcome.matched_via = "LLM_RUBRIC"
                          THEN "LLM_RUBRIC" ELSE "DETERMINISTIC",
          submitted_at |-> 0]

\* The round and its terms as the player knows them: with the grade shown.
Played   == IF stage = "shown" THEN record(rd, Entry) ELSE rd
PlayedTerms == answered \o IF stage = "shown" THEN <<subject>> ELSE << >>

\* The player asks for the next term, as soon as a grade is on the screen.
Draw ==
  /\ ~asked /\ stage \in {"idle", "shown"} /\ ~is_over(Played, 0)
  /\ term' \in GetNextTerm
  /\ asked' = TRUE
  /\ ahead' = (ahead \/ stage = "shown")
  /\ UNCHANGED <<bank, round, submission>>

\* Opting in to the judge, or a Boss round, takes the streaming endpoint.
Submit ==
  /\ asked /\ stage = "idle"
  /\ asked' = FALSE
  /\ stage' = "grading" /\ subject' = term /\ graders' = Chain
  /\ text' \in Texts
  /\ streamed' \in (IF rd.mode = "BOSS" THEN {TRUE} ELSE BOOLEAN)
  /\ UNCHANGED <<bank, round, term, outcome, ahead>>

\* One step of AnswerEvaluator.evaluate.
Evaluate ==
  /\ stage = "grading"
  /\ LET opinion == grade(Head(graders), text, Expansions[subject]) IN
       IF opinion = Abstains
       THEN graders' = Tail(graders) /\ UNCHANGED <<stage, outcome>>
       ELSE stage' = "graded" /\ outcome' = opinion /\ graders' = << >>
  /\ UNCHANGED <<bank, round, screen, subject, text, streamed, ahead>>

\* A partial outcome, where the mode lets the player's choice count.
Escalates ==
  /\ stage = "graded" /\ outcome.matched_via = "FUZZY" /\ outcome.verdict = "PARTIAL"
  /\ resolve_llm_grading(rd.mode, streamed)

\* A judge that fails leaves the deterministic outcome: Finish, below.
Escalate ==
  /\ Escalates
  /\ \E raw \in RawJudgments : outcome' = LLMGrade(raw)
  /\ UNCHANGED <<bank, round, screen, stage, subject, text, streamed, graders, ahead>>

Over == /\ stage' = "idle" /\ outcome' = Nothing
        /\ subject' = Nothing /\ text' = Nothing /\ streamed' = FALSE

\* Mutant of Recorded: a term is noted for an answer the round never takes.
RecordedTwice ==
  /\ rd' = record(rd, Entry) /\ answered' = answered \o <<subject, subject>>
  /\ UNCHANGED <<term_ids, pick>>

Recorded ==
  /\ rd' = record(rd, Entry) /\ answered' = Append(answered, subject)
  /\ UNCHANGED <<term_ids, pick>>

\* record and what follows it: the plain endpoint commits and answers, the
\* streaming one sends the grade, and then commits.
Finish ==
  /\ stage = "graded" /\ CanRecord(rd, 0)
  /\ IF streamed
     THEN /\ stage' = "shown"
          /\ UNCHANGED <<round, subject, text, streamed, outcome>>
     ELSE Recorded /\ Over
  /\ UNCHANGED <<bank, screen, graders, ahead>>

Commit ==
  /\ stage = "shown"
  /\ Recorded /\ Over
  /\ UNCHANGED <<bank, screen, graders, ahead>>

\* RoundFull: no other end of a round is new to this player.
Refuse ==
  /\ stage = "graded" /\ ~CanRecord(rd, 0)
  /\ Over
  /\ UNCHANGED <<bank, round, screen, graders, ahead>>

Next ==
  \/ Publish \/ Draw \/ Submit \/ Evaluate \/ Escalate
  \/ Finish \/ Commit \/ Refuse

Spec == Init /\ [][Next]_vars

-----------------------------------------------------------------------------
(* Properties.                                                             *)

\* A term comes back in a round only when everything the player may be asked
\* has been, or when it is asked for before its answer is committed.
FreshTerm ==
  [][asked' /\ ~asked /\ stage # "shown" =>
       \/ term' \notin ToSet(PlayedTerms)
       \/ /\ rd.mode # "DAILY_20"
          /\ InScope(Request) \subseteq ToSet(PlayedTerms)
       \/ rd.mode = "DAILY_20" /\ ahead]_vars

\* However little the bank has for it, a Boss round shows only terms that can
\* bear a rubric: the filter on the wire means what Term.is_boss_eligible says.
BossTermsEligible == rd.mode = "BOSS" /\ term # Nothing => is_boss_eligible(term)

\* A Daily 20 round is the set of its day in its order, whatever became of the
\* bank in the meantime -- unless a term was asked for before a commit.
DailyIsShared == rd.mode = "DAILY_20" /\ ~ahead => IsPrefix(answered, term_ids)

\* The shortcuts of the chain accept nothing the last grader would refuse,
\* except an answer and an alias of which normalization leaves nothing.
ShortcutsSound ==
  outcome # Nothing /\ outcome.matched_via \in {"EXACT", "ALIAS"} =>
    \/ normalize(text) = << >>
    \/ FuzzyGrader(text, Expansions[subject]).verdict = "CORRECT"

\* More points never come with a worse verdict from the same kind of grader,
\* and no judge calls an answer correct that shows nothing of the concept.
ScoresFollowVerdicts ==
  outcome # Nothing =>
    LET points == total(outcome.rubric) IN
      IF outcome.matched_via = "LLM_RUBRIC"
      THEN outcome.verdict = "CORRECT" => outcome.rubric.concept > 0
      ELSE /\ outcome.verdict = "CORRECT"   => points = EXPANSION_WEIGHT
           /\ outcome.verdict = "PARTIAL"   => points \in 1..EXPANSION_WEIGHT - 1
           /\ outcome.verdict = "INCORRECT" => points = 0
=============================================================================
