----------------------------- MODULE GameRound -----------------------------
(***************************************************************************)
(* The round aggregate of game-service, as pure operators: a player's run, *)
(* the answers recorded in it and the conditions under which its mode lets *)
(* one more answer in (services/game/game_service/domain/round.py).        *)
(*                                                                         *)
(* Terms, feedback texts and scores are left out: no condition of the      *)
(* domain reads them.  A Daily 20 round keeps the number of its snapshotted*)
(* term_ids, which is all is_over looks at.                                *)
(***************************************************************************)
EXTENDS Integers, Sequences, FiniteSets

CONSTANTS
  Req,              \* identities of submissions, one per POST
  SURVIVAL_LIVES,
  BOSS_ROUND_SIZE,
  DAILY_20_ROUND_SIZE,
  ROUND_MAX_ANSWERS,
  SprintDurations   \* the duration_seconds a Sprint round may be given

\* The domain's constants are positive; their values play no other part.
ASSUME RoundConstants ==
  /\ SURVIVAL_LIVES \in Nat \ {0}
  /\ BOSS_ROUND_SIZE \in Nat \ {0}
  /\ DAILY_20_ROUND_SIZE \in Nat \ {0}
  /\ ROUND_MAX_ANSWERS \in Nat \ {0}
  /\ SprintDurations \subseteq Nat \ {0}

RoundMode == {"CLASSIC", "SPRINT", "SURVIVAL", "BOSS", "DAILY_20"}
Verdict   == {"CORRECT", "PARTIAL", "INCORRECT"}

\* MatchedVia, down to what the policies tell apart: the deterministic chain
\* (exact, alias, fuzzy, flagged) or the LLM judge.
MatchedVia == {"DETERMINISTIC", "LLM_RUBRIC"}

GradeOutcome == [verdict : Verdict, matched_via : MatchedVia]

\* One recorded answer.  by names the submission it came from; the code has
\* no such field, the position and the timestamp of the entry play its part.
SubmittedAnswer ==
  [by : Req, verdict : Verdict, matched_via : MatchedVia, submitted_at : Nat]

\* started_at and duration_seconds count for Sprint only and daily_size (the
\* length of term_ids) for Daily 20 only; they are 0 where the code has None.
Round ==
  [mode : RoundMode, started_at : Nat, duration_seconds : Nat,
   daily_size : Nat, answers : Seq(SubmittedAnswer)]

\* RoundMode.llm_grading_policy and resolve_llm_grading: what becomes of the
\* player's opt-in in each mode.
ForcedOff == {"SPRINT", "DAILY_20"}
ForcedOn  == {"BOSS"}

resolve_llm_grading(mode, requested) ==
  /\ mode \notin ForcedOff
  /\ mode \in ForcedOn \/ requested

\* GameRound.start: a round with an empty log.
start(mode, now, duration, size) ==
  [mode             |-> mode,
   started_at       |-> IF mode = "SPRINT" THEN now ELSE 0,
   duration_seconds |-> IF mode = "SPRINT" THEN duration ELSE 0,
   daily_size       |-> IF mode = "DAILY_20" THEN size ELSE 0,
   answers          |-> << >>]

\* The rounds GameRound.start can return at a given time.
NewRounds(now) ==
  {start(m, now, d, n) :
     m \in RoundMode, d \in SprintDurations, n \in 1..DAILY_20_ROUND_SIZE}

\* The round SubmitAnswer.record makes up for an id nobody ever created.
ImplicitRound == start("CLASSIC", 0, 0, 0)

\* remaining_seconds(now) = 0, in the mode that has a countdown.
is_expired(rd, now) ==
  /\ rd.mode = "SPRINT"
  /\ now >= rd.started_at + rd.duration_seconds

IncorrectAt(answers) == {i \in DOMAIN answers : answers[i].verdict = "INCORRECT"}

\* Mutant of OutOfLives: one INCORRECT verdict too many.
OutOfLivesLate(rd) == Cardinality(IncorrectAt(rd.answers)) > SURVIVAL_LIVES

\* lives_remaining = 0: every life lost to an INCORRECT verdict.
OutOfLives(rd) == Cardinality(IncorrectAt(rd.answers)) >= SURVIVAL_LIVES

is_over(rd, now) ==
  \/ is_expired(rd, now)
  \/ rd.mode = "SURVIVAL" /\ OutOfLives(rd)
  \/ rd.mode = "BOSS"     /\ Len(rd.answers) >= BOSS_ROUND_SIZE
  \/ rd.mode = "DAILY_20" /\ Len(rd.answers) >= rd.daily_size

\* GameRound.record raises RoundExpired, RoundOver or RoundFull unless this
\* holds.  All three end the request the same way.
CanRecord(rd, now) ==
  /\ ~is_expired(rd, now)
  /\ ~is_over(rd, now)
  /\ Len(rd.answers) < ROUND_MAX_ANSWERS

\* Mutant of record: the log is replaced, not extended.
recordReplaces(rd, answer) == [rd EXCEPT !.answers = <<answer>>]

record(rd, answer) == [rd EXCEPT !.answers = Append(@, answer)]

-----------------------------------------------------------------------------
\* What a round never outgrows, whatever order answers arrived in: the global
\* ceiling and its mode's own terminal state.
WithinCeiling(rd) == Len(rd.answers) <= ROUND_MAX_ANSWERS
WithinSize(rd) ==
  /\ rd.mode = "BOSS" => Len(rd.answers) <= BOSS_ROUND_SIZE
  /\ rd.mode = "DAILY_20" => Len(rd.answers) <= rd.daily_size
WithinLives(rd) ==
  rd.mode = "SURVIVAL" => Cardinality(IncorrectAt(rd.answers)) <= SURVIVAL_LIVES
WithinTime(rd) ==
  rd.mode = "SPRINT" =>
    \A i \in DOMAIN rd.answers :
      rd.answers[i].submitted_at < rd.started_at + rd.duration_seconds

LegalRound(rd) ==
  /\ WithinCeiling(rd)
  /\ WithinSize(rd)
  /\ WithinLives(rd)
  /\ WithinTime(rd)

\* Submission q has an entry in the log of rd.
Records(rd, q) == \E i \in DOMAIN rd.answers : rd.answers[i].by = q
=============================================================================
