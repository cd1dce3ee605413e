-------------------------- MODULE AnswerSubmission --------------------------
(***************************************************************************)
(* Answer submission in game-service: concurrent POSTs to a round's        *)
(* answers/submit and answers/submit/stream, from the first read of the    *)
(* round to the commit of the upserted row                                 *)
(* (application/use_cases.py, infrastructure/sql_*.py, api/routers).       *)
(*                                                                         *)
(* A submission is a coroutine: it runs alone between two awaits, so every *)
(* action below is what it does from one await to the next.  Rows live in  *)
(* PostgreSQL at READ COMMITTED: a SELECT sees the last committed row, the *)
(* upsert takes the row's lock and holds it until the transaction ends.    *)
(* The grade cache is a dict of the process, shared by all requests, and   *)
(* not part of the transaction; neither is the Kafka topic answers.graded. *)
(***************************************************************************)
EXTENDS GameRound

CONSTANTS
  RoundId,
  Key,            \* (term_id, hash of the answer) pairs: what a grade is cached by
  Evaluate,       \* the deterministic chain's outcome for each key
  Judgments,      \* the outcomes the LLM judge may come back with
  Jobs,           \* the submissions clients may send
  NoRound, NoGrade, NoJob,
  MaxTime,        \* bound on the clock
  MaxCrashes,     \* bound on process crashes
  BrokerMayFail   \* whether a publish may hit a KafkaError

\* A job is one POST: the round of its path, the key its body amounts to,
\* use_llm_grading and which of the two endpoints it was sent to.
Job == [round : RoundId, key : Key, opt_in : BOOLEAN, stream : BOOLEAN]

ASSUME SubmissionConstants ==
  /\ Jobs \subseteq Job
  /\ Evaluate \in [Key -> {o \in GradeOutcome : o.matched_via = "DETERMINISTIC"}]
  /\ Judgments \subseteq {o \in GradeOutcome : o.matched_via = "LLM_RUBRIC"}
  /\ MaxTime \in Nat
  /\ MaxCrashes \in Nat
  /\ BrokerMayFail \in BOOLEAN
  /\ NoRound \notin Round
  /\ NoGrade \notin GradeOutcome
  /\ NoJob \notin Job

VARIABLES
  clock,      \* datetime.now(UTC)
  rounds,     \* committed rows of game_rounds
  cache,      \* the process-wide InMemoryGradeCache
  published,  \* submissions whose AnswerGraded event is in the topic
  crashes,    \* crashes so far
  phase,      \* where each submission stands
  job,        \* what it was asked
  round_,     \* round_: the row it read on entry, then the row it writes back
  grade,      \* outcome
  fresh,      \* graded by this submission, not answered from the cache
  shown,      \* submissions whose client has been sent the grade
  committed,  \* history: submissions whose transaction committed
  rivals      \* history: who else held a snapshot of the round at that commit

shared  == <<rounds, cache, published>>
locals  == <<round_, grade>>
request == <<job, fresh, locals>>
history == <<committed, rivals>>
vars == <<clock, shared, crashes, phase, request, shown, history>>

\* Phases in which a submission holds the row it read.
Holding == {"read", "grading", "judging", "persisting", "publishing",
            "recording", "saving", "saved"}
Active  == Holding \cup {"opened"}
Ended   == {"done", "rejected", "aborted", "unanswered"}
Phase   == Active \cup Ended \cup {"idle", "committed"}

TypeOK ==
  /\ clock \in 0..MaxTime
  /\ crashes \in 0..MaxCrashes
  /\ rounds \in [RoundId -> Round \cup {NoRound}]
  /\ cache \in [Key -> GradeOutcome \cup {NoGrade}]
  /\ phase \in [Req -> Phase]
  /\ job \in [Req -> Jobs \cup {NoJob}]
  /\ \A q \in Req : phase[q] # "idle" => job[q] \in Jobs
  /\ round_ \in [Req -> Round \cup {NoRound}]
  /\ grade \in [Req -> GradeOutcome \cup {NoGrade}]
  /\ \A q \in Req : phase[q] \in {"judging", "persisting", "publishing",
                                  "recording", "saving", "saved"}
                      => grade[q] \in GradeOutcome
  /\ fresh \in [Req -> BOOLEAN]
  /\ \A q \in Req : phase[q] \in {"saving", "saved"} => round_[q] \in Round
  /\ published \subseteq Req
  /\ shown \subseteq Req
  /\ committed \subseteq Req
  /\ rivals \in [Req -> SUBSET Req]

Init ==
  /\ clock = 0
  /\ crashes = 0
  /\ rounds = [r \in RoundId |-> NoRound]
  /\ cache = [k \in Key |-> NoGrade]
  /\ phase = [q \in Req |-> "idle"]
  /\ job = [q \in Req |-> NoJob]
  /\ round_ = [q \in Req |-> NoRound]
  /\ grade = [q \in Req |-> NoGrade]
  /\ fresh = [q \in Req |-> FALSE]
  /\ published = {}
  /\ shown = {}
  /\ committed = {}
  /\ rivals = [q \in Req |-> {}]

Move(q, from, to) == phase[q] = from /\ phase' = [phase EXCEPT ![q] = to]

\* The use case returns or raises: its locals are gone.
Leave(q, from, to) ==
  /\ Move(q, from, to)
  /\ round_' = [round_ EXCEPT ![q] = NoRound]
  /\ grade' = [grade EXCEPT ![q] = NoGrade]

-----------------------------------------------------------------------------
(* The environment: time, and players starting rounds and answering.       *)

Tick ==
  /\ clock < MaxTime
  /\ clock' = clock + 1
  /\ UNCHANGED <<shared, crashes, phase, request, shown, history>>

\* CreateGameRound.execute.  The id is a fresh uuid4 that no client knows
\* before the commit, so nobody has submitted to it and the transaction's
\* steps are invisible: it is one step.
CreateGameRound(r) ==
  /\ rounds[r] = NoRound
  /\ \A q \in Req : phase[q] # "idle" => job[q].round # r
  /\ \E rd \in NewRounds(clock) : rounds' = [rounds EXCEPT ![r] = rd]
  /\ UNCHANGED <<clock, cache, published, crashes, phase, request, shown, history>>

\* A POST arrives and the use case enters its unit of work.
Submit(q, j) ==
  /\ Move(q, "idle", "opened")
  /\ job' = [job EXCEPT ![q] = j]
  /\ UNCHANGED <<clock, shared, crashes, locals, fresh, shown, history>>

-----------------------------------------------------------------------------
(* The submission, await by await.                                         *)

\* round_ = await self.uow.rounds.by_id(round_id)
ReadRound(q) ==
  /\ Move(q, "opened", "read")
  /\ round_' = [round_ EXCEPT ![q] = rounds[job[q].round]]
  /\ UNCHANGED <<clock, shared, crashes, job, grade, fresh, shown, history>>

\* Mutant of CacheHit: the cached path goes through persist() as well.
CacheHitPersists(q) ==
  /\ Move(q, "read", "publishing")
  /\ cache[job[q].key] # NoGrade
  /\ grade' = [grade EXCEPT ![q] = cache[job[q].key]]
  /\ UNCHANGED <<clock, shared, crashes, job, round_, fresh, shown, history>>

\* A cached outcome skips grading and persist(): only record() remains.
CacheHit(q) ==
  /\ Move(q, "read", "recording")
  /\ cache[job[q].key] # NoGrade
  /\ grade' = [grade EXCEPT ![q] = cache[job[q].key]]
  /\ UNCHANGED <<clock, shared, crashes, job, round_, fresh, shown, history>>

CacheMiss(q) ==
  /\ Move(q, "read", "grading")
  /\ cache[job[q].key] = NoGrade
  /\ UNCHANGED <<clock, shared, crashes, request, shown, history>>

\* terms.by_id(term_id) is None: ValueError, a 404.
TermNotFound(q) ==
  /\ Leave(q, "grading", "rejected")
  /\ UNCHANGED <<clock, shared, crashes, job, fresh, shown, history>>

\* Mutant of UseLlm: the mode's policy is not consulted.
UseLlmAsRequested(q) == job[q].opt_in

\* use_llm_grading, once the mode of the round that was read has had its say.
UseLlm(q) ==
  IF round_[q] = NoRound THEN job[q].opt_in
  ELSE resolve_llm_grading(round_[q].mode, job[q].opt_in)

\* Mutant of Escalates: every verdict goes to the judge.
EscalatesAlways(q) == UseLlm(q)

\* Only an ambiguous deterministic verdict is worth the judge.
Escalates(q) == UseLlm(q) /\ Evaluate[job[q].key].verdict = "PARTIAL"

\* The deterministic chain always has an outcome; the judge may replace it.
Grade(q) ==
  /\ Move(q, "grading", IF Escalates(q) THEN "judging" ELSE "persisting")
  /\ grade' = [grade EXCEPT ![q] = Evaluate[job[q].key]]
  /\ fresh' = [fresh EXCEPT ![q] = TRUE]
  /\ UNCHANGED <<clock, shared, crashes, job, round_, shown, history>>

JudgeAnswers(q) ==
  /\ Move(q, "judging", "persisting")
  /\ \E o \in Judgments : grade' = [grade EXCEPT ![q] = o]
  /\ UNCHANGED <<clock, shared, crashes, job, round_, fresh, shown, history>>

\* Mutant of JudgeFails: no fallback to the deterministic outcome.
JudgeFailsBare(q) ==
  /\ Move(q, "judging", "persisting")
  /\ grade' = [grade EXCEPT ![q] = NoGrade]
  /\ UNCHANGED <<clock, shared, crashes, job, round_, fresh, shown, history>>

\* Timeout or any other Exception: the deterministic outcome stands.
JudgeFails(q) ==
  /\ Move(q, "judging", "persisting")
  /\ UNCHANGED <<clock, shared, crashes, request, shown, history>>

\* persist(): the cache first ...
CachePut(q) ==
  /\ Move(q, "persisting", "publishing")
  /\ cache' = [cache EXCEPT ![job[q].key] = grade[q]]
  /\ UNCHANGED <<clock, rounds, published, crashes, request, shown, history>>

\* ... then the event; a KafkaError is logged and swallowed ...
Publish(q) ==
  /\ Move(q, "publishing", "recording")
  /\ \/ published' = published \cup {q}
     \/ BrokerMayFail /\ UNCHANGED published
  /\ UNCHANGED <<clock, rounds, cache, crashes, request, shown, history>>

\* Mutant of Base: the row is rebuilt around the log that was read.
BaseRebuilt(q) ==
  IF round_[q] # NoRound THEN [ImplicitRound EXCEPT !.answers = round_[q].answers]
  ELSE IF rounds[job[q].round] # NoRound THEN rounds[job[q].round]
  ELSE ImplicitRound

\* ... then record(): on the row read at entry, or on a second read when
\* there was none, or on a Classic round made up for the id.
Base(q) ==
  IF round_[q] # NoRound THEN round_[q]
  ELSE IF rounds[job[q].round] # NoRound THEN rounds[job[q].round]
  ELSE ImplicitRound

Entry(q) ==
  [by |-> q, verdict |-> grade[q].verdict,
   matched_via |-> grade[q].matched_via, submitted_at |-> clock]

Record(q) ==
  /\ Move(q, "recording", "saving")
  /\ CanRecord(Base(q), clock)
  /\ round_' = [round_ EXCEPT ![q] = record(Base(q), Entry(q))]
  /\ UNCHANGED <<clock, shared, crashes, job, grade, fresh, shown, history>>

\* RoundExpired, RoundOver or RoundFull: a 422 and a rollback.
RecordRefused(q) ==
  /\ Leave(q, "recording", "rejected")
  /\ ~CanRecord(Base(q), clock)
  /\ UNCHANGED <<clock, shared, crashes, job, fresh, shown, history>>

\* Mutant of RowLocked: leaving with an exception forgets to roll back.
RowLockedByAborted(r) ==
  \E p \in Req : phase[p] \in {"saved", "aborted"} /\ job[p].round = r

\* INSERT .. ON CONFLICT DO UPDATE of the whole row waits for the lock.
RowLocked(r) == \E p \in Req : phase[p] = "saved" /\ job[p].round = r

Save(q) ==
  /\ Move(q, "saving", "saved")
  /\ ~RowLocked(job[q].round)
  /\ UNCHANGED <<clock, shared, crashes, request, shown, history>>

\* The streaming endpoint yields the graded frame inside the unit of work.
EmitGraded(q) ==
  /\ phase[q] = "saved"
  /\ job[q].stream
  /\ q \notin shown
  /\ shown' = shown \cup {q}
  /\ UNCHANGED <<clock, shared, crashes, phase, request, history>>

\* __aexit__ without an exception.
Commit(q) ==
  /\ Leave(q, "saved", "committed")
  /\ job[q].stream => q \in shown
  /\ rounds' = [rounds EXCEPT ![job[q].round] = round_[q]]
  /\ committed' = committed \cup {q}
  /\ rivals' = [rivals EXCEPT ![q] =
       {p \in Req \ {q} : phase[p] \in Holding /\ job[p].round = job[q].round}]
  /\ UNCHANGED <<clock, cache, published, crashes, job, fresh, shown>>

\* The plain endpoint answers after the unit of work has ended.
Respond(q) ==
  /\ Move(q, "committed", "done")
  /\ shown' = shown \cup {q}
  /\ UNCHANGED <<clock, shared, crashes, request, history>>

-----------------------------------------------------------------------------
(* Failures.                                                               *)

\* An exception or a cancellation (a database error, a disconnected stream)
\* leaves the unit of work: rollback, and the row's lock is released.
Abort(q) ==
  /\ \E from \in Active : Leave(q, from, "aborted")
  /\ UNCHANGED <<clock, shared, crashes, job, fresh, shown, history>>

\* The client is gone, or the connection broke, after the commit: the answer
\* is recorded and nobody was told.
LoseResponse(q) ==
  /\ Move(q, "committed", "unanswered")
  /\ UNCHANGED <<clock, shared, crashes, request, shown, history>>

\* The process dies: open transactions are rolled back, answers on their way
\* out are lost, and so is the cache.
Crash ==
  /\ crashes < MaxCrashes
  /\ crashes' = crashes + 1
  /\ cache' = [k \in Key |-> NoGrade]
  /\ phase' = [q \in Req |-> IF phase[q] \in Active THEN "aborted"
                             ELSE IF phase[q] = "committed" THEN "unanswered"
                             ELSE phase[q]]
  /\ round_' = [q \in Req |-> NoRound]
  /\ grade' = [q \in Req |-> NoGrade]
  /\ UNCHANGED <<clock, rounds, published, job, fresh, shown, history>>

-----------------------------------------------------------------------------
\* What the event loop and the services it awaits do for a submission.
Advance(q) ==
  \/ ReadRound(q)
  \/ CacheHit(q)
  \/ CacheMiss(q)
  \/ TermNotFound(q)
  \/ Grade(q)
  \/ JudgeAnswers(q)
  \/ JudgeFails(q)
  \/ CachePut(q)
  \/ Publish(q)
  \/ Record(q)
  \/ RecordRefused(q)
  \/ Save(q)
  \/ EmitGraded(q)
  \/ Commit(q)
  \/ Respond(q)

Next ==
  \/ Tick
  \/ Crash
  \/ \E r \in RoundId : CreateGameRound(r)
  \/ \E q \in Req : Advance(q) \/ Abort(q) \/ LoseResponse(q)
  \/ \E q \in Req, j \in Jobs : Submit(q, j)

Spec == Init /\ [][Next]_vars

\* Every await of a submission returns: the judge has a timeout, the producer
\* and the database answer or fail, a row's lock is held for a commit only.
Fairness == \A q \in Req : WF_vars(Advance(q))

FairSpec == Spec /\ Fairness

-----------------------------------------------------------------------------
(* The web client disables its submit button while a grade is on its way,  *)
(* so one player never has two submissions open on a round.                *)

\* Mutant of Quiet: the button stays enabled.
AlwaysQuiet(r) == TRUE

Quiet(r) == \A q \in Req : phase[q] \in Active \cup {"committed"} => job[q].round # r

SerialNext ==
  \/ Tick
  \/ Crash
  \/ \E r \in RoundId : CreateGameRound(r)
  \/ \E q \in Req : Advance(q) \/ Abort(q) \/ LoseResponse(q)
  \/ \E q \in Req, j \in Jobs : Quiet(j.round) /\ Submit(q, j)

SerialSpec == Init /\ [][SerialNext]_vars

-----------------------------------------------------------------------------
(* Properties.                                                             *)

\* Every committed round is one its mode allows: no more than one Boss answer,
\* no more than the day's terms, no more INCORRECT verdicts than lives, no
\* Sprint answer from after the deadline, whatever overlapped with whatever
\* (GameRound.record, checked on a row that may be stale by the commit).
RoundsLegal == \A r \in RoundId : rounds[r] # NoRound => LegalRound(rounds[r])

\* A submission that was still holding its own snapshot when q committed has
\* since written the row.
Overwritten(q) == rivals[q] \cap committed # {}

Recorded(q) ==
  /\ rounds[job[q].round] # NoRound
  /\ Records(rounds[job[q].round], q)

\* A recorded answer, and any answer a plain submission was told about, is in
\* its round for good unless a submission that overlapped it overwrote the
\* row: the whole-row upsert loses updates to concurrent writers only.
AnswersKept ==
  \A q \in committed \cup {p \in shown : ~job[p].stream} :
    Recorded(q) \/ Overwritten(q)

\* The judge only adjudicates the middle: a deterministic CORRECT or INCORRECT
\* is what gets recorded and cached, by whichever request and mode it came.
TrustedOutcome(k, o) ==
  Evaluate[k].verdict # "PARTIAL" =>
    /\ o.verdict = Evaluate[k].verdict
    /\ o.matched_via = Evaluate[k].matched_via

TrustedVerdicts ==
  /\ \A k \in Key : cache[k] # NoGrade => TrustedOutcome(k, cache[k])
  /\ \A r \in RoundId : rounds[r] # NoRound =>
       \A i \in DOMAIN rounds[r].answers :
         LET a == rounds[r].answers[i] IN TrustedOutcome(job[a.by].key, a)

\* A Sprint or Daily 20 round never pays for, or waits on, the judge: a judged
\* outcome gets into one only through the grade cache.
JudgedOnlyFromCache ==
  \A r \in RoundId : rounds[r] # NoRound /\ rounds[r].mode \in ForcedOff =>
    \A i \in DOMAIN rounds[r].answers :
      LET a == rounds[r].answers[i]
      IN a.matched_via = "LLM_RUBRIC" => ~fresh[a.by]

\* AnswerGraded accounts for fresh grades: none for an answer served from the
\* cache, and none missing for a recorded fresh grade while the broker works.
EventsAccountForGrades ==
  /\ \A q \in published : fresh[q]
  /\ \A q \in committed : fresh[q] /\ ~BrokerMayFail => q \in published

\* Rewriting a row from a stale snapshot never changes what round it is: the
\* mode, the countdown and the day's size it was created with.
Terms(rd) == <<rd.mode, rd.started_at, rd.duration_seconds, rd.daily_size>>
RoundTermsFixed ==
  [][\A r \in RoundId : rounds[r] # NoRound =>
       rounds'[r] # NoRound /\ Terms(rounds'[r]) = Terms(rounds[r])]_rounds

\* Every submission comes to an end: answered, refused, aborted, or recorded
\* with its answer lost on the way out.  Nobody waits for a row forever.
EverySubmissionEnds == \A q \in Req : phase[q] # "idle" ~> phase[q] \in Ended

\* round.py: "a GameRound is the append-only log".
AppendOnly ==
  [][\A r \in RoundId : rounds[r] # NoRound =>
       /\ Len(rounds[r].answers) <= Len(rounds'[r].answers)
       /\ \A i \in DOMAIN rounds[r].answers :
            rounds'[r].answers[i] = rounds[r].answers[i]]_rounds

\* One player at a time per round: the rows are then append-only logs.
Log == INSTANCE RoundLog WITH log <- rounds
LogSpec == Log!Spec
=============================================================================
