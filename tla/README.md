# Term Rush: verification project

TLA+ models of Term Rush (`src/`): a quiz game in which players expand and
explain technical terms, split into four programs that share nothing but calls,
rows and two Kafka topics. TLC checks the models on small instances, TLAPS
proves the theorems listed below for every value of the constants.

## Inventory

| Component | State it keeps | Operations | Talks to |
|---|---|---|---|
| Round aggregate (`game_service/domain/round.py`) | mode, countdown, answer log of one round | `start`, `record`, `is_over`, ... | pure |
| Answer submission (`game_service/application/use_cases.py`, `infrastructure/sql_*.py`, `api/routers/answers.py`) | rows of `game_rounds`, the process-wide grade cache | create round, submit, submit streaming | PostgreSQL, content-service (gRPC), the judge (HTTP), topic `answers.graded` |
| Term cache (`infrastructure/grpc_term_repository.py`, `term_cache_invalidator.py`) | per-process dict of terms with fetch times | `by_id`, `random`, `invalidate` | content-service, topic `terms.published` |
| Kafka consumers (`answer_graded_stats.py`, `term_cache_invalidator.py`, `app.py`) | group offsets, `term_stats` rows, `ConsumerHealth` | consume, supervise, `/ready` | both topics |
| Term bank (`content_service`: `PublishTerm`, term repository, gRPC server) | `terms` and seven child tables | publish, by_id, random, ids | topic `terms.published` |
| Review queue (`content_service`: candidates) | rows of `review_queue` | submit, list, approve, reject | term bank, topic |
| Document chunks (`content_service`) | rows of `document_chunks` with embeddings | ingest, embed, search | embedder |
| Grading and selection (`game_service/domain/graders.py`, `llm_grader.py`, `term.py`, `daily.py`) | none | evaluate, judge, filter, the set of the day | pure |
| Term pipeline (`pipeline_service/assets`, `validate.py`) | materialised assets | extract, enrich, validate, load | review queue, a language model |
| Agentic review (`pipeline_service/agentic_review`) | graph state of one run | retrieve, draft, critique, submit | content-service over HTTP, a language model |
| Web client (`services/web/src`) | React state of one session | load term, submit, next round | game-service over HTTP and SSE |

What is hard here, in one line per component (PROJECT.json `hazards` has them
with their lines):

* *Submission.* A request reads the round first, then waits for content-service,
  the judge and Kafka, and only then writes the whole row back. Anything may
  have happened to the row meanwhile. Cache and topic are outside the
  transaction. The process may die, the client may leave.
* *Term cache.* An invalidation races a reply; the event precedes the commit it
  announces; a replica may never see it; a failing RPC serves what is left.
* *Consumers.* Auto-committed offsets, a timeout that skips, a supervisor
  whose health signal is set by restarting.
* *Term bank and review queue.* READ COMMITTED with unlocked checks; terms are
  read table by table.
* *Document chunks.* Replace by delete and insert, batches that fail as a whole.
* *Grading and selection.* Four graders, three measures and two thresholds that
  must agree; one filter written three times; a fallback that must keep it.
* *Term pipeline.* Sources that name one term differently, steps that fail with
  work done, runs started again, a loop bounded by a counter.
* *Web client.* Replies that are late, double or absent; buttons and a keyboard
  shortcut that do not all respect the same flags; its own count of the round.

## Plan

1. `GameRound`, `AnswerSubmission`, `RoundLog`: the core, with proofs. *Done.*
2. `TermBank`, `ReviewLedger`: publication and review in content-service, with
   the ledger of decisions they implement, and proofs; the race of reviewers as
   a finding. *Done.*
3. `TermDelivery`: the bank's topic, the calls and the cache of a replica over
   `TermBank`; what staleness is bounded by, and that it ends. *Done.*
4. `Consumers`: offsets, timeouts, supervisor, health. *Done.*
5. `Corpus`: ingestion and embedding of document chunks. *Done.*
6. `TermPipeline`: the assets and the agentic graph that feed the review queue;
   runs that fail and are started again. *Done.*
7. `Grading` and, over it and the round, `PlayedRound`: the grading chain, the
   judge's scores, which terms a round shows. *Done.*
8. `WebClient`: the client's round loop over the round aggregate. *Done.*
9. Proofs about the rest: `AnswerSubmission` (events, verdicts, the refinement of
   `RoundLog`), `TermDelivery`, `Consumers`, `Corpus`, `PlayedRound`, `WebClient`. *Done.*
10. Proofs about `TermPipeline`; that requests, submissions, passes and runs wind down
    and never wait in a circle; that the server `WebClient` talks to is a `RoundLog`.
    *Done.*

## Modules

**GameRound** is the round aggregate as operators: `start`, `is_over`,
`CanRecord` (the three exceptions of `GameRound.record`), `record`, and
`LegalRound`, what a round may never outgrow. Scores, term ids and texts are
dropped, no condition reads them; a Daily 20 round keeps the number of its
snapshotted terms. `by` in an answer names the submission that wrote it, so that
properties can speak of it; the code has no such field.

**AnswerSubmission** is one process of game-service with any number of
submissions. A submission is a coroutine, so each action is what it does between
two awaits:

| Code | Action |
|---|---|
| `async with self.uow` / `rounds.by_id` | `Submit`, `ReadRound` |
| `grade_cache.get` | `CacheHit`, `CacheMiss` |
| `terms.by_id` is None | `TermNotFound` |
| `evaluator.evaluate`, the escalation test | `Grade` |
| `_try_llm_grade`, `_stream_and_grade` | `JudgeAnswers`, `JudgeFails` |
| `persist`: cache, then event | `CachePut`, `Publish` |
| `record` and its exceptions | `Record`, `RecordRefused` |
| `rounds.save` (waits for the row's lock) | `Save` |
| graded frame of the stream | `EmitGraded` |
| `__aexit__` | `Commit`, `Abort` |
| response | `Respond`, `LoseResponse` |
| death of the process | `Crash` |

`rounds` holds committed rows only; a submission's uncommitted row is in its
`round_`, and phase `saved` stands for holding the row's lock. A commit whose
acknowledgement is lost is `Commit` followed by `LoseResponse`. `committed` and
`rivals` are history variables: which transactions committed, and who else held
a snapshot of the round at that moment. Nothing else depends on them.
`CreateGameRound` is one step because nobody knows the new id before its commit.

**RoundLog** is the abstract specification: rounds are opened, and answers are
appended one at a time within the mode's limits.

**MCAnswerSubmission** fixes small instances; **AnswerSubmissionProofs** holds
the proofs, **GameRoundProofs** the lemmas about rounds that they share with those
of other modules.

**TermBank** is the writing side of content-service: any number of requests to
publish a term, or to approve or reject a candidate, each with a transaction of
its own at READ COMMITTED. `terms` and `queue` hold committed rows only; what an
open transaction has written or locked follows from its `phase`.

| Code | Action |
|---|---|
| `SubmitReviewCandidate` | `SubmitReviewCandidate` |
| the request arrives | `Open` |
| `candidate.status == PENDING`; 404, 409 | `Check`; `Refuse` |
| `terms.upsert` (takes the term's row lock) | `Upsert` |
| `review_queue.set_status` | `SetStatus` |
| `events.publish`, a `KafkaError` included | `Announce` |
| the flush of the commit (takes the candidate's row lock) | `Flush` |
| `__aexit__` | `Commit`, `Abort` |

Two things the ORM does matter. `set_status` reads the candidate again, since the
session's identity map keeps no row that nobody refers to; and it sends an
UPDATE only if the status differs from what that read found (`changed`). A
version of a term is named by the request that wrote it. `committed` and `rivals`
are history. Death of the process is one `Abort` for each open request.

**ReviewLedger** is the abstract specification of the bank: candidates are queued;
reviewers take them up, while they are pending, and decide or put them back;
approval makes a candidate's content live in the same step; everything else that
is live was published by an author. Reviewers who took a candidate up before its
first decision may overrule each other, as `RejectedLive` shows the code to do;
once a decision is there nobody takes it up any more.

**TermDelivery** extends `TermBank` by its readers: one process of game-service
with its cache, its consumer of `terms.published`, and lookups that may be in
`by_id` at the same time.

| Code | Action |
|---|---|
| `by_id`, fresh entry | `Hit` |
| `by_id`, absent or expired entry: `GetById` is called | `Miss` |
| server: the SELECT of the term, then those of its child tables | `SelectRow`, `SelectChildren` |
| the reply is cached and returned | `Receive` |
| `AioRpcError`: the expired entry is returned | `Fail` |
| the caller is done | `Finish` |
| `consume_term_published`, one event | `Invalidate` |
| time; restart of the process | `Tick`; `Restart` |

A copy of a term has two parts, its row and its children, because the server reads
them at different moments. After a restart the consumer resumes at the offset
its group committed, anywhere up to its position since commits are automatic and
lag, or, when none was ever committed, at the end of the topic (the client
library's default, which nothing overrides). `gone` is a history variable: how
long ago each version was replaced.

**MCTermBank** and **MCTermDelivery** fix small instances; **TermDeliveryProofs** holds
the proofs about both.

**Consumers** is the consumer group that tallies `answers.graded`. A partition has
one member at a time, so members are named by their partitions. A member is the
coroutine of `consume_answer_graded` under `_supervise`, in some process.

| Code | Action |
|---|---|
| the submissions' producer | `Produce` |
| `lifespan` starts the consumer: at the committed offset, or, with none, at the end | `Start` |
| `async for message`, `mark_alive`, parsing the envelope | `Receive` |
| `record`: the upsert, which takes the row's lock | `Record` |
| `session.commit()` | `Commit` |
| `TimeoutError` around both | `GiveUp` |
| any other exception; `_supervise` after its backoff | `Fail`; `Resume` |
| end of `lifespan`, whose `stop()` commits the position | `Shutdown` |
| death of the process, or expulsion from the group | `Crash` |
| time, for the timers and the age of the health signal | `Tick` |

Whoever stops waiting for a commit does not know whether it went through: in
`GiveUp`, `Fail`, `Shutdown` and `Crash` it may have (`CutShort`). Offsets are
committed by the client library in the background, so a crash leaves any
position the member has been at, or none, as `offset`. `tallies` and `missed` are
history: which increments were committed, and which messages met a fault in hand.

**Corpus** is the table of document chunks. An ingestion replaces all chunks of the
documents in its batch; passes of `EmbedDocumentChunks` fill in vectors.

| Code | Action |
|---|---|
| `ingested_chunks` posts a batch | `Post` |
| `delete_by_source_file`: what the DELETE finds; each row it takes | `DeleteBySource`; `DeleteRow` |
| `add_batch`, flushed | `AddBatch`, `UniqueViolation` |
| `__aexit__`, of an ingestion or a pass | `Commit`, `CommitPass`; `Abort`, `FailPass` |
| `unembedded(batch_size)` | `Select` |
| `embed` and `set_embedding` of one chunk | `SetEmbedding` |
| PostgreSQL breaks a circle of waits | `DeadlockVictim` |

A DELETE is several steps because its list of rows is fixed when it starts and it
may then wait for each of them; whoever put in others meanwhile is met by the
INSERT, at the unique constraint. A text is named by the ingestion that brought
it and its place, a vector by the text it was computed from. Every document has a
chunk 0, as `chunk_document` numbers them; the API would take other batches.
`latest` is history: who last committed each document.

**Grading** is how one answer is graded, as operators without state: `normalize`,
`token_similarity`, the four graders of the chain, the scores of a rubric, and
what the judge's reply becomes (`LLMGrade`). A text is a sequence of letters and of
blanks, a blank being anything `normalize` collapses; similarities are fractions
that are compared exactly, where the code compares floats. Two properties of the
code's numbers are assumptions (`RubricWeights`): the expansion share of a PARTIAL is
worth at least a point, and the other three slices together stay below what is
CORRECT without the concept.

**RubricScorer** is the scorer of all four slices without a judge, over the same
texts: content words, overlaps, markers, rounding. Only tests call it, so that no
action runs it; `RubricsOfSample` in `MCPlayedRound` evaluates it on a sample, and a
theorem is about it.

**PlayedRound** is one round as its player goes through it: over `GameRound` and
`Grading`, it has the selection of terms and each step of the chain.

| Code | Action |
|---|---|
| `CreateGameRound`, with the snapshot of the day's terms | `Init` |
| a term goes live in content-service | `Publish` |
| `GetNextTerm`, `GrpcTermRepository.random`, `SQLTermRepository.random` | `Draw` |
| the answer is submitted, to either endpoint | `Submit` |
| one grader of `AnswerEvaluator.evaluate` | `Evaluate` |
| `_try_llm_grade`, `_stream_and_grade` | `Escalate` |
| `record`; the grade is shown; the commit | `Finish`, `Commit`; `Refuse` |

A draw is any member of the set the query may return. `GetRandomRequest` and
`Request` are what the filter becomes on the wire and what the server makes of it:
proto3 has no absent number or flag, so an empty field is no filter. The streaming
endpoint sends the grade before it commits, so `Draw` may come in between: `ahead`,
a history variable, says that it has.

**WebClient** is a session of `App.tsx` with its hooks and the endpoints it calls,
as far as a client sees of them. Handlers are cut at their awaits: what they do
before, and what they do with the reply.

| Code | Action |
|---|---|
| `startRound`, from the start button, the summary or "retry" | `ClickStart`, `PlayAgain`, `Retry` |
| ... its reply; the countdown's effect | `RoundReply`, `RoundFails`; `useSprintCountdown` |
| `loadTerm`, from "next term" or "retry" | `Continue`, `Retry` |
| ... its reply | `TermReply`, `TermFails` |
| the text area | `Type` |
| `submitAnswer`, from the button, Ctrl+Enter or "retry" | `ClickSubmit`, `PressCtrlEnter`, `Retry` |
| `finishGrading`; `onError`, or no data | `Graded`; `Failed` |
| the connection breaks | `Break` |
| `CreateGameRound`; the submission, its frames and its commit | `ServeCreate`; `ServePlain`, `ServeGraded`, `ServeCommit`, `CommitFails`, `ServeError` |

The client shows a Boss round's end after one answer, a number that `App.tsx` has for
itself: `BossIsOneAnswer` assumes that it is the server's. An action of the player is
enabled when its control is on the screen. `wire` holds
the frames of a submission on their way to the client. The reply to `createRound`
sets the round and the server's number of seconds, `serverRemaining`; the effect of
the hook runs after the new round has been rendered, and only if that number is not
the one it last ran for (`armed`), and sets `deadline`. Until then the countdown on
the screen is that of the round before. The number is a float made of the duration and
of the microseconds since the start, so that it is drawn as a pair, duration and
latency, and two rounds may be sent the same one. Effects run before the next tick.
`calm` is history: whether
the player has always waited for what is under way, no stream has broken, no
commit failed after its grade was shown, and no "play again" failed.

**TermPipeline** is the Dagster job: four extractors, the merge with the curated
list and the drafts, validation, and the two steps that submit to the review queue,
one of which runs the agent's graph for each candidate.

| Code | Action |
|---|---|
| the four `*_candidates` assets | `Extract` |
| `enriched_candidates`, one draft at a time | `Enrich` |
| `validated_candidates` | `Validate` |
| `loaded_candidates`: one `submit_for_review` | `Load` |
| the graph's nodes, with the edge that follows | `retrieve`, `write_draft`, `critique`, `submit_review` |
| a submission accepted; refused; without an answer | `Accepted`; `Rejected`; `Unanswered` |
| an asset returns; raises, or its process dies | `Finish`; `Fail` |
| re-execution from failure; a new run | `RelaunchFailed`; `RelaunchAll` |

A repository is given by what each extractor finds in it (`mentions`) and by the
curated list; a merge picks the first of each key of a sequence (`Pick`, `Firsts`).
`repo` is what the steps of a launch find. Each reads its own files, once, when it
runs, so that every launch may find others; but what a step that is not repeated has
read is in its output (`Edited`). `was` is history: what each launch found. The graph's checkpoints are not
modelled because nothing reads them: every candidate is passed to `ainvoke` with a
fresh input, which starts the graph anew.

**MCConsumers**, **MCCorpus**, **MCPlayedRound**, **MCWebClient** and
**MCTermPipeline** fix small instances; **ConsumersProofs**, **CorpusProofs**,
**PlayedRoundProofs**, **WebClientProofs** and **TermPipelineProofs** hold the proofs.

## Runs

| Run | Question | Instance |
|---|---|---|
| `OverlappingSubmissions` | what survives any overlap, a crash and a deadline | 2 submissions, 1 round, 1 crash, 1 tick |
| `SerialSubmissions` | one submission at a time per round: append-only logs, and where judged grades go | 2 submissions, 2 rounds, 1 crash, 1 tick |
| `LostAnswer` | "append-only log" (violated) | 2 submissions, 1 round |
| `OverlappingReviews` | what holds of decisions, events and locks whoever overlaps | 3 requests, 2 candidates, 1 term |
| `RejectedLive` | "It never reaches the live term bank" (violated) | 2 reviewers, 1 candidate |
| `TermDelivery` | how stale an answer may be, and that staleness ends | 2 versions, 2 lookups, 1 failing call, 1 restart |
| `Consumers` | what is counted, what is passed, when health is stale | 2 members, 2 + 1 messages, 1 restart |
| `Corpus` | whose chunks and vectors a document has, and that all requests end | 3 ingestions, 2 documents, 2 passes at a time, 1 fault |
| `PlayedRound` | which terms a round shows and how answers to them are graded | up to 3 terms, 10 answers, 3 judgments, 2 answers a round |
| `WebClient` | no dead ends, and the client's count against the server's | 2 rounds, 2 submissions, 1 tick |
| `ErrorsRecover` | "each error recovers correctly" (violated) | 2 rounds, 2 submissions |
| `TermPipeline` | names, provenance and number of what is submitted; the critique's loop ends | 3 names of 2 terms, 4 repositories, 2 launches |

*Bounds.* Two submissions are enough for every pairwise overlap, and the
constants of the domain are scaled down (one life, one boss answer, one or two
daily terms, two answers at most) so that two submissions reach each mode's
terminal state and the ceiling. In the bank, all candidates and authors meet on
one term, as different terms share no row; three requests give two reviewers of a
candidate and an author, or a third reviewer, between them. In the delivery model
the TTL is two ticks and a call takes at most one, so that an entry can be fresh,
older and expired while a call is on its way; two versions are what it takes to
be stale or torn. In `Consumers` both members meet on one
row, one of them is stopped or crashes once and reads its messages again; all
times are one tick, the least that keeps them apart from zero and in the order
the assumption asks for (5 s and 60 s in the code). In `Corpus` two documents are
posted together or one of them alone with more chunks, so that sets of documents
overlap, shrink and are locked in both orders; three ingestions are one that is
replaced and two that race to replace it (the second may bring either batch, the
others the one of both documents); two passes may overlap, each any number of times;
a batch of the embedder is two of at most four rows. In `PlayedRound` one of
three terms bears a Boss round and one misses it by the length of its definition
only, and each mode comes to its end within two answers; texts are one
to three of five words, so that similarities fall below, between and above the
thresholds, an answer and an alias of which nothing is left, and a profanity. In
`WebClient` the player picks a Boss, Classic or Sprint round, and then a Survival,
Sprint or Daily 20 round; two rounds are what it takes to mix them up, a Sprint
after a Sprint included, two latencies what it takes to send them equal or different
numbers of seconds, two submissions what it takes to overlap. In `TermPipeline` the
sources of a repository disagree about spelling and provenance, repeat themselves,
or have nothing; two launches give a step that failed half-way a second try, over the
same files or edited ones, and two passes of the critic one that loops and one that
may not. One tick moves a Sprint round from open to
expired. One crash is enough to lose the cache and every open transaction. Two
keys: one the deterministic chain is sure of (INCORRECT, so that it costs a
life), one it leaves to the judge. The theorems have none of these bounds.

*What the runs show.* Whatever overlaps, no round ever has more answers, lost
lives or late answers than its mode allows: limits are checked on a snapshot,
but the row written is that snapshot plus one (`RoundsLegal`). The price is that
answers get lost, and only so: an answer that was committed, or acknowledged by
the plain endpoint, is in its round unless a submission that overlapped it has
written the row since (`AnswersKept`). What kind of round it is never changes
(`RoundTermsFixed`). Events account for fresh grades exactly
(`EventsAccountForGrades`): none for cached answers. Every submission ends
(`EverySubmissionEnds`). When a player has one submission at a time, the rows
are append-only logs (`LogSpec`). The judge never overrides a sure verdict
(`TrustedVerdicts`), and a mode that forces it off gets its outcomes through the
cache only (`JudgedOnlyFromCache`).

A reviewer's decision stands unless it was overruled by one who had found the
candidate pending at the same time (`DecisionsStand`); the versions of a term are
announced in the order they go live (`AnnouncedInOrder`), because the row's lock
is held from before the event until the commit; requests never wait for each
other's locks in a circle (`EveryRequestEnds`): all take the term before the
candidate; and the bank is a ledger (`LedgerSpec`). No answer of the cache is
staler than the TTL and one call, whatever becomes of the events, unless the call
failed (`StaleBounded`); once publication stops, every lookup ends up with the
live version, whole (`EventuallyFresh`). Events only make it sooner.

No tally is lost to another member or counted twice by the same incarnation of
a consumer (`CountsAreExact`), and a message that was passed has been counted
unless it was malformed, preceded the group, or met a fault (`PassedAreCounted`):
these are the two ways in which counts may drift. A database that hangs on every
message does not stop the topic (`EveryMessagePassed`), and `/ready`
never blames a member that is at work (`BusyNeverStale`; the invalidator, which it
asks first, may be stale at any time). A document's chunks are at any moment
those of one ingestion, the last one (`FullySuperseded`), with vectors of their own
text (`EmbeddingsMatch`); no order of locks leaves an ingestion waiting for ever
(`EveryIngestionEnds`), and passes clear the backlog (`BacklogCleared`).

A round repeats a term only when it has shown all there is in its scope
(`FreshTerm`), and even then a Boss round keeps to terms that can bear one
(`BossTermsEligible`): the filter on the wire, the query's and the domain's agree. A
Daily 20 round is the set of its day in order (`DailyIsShared`), whatever is
published meanwhile. Both have one exception, a term asked for between the grade
and its commit, see below. What the exact and alias graders accept the fuzzy one
would accept too (`ShortcutsSound`), except an answer and an alias without a single
Latin letter or digit, which are "equal" to the former and nothing to the latter;
scores follow verdicts whoever graded, and a judge that exceeds its scale cannot
make an answer correct that shows nothing of the concept (`ScoresFollowVerdicts`).

Whatever fails, overlaps or comes late, the client's screen offers a control that
works once nothing is under way, unless a stream broke off (`NeverStuck`): then no
callback runs, and the button stays disabled until a reload. Once the effect has run
for the round on the screen its countdown never ends before the server's, a Sprint
after a Sprint included, unless both were sent the same number of seconds; and for a
player who waits for replies the client counts what the server has recorded and
agrees with it on the end of the round (`InSync`).

What the pipeline puts into the queue has the provenance of the most trusted source
that named the term in the files its launch read, also when half of the steps kept
what they had read before; and a term goes by one name, over both ways to the queue
and all launches, as long as the files stay as they are (`MostTrusted`). An edit
between launches may queue it under another. A step that is done has submitted every
validated term or heard it refused, and neither step queues a term twice in one
launch (`EachOnce`); both steps queue it, and both again when launched again. And a critic that is never content does
not keep a run from ending (`EveryRunEnds`).

*Deadlock* is not checked: the sets of submissions and requests are finite and the
system legitimately comes to rest when all of them have ended.
`EverySubmissionEnds`, `EveryRequestEnds` and `EveryIngestionEnds` say that nobody
rests half-way, `NeverStuck` that the client does not; the pipeline rests when its
launches are used up, a round when it is over. In `TermDelivery` and `Consumers` time
goes on for ever.

*Fairness.* `FairSpec` asks for weak fairness of `Advance(q)`, the next step of
each submission's coroutine, and of nothing else: not of time, crashes, aborts
or new requests. The event loop runs every ready coroutine; the judge's calls
have timeouts (`llm_judge.py`), the producer fails after its own, PostgreSQL
grants a row lock when its holder ends. `GetById` has no deadline: that
content-service answers, or its connection breaks, is an assumption.
`FairBankSpec` does the same for the bank's requests. `FairSpec` of
`TermDelivery` asks that time passes and calls are served, and nothing of the
bank, the broker or the consumer, which freshness must not depend on. A call
takes at most `RpcTicks`: the code sets no deadline, so this is an assumption,
and the bound on staleness has it in it. `FairSpec` of `Consumers` asks that time
passes, that processes run and are started again, and that the client library
does not fail for ever with a message at hand (strong fairness of `Receive`: the
supervisor restarts the loop for ever, and a loop that always failed would pass
nothing); it asks nothing of the database. `FairSpec` of `Corpus` asks that passes
go on, which somebody outside must call for, as the docstring of
`EmbedDocumentChunks` says, and that ingestions are not overtaken for ever by
passes that come later (strong fairness: PostgreSQL queues for row locks).
`Spec` of `TermPipeline` asks that some step that runs makes progress: Dagster's
executor keeps its processes going, and the HTTP and Anthropic clients have
timeouts. It does not ask that the critic ever accepts, or that anybody launches
the job again. `PlayedRound` and `WebClient` state no liveness.

*Serial.* `SerialSpec` opens a submission only when no other is open on the same
round. This is a player who waits for each grade, as the disabled button of the web
client has it; Ctrl+Enter (`App.tsx:955`), a reload or a second tab do not, and
`WebClient` has the former.

## Findings

1. **Overlapping submissions lose answers** (`LostAnswer`). Of two submissions
   to one round the later commit erases the earlier one's answer, against
   "append-only log" in `round.py`.
2. **A rejected candidate can be live** (`RejectedLive`): two reviewers both find
   the candidate pending, and the one who commits last writes the status.
3. **A failed "play again" cannot be retried** (`ErrorsRecover`): the client treats
   it as a term that failed to load, and loads one of the round that is over, whose
   answers the server then refuses, against `App.tsx:475`.

Noticed while modelling, and not the subject of a run:

* `AnswerGraded` is published, and the grade cached, before `record` has checked
  that the round takes the answer, and before the commit; `ports.py:126` says
  "events publish on successful commit". `TermPublished` likewise.
* The grade cache is keyed by term and answer, so that a judged outcome of another
  mode is served to a Daily 20 player (`JudgedOnlyFromCache` says that this is the
  only way), against `round.py:47`.
* A `GetById` reply on its way is cached after the event that should have evicted it,
  and stays for the TTL, which `StaleBounded` allows and ADR-0011 does not.
* A consumer of a topic that is quiet for a minute is reported as stale.
* `useSprintCountdown.ts:45` says that "a new round always carries a fresh" value, on
  which the hook relies: for an equal one its effect does not run, and a Sprint after a
  Sprint shows the end of the countdown of the one before at once. The value is the
  duration less the microseconds the server took, so that this is rare. Until the
  effect runs the new round is rendered once with the old countdown in any case.
* The streaming endpoint sends the grade before its commit. A client that asks for
  the next term in between gets it by the old number of answers: a Daily 20 round
  shows a term twice, and its last one never.
* `agentic_review/graph.py:11` says that a crashed run "resumes from its last
  completed node"; the asset passes a fresh input each time, so that it does not.
* `validate.py:1` says that its contracts hold of what reaches load. The agent's
  drafts are submitted without them, and `rubric_scorer.py` and `dag_has_cycle` are
  called by nothing but tests.
* `validate_batch` looks for duplicate terms, of which `enriched_candidates` leaves
  none.
* `load.py:60` says "on a 4xx"; the code raises `ReviewCandidateRejected` on a 5xx as
  well, so that a failing content-service looks like a refusal, and the term is
  skipped.
* When that commit fails nobody tells the client: the exception is none of those
  that `answers.py:119` turns into an error frame, and the grade stays on the screen.
* `definitions.py` still calls the agent "Slice 1 scaffolding only".

## Proofs

The theorems hold for every value of the constants that satisfies the named
assumptions in the modules, and of nothing else: that numbers of the domain are
positive, that inputs have their types, that sentinels are no members of the sets
they stand beside. Those that say more are named below. TLC agrees with every
invariant used on the instance of a run (and with `CopyExtendsRow`, whose `\E` it cannot
enumerate, for the last answer of the copy). A leaf that asks for more time than the
default (`SMTT`, `ZenonT`) is one that may not end in time on a busy machine.

**Rounds** (`GameRoundProofs`). `StartType` and `RecordType` say what `start` and `record`
return; `RecordLegal` is the heart: a legal round that may take an answer is legal
with it. For Survival this needs that one more entry raises the number of INCORRECT
ones by at most one (`IncorrectAppend`, about cardinality).

**Answer submission** (`AnswerSubmissionProofs`).

* `Typing`: `Spec => []TypeOK`. `TypeOK` is inductive: it carries that a
  submission past grading has an outcome and one past `record` a round.
* `RoundsAlwaysLegal`: `Spec => []RoundsLegal`. Not inductive alone, since a
  commit writes a private copy: `CopiesLegal` says that every copy held is
  legal too.
* `AnswersAreKept`: `Spec => []AnswersKept`. `KeptInv` adds what the copies
  contain: whoever holds a copy of a round has each committed answer in it, or
  was a rival when that answer was committed, or a rival has overwritten it
  already. Most actions leave rows, history and copies alone (`Undisturbed`);
  `ReadKept`, `RecordKept` and `CommitKept` are the three that do not.
* `EventsAccount`: `Spec => []EventsAccountForGrades`. `EventInv` follows a grade
  through the phases: nobody counts as having graded before it has, whoever passes
  through `persist` has, and whoever is past it with a grade of its own has sent the
  event, if the broker works.
* `TermsAreFixed`: `Spec => RoundTermsFixed`. `SameTerms`: every copy held has mode,
  clock and daily size of the committed row, so that no commit can change them.
* `VerdictsAreTrusted`, `ForcedOffIsNeverJudged`: `Spec => []TrustedVerdicts` and
  `Spec => []JudgedOnlyFromCache`. `TrustInv` says the same of all the places a grade
  passes: the cache, the grade in hand, the copies, the rows; and that whoever
  waits for the judge was unsure.
* `SerialIsLog`: `SerialSpec => LogSpec`. `LogInv`: one submission at a time is open on
  a round (`Alone`), what it has read is still the row (`CopyIsRow`), and what it has
  recorded is that row with one legal answer more (`CopyExtendsRow`). Then its
  commit is one step of `RoundLog`, and all else but new rounds is a stutter.
* `SerialIsAppendOnly`: `SerialSpec => AppendOnly`, the property that `LostAnswer` finds
  violated: overlap is what it takes, and faults and crashes alone do not. It follows
  from `SerialIsLog`.
* `SubmissionsWindDown`: `Spec` implies `[]SomebodyCanGo` and `[][OnlyForward]_vars`. Each
  step moves a submission forward among finitely many places (`Place`), and while any
  is under way some submission need not wait: a row's lock is held by one that is past
  `saving`, which waits for nobody.

**Term bank** (`TermDeliveryProofs`).

* `BankTyping`: `BankSpec => []BankTypeOK`.
* `DecisionsAlwaysStand`: `BankSpec => []DecisionsStand`. `DecisionInv` says what
  that rests on. Past a decision, whoever is still past his check is a rival
  (`OthersAreRivals`), and any two who committed decisions on a candidate
  overlapped (`AllOverlapped`); and whoever left the status as it was found it
  decided (`UnchangedIsDecided`). Steps that touch none of this are dealt with
  once (`UndisturbedKeeps`).
* `AlwaysAnnouncedInOrder`: `BankSpec => []AnnouncedInOrder`. `OrderInv`: a term's
  row has one holder at a time (`HoldersApart`), an event is of a request that has
  sent it and of its term (`EventsAreOfSenders`), and the holder's event comes after
  those of all versions committed (`HolderIsLast`).
* `BankIsLedger`: `BankSpec => LedgerSpec`, so that only reviewers who found a candidate
  pending decide about it, and content goes live exactly with its approval. What is
  live was written by a request that has committed, so its meaning is fixed
  (`WrittenByCommitted`). A check that finds a candidate pending takes it up, a commit
  decides, a rollback puts it back, and all else is a stutter, except for new
  candidates. That some reviewer's own update was left out, as it would change nothing,
  is where `DecisionInv` is needed: then there is a decision already.
* `RequestsWindDown`: `BankSpec` implies `[]SomebodyCanGo` and `[][OnlyForward]_bank`. Here
  a request may hold one lock and wait for another. An approval takes the
  term's row before the candidate's, so that the request that has come furthest need
  not wait (`FurthestCanGo`); `PhasesFit` says that none is where its kind has no next step.

**Term delivery** (`TermDeliveryProofs`, over the bank's `DecisionInv`).

* `DeliveryTyping`: `Spec => []TypeOK`.
* `AnswersNeverStaler`: `Spec => StaleBounded`. `DeliveryInv` carries the bound from hand
  to hand: a version's clock starts when it is replaced (`GoneAreReplaced`); a part of
  a reply was live when it was selected, so it has been gone for no longer than the
  call has taken since (`RepliesRecent`); the parts of an entry that is fresh, for no
  longer than its age and one call (`EntriesAged`). Events appear nowhere in the argument.

**Consumers** (`ConsumersProofs`).

* `ConsumersTyping`: `Spec => []TypeOK`.
* `BusyConsumersReady`: `Spec => []BusyNeverStale`. The health signal is no older
  than the time the message has been in hand, and that is no longer than the timeout
  (`InHandTimed`); this is where `MessageTimeout <= MaxAge` is needed (5 s and 60 s
  in the code). What `/ready` says first, of the invalidator, is any Boolean.
* `NothingPassedOver`: `Spec => []PassedAreCounted`. It is inductive with `TypeOK`,
  one message at a time (`Accounted`): tallied, in hand, malformed, or met by a
  fault.
* `CountersExact`: `Spec => []CountsAreExact`. `TallyInv`: a row has one open
  transaction at a time (`RowsHeld`), so what that has written is still the row plus
  one (`PendingIsNext`); and what an incarnation has tallied is behind its position,
  so that it tallies nothing twice (`TalliedGiven`). The count is a cardinality, so
  tallies must be finite.

**Document chunks** (`CorpusProofs`).

* `CorpusTyping`, `DocumentsSuperseded`, `VectorsAreOwn`: `Spec` implies `[]TypeOK`,
  `[]FullySuperseded` and `[]EmbeddingsMatch`, all from `ChunkInv`. The question is what
  a DELETE may miss, since it looks for rows once. Rows of a document come and go
  together and ids are never given out twice, so whoever has seen one of the rows a
  document has now has seen them all (`SeenTogether`, `AllSeen`); and whoever inserts
  has deleted chunk 0 of each of its documents, if there was one, since the unique
  constraint lets nobody else have it (`RivalsApart`). `VectorsOfText`: a row's vector,
  and one computed and not yet written, is of the text the row had and, as its id
  is never reused, still has.
* `PassesWaitInOrder`: `Spec => []PassesNeverInCircle`. `PassesInOrder`: a pass has written
  lower ids than those it has still to write, so that who waits, waits for somebody
  who holds a higher id than all it holds itself. A circle that PostgreSQL has to break
  goes through an ingestion.

**Played rounds** (`PlayedRoundProofs`). The first half of the module is about the
operators: the results of `normalize`, of similarities as greatest fractions of a
finite set, of each grader and of the judge's reply. `ScoresFitRubric` says the same
of `RubricScorer`: its slices fit `RubricBreakdown` for every answer.

* `PlayedRoundTyping`: `Spec => []TypeOK`, with `InFlight`: what each stage has in hand,
  that a chain in progress has graders left (the last one always answers), and that
  nothing fills up the round between a grade shown and its commit.
* `ScoresAlwaysFollow`, `ShortcutsAlwaysSound`: `Spec => []ScoresFollowVerdicts` and
  `Spec => []ShortcutsSound`. `GradeInv` says both of the outcome in hand and of every
  one recorded; the work is in the lemmas about the graders. The former needs
  `RubricWeights`.
* `BossAlwaysEligible`: `Spec => []BossTermsEligible`. Whatever draw, fallback and wire do
  to the filter, what comes back satisfies it. This needs `NoFilter`, that the absent
  filter is not the eligible one.
* `DailyAlwaysShared`: `Spec => []DailyIsShared`. `Walks`: unless a term was asked for
  ahead of a commit, the terms recorded are a prefix of the snapshot and the one on
  the screen is next.
* `TermsComeFresh`: `Spec => FreshTerm`, an action property.

**Web client** (`WebClientProofs`). The invariant has five parts, and each theorem is a
consequence of it: `WebClientTyping`, `NeverAtADeadEnd`, `ClientStaysInSync`, which
say `Spec => []TypeOK`, `[]NeverStuck` and `[]InSync`, and `ServerIsLog`.

* `ClientInv` says of each submission (`PostWell`), each call of `createRound`
  (`CreateWell`), the session (`SessionWell`) and the rows (`RowAnswered`) what they are
  on their own: which frame can be on the wire of a submission in which state; that
  nothing is submitted to a round before its id has arrived; that mode and number of
  terms of the session are those of its round.
* `TimerInv` is about the countdown: the session's number is the one its round was
  sent (`CallTimed` says what each was), and the one the effect last ran for was sent
  to some round that was on the screen. So a reply whose number is already armed is
  one that was sent twice; else the effect runs first, at a time when the round has
  begun, and sets a deadline that is no earlier than the server's.
* `ScreenInv` says what is owed to a form that is disabled, or to a screen without a
  term: a reply on its way, an error with its "retry", or a stream that broke off.
  Once nothing is under way only the last is left.
* `CalmInv` is about a player who waits: at most one call is under way, and the
  client's count is level with the log, one ahead (the grade is shown, its commit is
  to come) or one behind (committed, the frame still on the wire). The end of the
  round is then the same on both sides, for which Boss rounds need `BossIsOneAnswer`.
* `LogInv` is about the server: a row is a legal round, of the call that made it, and a
  grade sent ahead of its commit still fits into its row, since submissions take
  turns. So `ServerIsLog`, `Spec => Log!Spec`: the server this client is checked against
  implements `RoundLog`, as the one of `AnswerSubmission` does under `SerialSpec`. Times
  of answers are all 0 in this model, so that of deadlines it says nothing.

**Term pipeline** (`TermPipelineProofs`). Half of the module is about the merges, without
induction over sequences: `Pick` numbers the kept indices by rank, so that what it returns
follows from cardinalities (`PickType`, `PickOrder`), and `Firsts` keeps one of each key, the
first (`FirstsOf`). From these, the term of a repository is named and sourced as its
most trusted mention has it (`FirstsAreBest`, `ToDraftIsBest`, `ChosenBest`).

* `PipelineTyping`, `AlwaysMostTrusted`, `AlwaysEachOnce`: `Spec` implies `[]TypeOK`,
  `[]MostTrusted` and `[]EachOnce`, all from `PipelineInv`. Whatever is validated was
  chosen by the merge (`AllChosen`), and whatever is queued by that of its launch
  (`AllSourced`); a repeated curated term stops a run before that (`CuratedOnce`); a
  step that has begun has its inputs (`InputsDone`), so that a launch "from failure"
  which keeps the merge keeps all it read. For `EachOnce`: what a submitter is done with
  is what is in the queue or was refused (`Accounted`), and what is in the queue is
  behind its submitter, at most one ahead when the answer was lost (`QueueOK`).
* `RunsWindDown`: `Spec` implies `[]WorkIsCounted` and `WindsDown`. Four numbers, in order of
  weight: steps that wait, drafts to merge, candidates to submit, nodes of the graph
  to run. Whatever a run does lowers them; only a launch raises them. The bound on the
  critic's loop is the last of them.

*Model-checked only.* The liveness properties (`EverySubmissionEnds`, `EveryRequestEnds`,
`EventuallyFresh`, `EveryMessagePassed`, `EveryIngestionEnds`, `BacklogCleared`,
`EveryRunEnds`): liveness under fairness is out of the prover's reach. The safety half of
those of submissions, of the bank's requests and of the pipeline's runs is proved: steps
that lead only forward, and no circle of waits. `ENABLED` is out of reach as well, so the
guards of `Advance` are written out in `CanAdvance`. And what the operators of `Grading` and
`RubricScorer` compute from a text, beyond its type and the bounds above. All
invariants and action properties of the passing runs have a theorem.

## Not modelled

API schemas, GraphQL, configuration and logging are not modelled: they check the
shape of payloads, project rows, and choose words. In the core: the in-memory unit
of work used without `DATABASE_URL`, read-only queries, the leaderboard, the size of
the connection pool, and the contents of answers, which a grade depends on through
`Evaluate` only (`PlayedRound` has them). In the bank: the listings, the review's
provenance fields, and the contents of terms. Of the consumers: the statistics
computed from the tallies. Of grading: confidences, feedback, the prompts and the
streamed rationale. Of the pipeline: how names are recognised in a file, OCR, the
text of drafts and queries, and `dag_has_cycle`. Of the client: speech recognition,
whose late results fill in the next answer, the settings, the session screen query
and the leaderboard; answers lost to an overlapping submission are
`AnswerSubmission`'s subject, and submissions take turns there. Of the corpus:
search and listing, which read one statement's snapshot. An INSERT of several rows
is one step, so that transactions never hold some keys of a batch while they wait
for the others; and a document that has become empty is never posted, so that its
old chunks stay, which no part of the code promises otherwise.
