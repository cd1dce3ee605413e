------------------------------ MODULE WebClient ------------------------------
(***************************************************************************)
(* One session of the web client (services/web/src/App.tsx and its hooks)  *)
(* with the endpoints of game-service it calls: starting rounds, loading   *)
(* terms, submitting answers by a plain POST or an event stream, and what  *)
(* its screen offers when calls fail, are lost or overlap.                 *)
(*                                                                         *)
(* The server is AnswerSubmission cut down to what a client sees of it:    *)
(* submissions to one round take turns, so the answer that one of two      *)
(* overlapping ones may lose is not lost here.  The texts of answers and   *)
(* feedback are left out, and so is the generated HTTP client, which has   *)
(* no data to return when a call fails.                                    *)
(***************************************************************************)
EXTENDS GameRound

CONSTANTS
  ROUND_LENGTH,   \* answers of a Classic round, which only the client counts
  Picked,         \* the modes the player may pick for each round asked for
  Verdicts,       \* the verdicts the server may give
  Latencies,      \* what the server may take to answer, far below a tick
  MaxRounds,      \* bound on rounds asked for
  MaxTime,        \* bound on the clock
  NoRound, NoReq, Null

\* remaining_seconds of a new Sprint round: its duration less what the server took,
\* to a microsecond.
Remaining == [duration : SprintDurations, latency : Latencies]

ASSUME ClientConstants ==
  /\ ROUND_LENGTH \in Nat \ {0}
  /\ Picked \in [1..MaxRounds -> SUBSET RoundMode]
  /\ Verdicts \subseteq Verdict
  /\ MaxRounds \in Nat
  /\ MaxTime \in Nat
  /\ NoRound \notin Round
  /\ NoReq \notin Req
  /\ Null \notin Nat /\ Null \notin Remaining

\* App.tsx has it written out that a Boss round is one answer.
ASSUME BossIsOneAnswer == BOSS_ROUND_SIZE = 1

RoundIds == 1..MaxRounds

\* A call of createRound and one of submitAnswer.  A term is named by the round
\* it was drawn for, which the client does not know; wire has the frames on
\* their way to the client.
Create == [state : {"idle", "sent", "made", "ended"},
           mode : RoundMode \cup {Null}, remaining : Remaining \cup {Null}]
Post   == [state : {"idle", "sent", "shown", "ended"}, round : {0} \cup RoundIds,
           term : {0} \cup RoundIds, stream : BOOLEAN, broken : BOOLEAN,
           verdict : Verdict \cup {Null}, wire : Seq({"graded", "error"})]

VARIABLES
  clock,
  rounds,           \* committed rows of game_rounds
  creates,          \* the calls of createRound; call n mints round n
  loads,            \* the rounds a call of loadTerm is under way for
  posts,            \* the submissions
  roundId,          \* 0 until the first round
  roundMode,
  serverRemaining,
  dailyTermCount,
  armed,            \* the value the countdown's effect last ran for
  deadline,         \* its deadlineRef
  term,
  answer,           \* whether there is anything but blanks in the text area
  result,           \* the submission whose grade is shown
  answers,          \* the submissions graded so far, in the order they came
  loading,
  error,            \* the retryAction of the error shown
  calm              \* history: none of the things that set it FALSE below

server  == <<rounds, creates>>
session == <<roundId, roundMode, serverRemaining, dailyTermCount>>
timer   == <<armed, deadline>>
screen  == <<term, answer, result, answers, loading, error>>
vars    == <<clock, server, loads, posts, session, timer, screen, calm>>

TypeOK ==
  /\ clock \in 0..MaxTime
  /\ rounds \in [RoundIds -> Round \cup {NoRound}]
  /\ creates \in [RoundIds -> Create]
  /\ loads \subseteq RoundIds
  /\ posts \in [Req -> Post]
  /\ roundId \in {0} \cup RoundIds
  /\ roundMode \in RoundMode
  /\ {serverRemaining, armed} \subseteq Remaining \cup {Null}
  /\ deadline \in Nat \cup {Null}
  /\ dailyTermCount \in Nat \cup {Null}
  /\ term \in {0} \cup RoundIds
  /\ answer \in BOOLEAN
  /\ result \in Req \cup {NoReq}
  /\ answers \in Seq(Req)
  /\ \A i, j \in DOMAIN answers : answers[i] = answers[j] => i = j
  /\ loading \in BOOLEAN
  /\ error \in {"none", "load", "submit"}
  /\ calm \in BOOLEAN

Init ==
  /\ clock = 0
  /\ rounds = [r \in RoundIds |-> NoRound]
  /\ creates = [r \in RoundIds |-> [state |-> "idle", mode |-> Null,
                                    remaining |-> Null]]
  /\ loads = {}
  /\ posts = [q \in Req |-> [state |-> "idle", round |-> 0, term |-> 0,
                             stream |-> FALSE, broken |-> FALSE,
                             verdict |-> Null, wire |-> << >>]]
  /\ roundId = 0 /\ roundMode = "CLASSIC"
  /\ serverRemaining = Null /\ dailyTermCount = Null
  /\ armed = Null /\ deadline = Null
  /\ term = 0 /\ answer = FALSE /\ result = NoReq /\ answers = << >>
  /\ loading = FALSE /\ error = "none"
  /\ calm = TRUE

-----------------------------------------------------------------------------
(* What is on the screen.                                                  *)

Started == roundId # 0

Lost == {i \in DOMAIN answers : posts[answers[i]].verdict = "INCORRECT"}

\* ROUND_END: the client's own count, in each mode.
roundComplete ==
  CASE roundMode = "CLASSIC"  -> Len(answers) >= ROUND_LENGTH
    [] roundMode = "SPRINT"   -> deadline # Null /\ clock >= deadline
    [] roundMode = "SURVIVAL" -> Cardinality(Lost) >= SURVIVAL_LIVES
    [] roundMode = "BOSS"     -> Len(answers) >= 1
    [] roundMode = "DAILY_20" -> dailyTermCount # Null /\ Len(answers) >= dailyTermCount

StartButton == ~Started
RetryPanel  == error # "none"
ResultPanel == result # NoReq
Summary     == roundComplete /\ result = NoReq
Form        == term # 0 /\ result = NoReq /\ ~roundComplete

\* The submit button.
Enabled == Form /\ ~loading /\ answer

\* Still waiting for a submission, as far as server and network go.
Active(q) == posts[q].state \in {"sent", "shown"} \/ posts[q].wire # << >>

\* No call is under way.
AtRest ==
  /\ \A n \in RoundIds : creates[n].state \notin {"sent", "made"}
  /\ loads = {}
  /\ \A q \in Req : ~Active(q)

-----------------------------------------------------------------------------
(* What the player does.                                                   *)

\* loadTerm up to its await.  The old term stays on the screen.
loadTerm(r) ==
  /\ loads' = loads \cup {r}
  /\ error' = "none" /\ answer' = FALSE /\ result' = NoReq
  /\ UNCHANGED <<term, loading>>

\* startRound up to its await.
startRound ==
  /\ \E n \in RoundIds : \E m \in Picked[n] :
       /\ creates[n].state = "idle"
       /\ \A k \in RoundIds : k < n => creates[k].state # "idle"
       /\ creates' = [creates EXCEPT ![n] =
            [state |-> "sent", mode |-> m, remaining |-> Null]]
  /\ error' = "none"
  /\ calm' = (calm /\ AtRest)
  /\ UNCHANGED <<clock, rounds, loads, posts, session, timer, term, answer, result,
                 loading>>

\* The button stays until the round is there; nothing stops a second click.
ClickStart == StartButton /\ startRound /\ UNCHANGED answers

\* startNewRound, from the summary.
PlayAgain == Summary /\ answers' = << >> /\ startRound

\* The result's button: "see results" or "next term".
Continue ==
  /\ ResultPanel
  /\ IF roundComplete
     THEN result' = NoReq /\ UNCHANGED <<loads, term, answer, loading, error>>
     ELSE loadTerm(roundId)
  /\ UNCHANGED <<clock, server, posts, session, timer, answers, calm>>

Type ==
  /\ Form
  /\ answer' = TRUE
  /\ UNCHANGED <<clock, server, loads, posts, session, timer, term, result, answers,
                 loading, error, calm>>

\* submitAnswer up to its await.  loading is not among its conditions.
submitAnswer ==
  /\ term # 0 /\ answer /\ Started /\ ~roundComplete
  /\ \E q \in Req, llm \in BOOLEAN :
       /\ posts[q].state = "idle"
       /\ roundMode = "BOSS" => llm
       /\ posts' = [posts EXCEPT ![q] =
            [@ EXCEPT !.state = "sent", !.round = roundId, !.term = term,
                      !.stream = llm]]
  /\ loading' = TRUE /\ error' = "none"
  /\ calm' = (calm /\ AtRest)
  /\ UNCHANGED <<clock, server, loads, session, timer, term, answer, result, answers>>

\* The button respects loading, Ctrl+Enter in the text area does not.
ClickSubmit == Enabled /\ submitAnswer
PressCtrlEnter == Form /\ submitAnswer

Retry ==
  /\ RetryPanel
  /\ \/ error = "submit" /\ submitAnswer
     \/ /\ error = "load" /\ Started
        /\ loadTerm(roundId)
        /\ UNCHANGED <<clock, server, posts, session, timer, answers, calm>>
     \/ error = "load" /\ ~Started /\ startRound /\ UNCHANGED answers

Player ==
  \/ ClickStart \/ PlayAgain \/ Continue \/ Type
  \/ ClickSubmit \/ PressCtrlEnter \/ Retry

-----------------------------------------------------------------------------
(* What the server does.                                                   *)

\* Effects run within milliseconds, well before the next tick.
Tick ==
  /\ clock < MaxTime
  /\ armed = serverRemaining
  /\ \E r \in RoundIds : rounds[r] # NoRound /\ rounds[r].mode = "SPRINT"
  /\ clock' = clock + 1
  /\ UNCHANGED <<server, loads, posts, session, timer, screen, calm>>

\* CreateGameRound.execute and from_round.
ServeCreate(n) ==
  /\ creates[n].state = "sent"
  /\ \E d \in SprintDurations, l \in Latencies, size \in 1..DAILY_20_ROUND_SIZE :
       /\ rounds' = [rounds EXCEPT ![n] =
                       start(creates[n].mode, clock, d, size)]
       /\ creates' = [creates EXCEPT ![n].state = "made", ![n].remaining =
                        IF creates[n].mode = "SPRINT"
                        THEN [duration |-> d, latency |-> l] ELSE Null]
  /\ UNCHANGED <<clock, loads, posts, session, timer, screen, calm>>

\* A frame, or a response, for a client that may no longer be there.
Send(q, frame) ==
  IF posts[q].broken THEN posts[q].wire ELSE Append(posts[q].wire, frame)

RowLocked(r) == \E p \in Req : posts[p].state = "shown" /\ posts[p].round = r
Recorded(q, v) ==
  [rounds EXCEPT ![posts[q].round] = record(@,
     [by |-> q, verdict |-> v, matched_via |-> "DETERMINISTIC", submitted_at |-> 0])]

\* A submission is graded and its answer can be recorded.  Only a Survival
\* round counts verdicts; elsewhere one of them stands for all.
Gradable(q, v) ==
  /\ posts[q].state = "sent"
  /\ rounds[posts[q].round].mode = "SURVIVAL" \/ v = "CORRECT"
  /\ ~RowLocked(posts[q].round)
  /\ CanRecord(rounds[posts[q].round], clock)

\* The plain endpoint commits and answers.
ServePlain(q, v) ==
  /\ Gradable(q, v) /\ ~posts[q].stream
  /\ rounds' = Recorded(q, v)
  /\ posts' = [posts EXCEPT ![q] =
       [@ EXCEPT !.state = "ended", !.term = 0, !.verdict = v, !.wire = Send(q, "graded")]]
  /\ UNCHANGED <<clock, creates, loads, session, timer, screen, calm>>

\* The streaming endpoint sends the grade, and then commits.
ServeGraded(q, v) ==
  /\ Gradable(q, v) /\ posts[q].stream
  /\ posts' = [posts EXCEPT ![q] =
       [@ EXCEPT !.state = "shown", !.verdict = v, !.wire = Send(q, "graded")]]
  /\ UNCHANGED <<clock, server, loads, session, timer, screen, calm>>

ServeCommit(q) ==
  /\ posts[q].state = "shown"
  /\ rounds' = Recorded(q, posts[q].verdict)
  /\ posts' = [posts EXCEPT ![q].state = "ended", ![q].term = 0]
  /\ UNCHANGED <<clock, creates, loads, session, timer, screen, calm>>

\* A refusal of the round or, on the plain endpoint, any other failure.  On the
\* streaming one what is no refusal breaks the stream: Break, below.
ServeError(q) ==
  /\ posts[q].state = "sent"
  /\ posts' = [posts EXCEPT ![q] =
       [@ EXCEPT !.state = "ended", !.term = 0, !.wire = Send(q, "error")]]
  /\ UNCHANGED <<clock, server, loads, session, timer, screen, calm>>

\* The commit fails when the grade was sent.  What it raises is none of the
\* exceptions that become an error frame, so nobody tells the client.
CommitFails(q) ==
  /\ posts[q].state = "shown"
  /\ posts' = [posts EXCEPT ![q].state = "ended", ![q].term = 0]
  /\ calm' = FALSE
  /\ UNCHANGED <<clock, server, loads, session, timer, screen>>

Server ==
  \/ \E n \in RoundIds : ServeCreate(n)
  \/ \E q \in Req : ServeCommit(q) \/ CommitFails(q) \/ ServeError(q)
  \/ \E q \in Req, v \in Verdicts : ServePlain(q, v) \/ ServeGraded(q, v)

-----------------------------------------------------------------------------
(* What comes back.                                                        *)

\* The rest of startRound.  React renders the new state before the countdown's
\* effect runs, with what is left of the last round's countdown.
RoundReply(n) ==
  /\ creates[n].state = "made"
  /\ creates' = [creates EXCEPT ![n].state = "ended"]
  /\ roundId' = n /\ roundMode' = creates[n].mode
  /\ serverRemaining' = creates[n].remaining
  /\ dailyTermCount' = IF creates[n].mode = "DAILY_20"
                       THEN rounds[n].daily_size - Len(rounds[n].answers) ELSE Null
  /\ loadTerm(n)
  /\ UNCHANGED <<clock, rounds, posts, timer, answers, calm>>

\* Mutant of useSprintCountdown: a deadline that is there is kept.
useSprintCountdownOnce ==
  /\ armed # serverRemaining
  /\ armed' = serverRemaining
  /\ deadline' = IF serverRemaining = Null \/ deadline # Null THEN deadline
                 ELSE clock + serverRemaining.duration
  /\ UNCHANGED <<clock, server, loads, posts, session, screen, calm>>

\* The countdown's effect, which runs for a value that is not the last one.
useSprintCountdown ==
  /\ armed # serverRemaining
  /\ armed' = serverRemaining
  /\ deadline' = IF serverRemaining = Null THEN Null
                 ELSE clock + serverRemaining.duration
  /\ UNCHANGED <<clock, server, loads, posts, session, screen, calm>>

\* createRound has no data: the server failed, or its answer got lost.
RoundFails(n) ==
  /\ creates[n].state \in {"sent", "made"}
  /\ creates' = [creates EXCEPT ![n].state = "ended"]
  /\ error' = "load"
  /\ calm' = (calm /\ ~Started)
  /\ UNCHANGED <<clock, rounds, loads, posts, session, timer,
                 term, answer, result, answers, loading>>

\* The rest of loadTerm.  A Daily 20 round has no term beyond its last.
TermReply(r) ==
  /\ r \in loads
  /\ rounds[r].mode = "DAILY_20" => Len(rounds[r].answers) < rounds[r].daily_size
  /\ loads' = loads \ {r}
  /\ term' = r
  /\ UNCHANGED <<clock, server, posts, session, timer, answer, result, answers,
                 loading, error, calm>>

\* Mutant of TermFails: no data, no term, no word.
TermFailsSilently(r) ==
  /\ r \in loads
  /\ loads' = loads \ {r}
  /\ UNCHANGED <<clock, server, posts, session, timer, screen, calm>>

TermFails(r) ==
  /\ r \in loads
  /\ loads' = loads \ {r}
  /\ error' = "load"
  /\ UNCHANGED <<clock, server, posts, session, timer, term, answer, result, answers,
                 loading, calm>>

\* Mutant of Takes: a frame is handled, and stays in the buffer.
TakesNothing(q, frame) ==
  posts[q].wire # << >> /\ Head(posts[q].wire) = frame /\ UNCHANGED posts

Takes(q, frame) ==
  /\ posts[q].wire # << >> /\ Head(posts[q].wire) = frame
  /\ posts' = [posts EXCEPT ![q].wire = Tail(@)]

\* onGraded, or the plain response: finishGrading.
Graded(q) ==
  /\ Takes(q, "graded")
  /\ loading' = FALSE /\ result' = q /\ answers' = Append(answers, q)
  /\ UNCHANGED <<clock, server, loads, session, timer, term, answer, error, calm>>

\* onError, or a response without data.
Failed(q) ==
  /\ Takes(q, "error")
  /\ loading' = FALSE /\ error' = "submit"
  /\ UNCHANGED <<clock, server, loads, session, timer, term, answer, result, answers,
                 calm>>

\* The connection breaks.  The plain call returns without data; the stream
\* reader ends or throws, and no callback hears of it.
Break(q) ==
  /\ Active(q) /\ ~posts[q].broken
  /\ posts' = [posts EXCEPT ![q].broken = TRUE,
       ![q].wire = IF posts[q].stream THEN << >> ELSE <<"error">>]
  /\ calm' = FALSE
  /\ UNCHANGED <<clock, server, loads, session, timer, screen>>

Network ==
  \/ \E n \in RoundIds : RoundReply(n) \/ RoundFails(n) \/ TermReply(n) \/ TermFails(n)
  \/ \E q \in Req : Graded(q) \/ Failed(q) \/ Break(q)

-----------------------------------------------------------------------------
Next == Player \/ Tick \/ Server \/ Network \/ useSprintCountdown

Spec == Init /\ [][Next]_vars

-----------------------------------------------------------------------------
(* Properties.                                                             *)

CutOff == \E q \in Req : posts[q].stream /\ posts[q].broken

\* The retry button does something: after a failed submission, only while
\* there is an answer left to submit.
RetryWorks ==
  error = "load" \/ (error = "submit" /\ Started /\ term # 0 /\ answer /\ ~roundComplete)

\* Whatever failed, overlapped or came late, once nothing is under way the
\* form is not disabled and the screen offers a control that works, unless a
\* stream broke off: no path through the handlers of App.tsx is a dead end.
NeverStuck ==
  AtRest /\ ~CutOff =>
    ~loading /\ (StartButton \/ RetryWorks \/ ResultPanel \/ Summary \/ Form)

\* Another round was sent the same number of seconds, to a microsecond.
SentTwice ==
  \E n \in RoundIds \ {roundId} : creates[n].remaining = serverRemaining

\* Once the effect has run for the round on the screen, the countdown never ends
\* before the server's: no Sprint is cut short by the deadline of the one before, in
\* whatever order rounds are asked for, answered and shown.  Until then, and after
\* two rounds with the same value, it may ("a new round always carries a fresh one",
\* useSprintCountdown.ts).
CountdownCoversRound ==
  roundMode = "SPRINT" /\ armed = serverRemaining /\ ~SentTwice =>
    /\ deadline # Null
    /\ deadline >= rounds[roundId].started_at + rounds[roundId].duration_seconds

\* What the client counts is what the server recorded, and they agree on
\* whether the round is over, for a player who waits for every reply and
\* whose connection holds (ROUND_END against GameRound.is_over).  Whatever
\* the player does, a Sprint whose countdown is armed does not end early on the
\* screen (useSprintCountdown).
InSync ==
  /\ CountdownCoversRound
  /\ calm /\ AtRest /\ Started =>
       LET rd == rounds[roundId] IN
         /\ answers = [i \in DOMAIN rd.answers |-> rd.answers[i].by]
         /\ roundMode \in {"SURVIVAL", "BOSS", "DAILY_20"} =>
              (roundComplete <=> is_over(rd, clock))

\* App.tsx: "each error recovers correctly instead of both falling back to a
\* reload" -- what "retry" would load a term for takes answers, or is shown as
\* complete, whenever every submission got its reply.
ErrorsRecover ==
  /\ AtRest /\ error = "load" /\ Started /\ roundMode # "SPRINT"
  /\ \A q \in Req : ~posts[q].broken
  => roundComplete \/ CanRecord(rounds[roundId], clock)
=============================================================================
