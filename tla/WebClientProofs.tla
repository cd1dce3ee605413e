-------------------------- MODULE WebClientProofs --------------------------
(***************************************************************************)
(* Proofs about WebClient, for any number of rounds, submissions and terms *)
(* of the session, and every value of the game's constants: the screen is  *)
(* never a dead end, a player who waits sees what the server counts, and   *)
(* the rows of the server are the logs that RoundLog describes.            *)
(*                                                                         *)
(* The invariant has five parts.  ClientInv says of each submission, each  *)
(* call of createRound, the session and the rows what they are on their    *)
(* own; TimerInv, which round the countdown is armed for; ScreenInv, what  *)
(* is still owed to a disabled form or an empty screen; CalmInv, that a    *)
(* calm player has one thing under way at a time, and how far the client's *)
(* count is from the log while that one is; LogInv, that a grade on its    *)
(* way to the screen still fits into its row.                              *)
(***************************************************************************)
EXTENDS WebClient, GameRoundProofs, FiniteSetTheorems, TLAPS

-----------------------------------------------------------------------------
(* ClientInv, in parts.                                                    *)

Frames == {<< >>, <<"graded">>, <<"error">>}
InFlight(n) == creates[n].state \in {"sent", "made"}

\* A submission by itself: one frame on its way at most, a round that exists,
\* a verdict once it is graded, and no second frame for a grade on the screen.
PostWell(q) ==
  /\ posts[q].wire \in Frames
  /\ posts[q].state = "idle" => posts[q].wire = << >> /\ ~posts[q].broken
  /\ posts[q].state # "idle" => posts[q].round \in RoundIds /\ rounds[posts[q].round] # NoRound
  /\ posts[q].state = "sent" =>
       /\ posts[q].wire # <<"graded">>
       /\ ~posts[q].broken => posts[q].wire = << >>
  /\ posts[q].state = "shown" => posts[q].stream /\ posts[q].verdict \in Verdict
  /\ (\E i \in DOMAIN answers : answers[i] = q) =>
       posts[q].state \in {"shown", "ended"} /\ posts[q].wire = << >>

\* A call of createRound: nothing is submitted to a round before its reply.
CreateWell(n) ==
  /\ InFlight(n) => creates[n].mode \in RoundMode
  /\ creates[n].state # "ended" => \A q \in Req : posts[q].round # n
  /\ creates[n].state = "made" =>
       /\ rounds[n] # NoRound /\ rounds[n].answers = << >>
       /\ rounds[n].mode = creates[n].mode

\* The session is of a round that exists, or of none.
SessionWell ==
  /\ ~Started =>
       /\ roundMode = "CLASSIC" /\ answers = << >> /\ result = NoReq
       /\ \A q \in Req : posts[q].state = "idle"
  /\ Started =>
       /\ creates[roundId].state = "ended" /\ rounds[roundId] # NoRound
       /\ roundMode = rounds[roundId].mode
       /\ roundMode = "DAILY_20" => dailyTermCount = rounds[roundId].daily_size

\* What is recorded is of a submission that is over, in its verdict.
RowAnswered(r) ==
  rounds[r] # NoRound =>
    \A i \in DOMAIN rounds[r].answers :
      /\ posts[rounds[r].answers[i].by].state = "ended"
      /\ posts[rounds[r].answers[i].by].verdict = rounds[r].answers[i].verdict

ClientInv ==
  /\ TypeOK
  /\ \A q \in Req : PostWell(q)
  /\ \A n \in RoundIds : CreateWell(n)
  /\ SessionWell
  /\ \A r \in RoundIds : RowAnswered(r)

-----------------------------------------------------------------------------
(* Steps of the player, by what they call.                                 *)

Starts(n) ==
  /\ creates[n].state = "idle"
  /\ \E m \in RoundMode :
       creates' = [creates EXCEPT ![n] = [state |-> "sent", mode |-> m, remaining |-> Null]]
  /\ error' = "none" /\ calm' = (calm /\ AtRest)
  /\ UNCHANGED <<clock, rounds, loads, posts, session, timer, term, answer, result,
                 loading>>
  /\ \/ answers' = answers /\ ~Started
     \/ answers' = << >> /\ Summary

Loads ==
  /\ Started /\ loadTerm(roundId)
  /\ ResultPanel \/ error = "load"
  /\ UNCHANGED <<clock, server, posts, session, timer, answers, calm>>

SeesResults ==
  /\ result' = NoReq
  /\ UNCHANGED <<clock, server, posts, session, timer, answers, calm, loads, term,
                 answer,
                 loading, error>>

Submits(q) ==
  /\ term # 0 /\ Started /\ posts[q].state = "idle"
  /\ \E llm \in BOOLEAN :
       posts' = [posts EXCEPT ![q] =
         [@ EXCEPT !.state = "sent", !.round = roundId, !.term = term, !.stream = llm]]
  /\ loading' = TRUE /\ error' = "none" /\ calm' = (calm /\ AtRest)
  /\ UNCHANGED <<clock, server, loads, session, timer, term, answer, result, answers>>

\* Both buttons that start a round take this step.
LEMMA StartsBy ==
  ASSUME startRound, \/ answers' = answers /\ ~Started
                     \/ answers' = << >> /\ Summary
  PROVE  \E n \in RoundIds : Starts(n)
<1>1. PICK n \in RoundIds : \E m \in Picked[n] :
        /\ creates[n].state = "idle"
        /\ creates' = [creates EXCEPT ![n] =
             [state |-> "sent", mode |-> m, remaining |-> Null]]
  BY DEF startRound
<1>2. Picked[n] \subseteq RoundMode
  BY ClientConstants DEF RoundIds
<1>3. Starts(n)
  BY <1>1, <1>2 DEF startRound, Starts
<1>4. QED
  BY <1>3

\* submitAnswer is a step of one submission that was not made before.
LEMMA SubmitsBy ==
  ASSUME submitAnswer
  PROVE  \E q \in Req : Submits(q)
BY DEF submitAnswer, Submits

\* Every handler of the player comes down to one of these.
LEMMA PlayerSteps ==
  ASSUME TypeOK, SessionWell, Player
  PROVE  \/ \E n \in RoundIds : Starts(n)
         \/ Loads
         \/ SeesResults
         \/ Type
         \/ \E q \in Req : Submits(q)
<1>1. CASE ClickStart
  BY <1>1, StartsBy DEF ClickStart, StartButton
<1>2. CASE PlayAgain
  BY <1>2, StartsBy DEF PlayAgain
<1>3. CASE Continue
  <2>1. CASE roundComplete
    BY <1>3, <2>1 DEF Continue, SeesResults
  <2>2. CASE ~roundComplete
    <3>1. Started
      BY <1>3 DEF Continue, ResultPanel, SessionWell
    <3>2. QED
      BY <1>3, <2>2, <3>1 DEF Continue, Loads
  <2>3. QED
    BY <2>1, <2>2
<1>4. CASE Type
  BY <1>4
<1>5. CASE ClickSubmit \/ PressCtrlEnter
  BY <1>5, SubmitsBy DEF ClickSubmit, PressCtrlEnter
<1>6. CASE Retry
  BY <1>6, SubmitsBy, StartsBy DEF Retry, Loads
<1>7. QED
  BY <1>1, <1>2, <1>3, <1>4, <1>5, <1>6 DEF Player

\* What a commit makes of a row.
LEMMA RecordedRow ==
  ASSUME ClientInv, NEW q \in Req, posts[q].state \in {"sent", "shown"}, NEW v \in Verdict,
         rounds' = Recorded(q, v)
  PROVE  LET r == posts[q].round IN
         /\ r \in RoundIds /\ rounds[r] # NoRound /\ rounds[r] \in Round
         /\ rounds' \in [RoundIds -> Round \cup {NoRound}]
         /\ \A k \in RoundIds : k # r => rounds'[k] = rounds[k]
         /\ rounds'[r] # NoRound /\ rounds'[r] \in Round
         /\ \E a \in SubmittedAnswer :
              /\ a.by = q /\ a.verdict = v
              /\ rounds'[r].answers = Append(rounds[r].answers, a)
         /\ rounds'[r].mode = rounds[r].mode
         /\ rounds'[r].started_at = rounds[r].started_at
         /\ rounds'[r].duration_seconds = rounds[r].duration_seconds
         /\ rounds'[r].daily_size = rounds[r].daily_size
<1> DEFINE r == posts[q].round
           a == [by |-> q, verdict |-> v, matched_via |-> "DETERMINISTIC", submitted_at |-> 0]
<1>1. r \in RoundIds /\ rounds[r] # NoRound /\ rounds[r] \in Round
  BY DEF ClientInv, PostWell, TypeOK
<1>2. a \in SubmittedAnswer /\ a.by = q /\ a.verdict = v
  BY DEF SubmittedAnswer, MatchedVia
<1>3. rounds' = [rounds EXCEPT ![r] = record(@, a)]
  BY DEF Recorded
<1> HIDE DEF r, a
<1>4. rounds \in [RoundIds -> Round \cup {NoRound}]
  BY DEF ClientInv, TypeOK
<1>5. /\ rounds'[r] = record(rounds[r], a)
      /\ \A k \in RoundIds : k # r => rounds'[k] = rounds[k]
      /\ DOMAIN rounds' = RoundIds
      /\ rounds' = [k \in RoundIds |-> IF k = r THEN record(rounds[r], a) ELSE rounds[k]]
  BY <1>1, <1>3, <1>4
<1>6. /\ record(rounds[r], a) \in Round
      /\ record(rounds[r], a).answers = Append(rounds[r].answers, a)
      /\ record(rounds[r], a).mode = rounds[r].mode
      /\ record(rounds[r], a).started_at = rounds[r].started_at
      /\ record(rounds[r], a).duration_seconds = rounds[r].duration_seconds
      /\ record(rounds[r], a).daily_size = rounds[r].daily_size
  BY <1>1, <1>2, RecordType
<1>7. rounds'[r] # NoRound
  BY <1>5, <1>6, ClientConstants
<1>8. rounds' \in [RoundIds -> Round \cup {NoRound}]
  BY <1>1, <1>4, <1>5, <1>6
<1>9. \E b \in SubmittedAnswer : /\ b.by = q /\ b.verdict = v
                                  /\ rounds'[r].answers = Append(rounds[r].answers, b)
  BY <1>2, <1>5, <1>6
<1>10. /\ rounds'[r] \in Round
       /\ rounds'[r].mode = rounds[r].mode
       /\ rounds'[r].started_at = rounds[r].started_at
       /\ rounds'[r].duration_seconds = rounds[r].duration_seconds
       /\ rounds'[r].daily_size = rounds[r].daily_size
  BY <1>5, <1>6
<1>11. QED
  BY <1>1, <1>5, <1>7, <1>8, <1>9, <1>10, ZenonT(30) DEF r

-----------------------------------------------------------------------------
(* ClientInv is inductive.                                                 *)

\* What a wire of one frame at most looks like.
LEMMA WireFacts ==
  /\ Append(<< >>, "graded") = <<"graded">> /\ Append(<< >>, "error") = <<"error">>
  /\ Head(<<"graded">>) = "graded" /\ Head(<<"error">>) = "error"
  /\ Tail(<<"graded">>) = << >> /\ Tail(<<"error">>) = << >>
  /\ <<"graded">> # <<"error">> /\ << >> # <<"graded">> /\ << >> # <<"error">>
  /\ Frames \subseteq Seq({"graded", "error"})
BY DEF Frames

\* What Send leaves on the wire of a submission that is being answered.
LEMMA SendType ==
  ASSUME NEW q \in Req, PostWell(q), posts[q].state = "sent", NEW f \in {"graded", "error"}
  PROVE  /\ Send(q, f) \in Frames
         /\ posts[q].broken => Send(q, f) = posts[q].wire
         /\ ~posts[q].broken => Send(q, f) = <<f>>
BY WireFacts DEF PostWell, Send, Frames

-----------------------------------------------------------------------------
(* Steps that leave rounds and submissions alone.                          *)

\* A round is asked for.
LEMMA StartsKeepsWell ==
  ASSUME ClientInv, NEW n \in RoundIds, Starts(n)
  PROVE  ClientInv'
<1>1. PICK m \in RoundMode :
        creates' = [creates EXCEPT ![n] = [state |-> "sent", mode |-> m, remaining |-> Null]]
  BY DEF Starts
<1>2. /\ UNCHANGED <<clock, rounds, loads, posts, term, answer, result, loading>>
      /\ UNCHANGED <<roundId, roundMode, dailyTermCount, serverRemaining, armed,
                     deadline>>
      /\ error' = "none" /\ calm' \in BOOLEAN
      /\ answers' \in {answers, << >>}
      /\ creates[n].state = "idle"
  BY DEF Starts, session, timer, ClientInv, TypeOK
<1>3. /\ creates \in [RoundIds -> Create]
      /\ creates'[n].state = "sent" /\ creates'[n].mode = m
      /\ \A k \in RoundIds : k # n => creates'[k] = creates[k]
  BY <1>1 DEF ClientInv, TypeOK
<1>4. creates' \in [RoundIds -> Create]
  BY <1>1, <1>3 DEF Create
<1>5. TypeOK'
  <2>1. << >> \in Seq(Req) /\ DOMAIN << >> = {}
    OBVIOUS
  <2>2. /\ answers' \in Seq(Req)
        /\ \A i, j \in DOMAIN answers' : answers'[i] = answers'[j] => i = j
    BY <1>2, <2>1 DEF ClientInv, TypeOK
  <2>3. QED
    BY <1>2, <1>4, <2>2 DEF ClientInv, TypeOK
<1>6. ASSUME NEW q \in Req PROVE PostWell(q)'
  <2>1. PostWell(q)
    BY DEF ClientInv
  <2>2. QED
    BY <1>2, <2>1 DEF PostWell
<1>7. ASSUME NEW k \in RoundIds PROVE CreateWell(k)'
  <2>1. CreateWell(k)
    BY DEF ClientInv
  <2>2. QED
    BY <1>2, <1>3, <2>1 DEF CreateWell, InFlight
<1>8. SessionWell'
  <2>1. SessionWell
    BY DEF ClientInv
  <2>2. Started => creates'[roundId] = creates[roundId]
    BY <1>2, <1>3, <2>1 DEF SessionWell, Started, ClientInv, TypeOK
  <2>3. QED
    BY <1>2, <2>1, <2>2 DEF SessionWell, Started
<1>9. ASSUME NEW r \in RoundIds PROVE RowAnswered(r)'
  <2>1. RowAnswered(r)
    BY DEF ClientInv
  <2>2. QED
    BY <1>2, <2>1 DEF RowAnswered
<1>10. QED
  BY <1>5, <1>6, <1>7, <1>8, <1>9 DEF ClientInv

\* A step of the screen: no create, submission, round or session changes.
LEMMA ScreenKeepsWell ==
  ASSUME ClientInv, TypeOK',
         UNCHANGED <<rounds, creates, posts, roundId, roundMode, dailyTermCount,
                     answers>>,
         clock' >= clock, result' = result \/ Started
  PROVE  ClientInv'
<1>1. ASSUME NEW q \in Req PROVE PostWell(q)'
  <2>1. PostWell(q)
    BY DEF ClientInv
  <2>2. QED
    BY <2>1 DEF PostWell
<1>2. ASSUME NEW k \in RoundIds PROVE CreateWell(k)'
  <2>1. CreateWell(k)
    BY DEF ClientInv
  <2>2. clock \in Nat /\ clock' \in Nat
    BY ClientConstants DEF ClientInv, TypeOK
  <2>3. rounds[k] # NoRound => rounds[k].started_at \in Nat
    BY DEF ClientInv, TypeOK, Round
  <2>4. QED
    BY <2>1, <2>2, <2>3 DEF CreateWell, InFlight
<1>3. SessionWell'
  <2>1. SessionWell
    BY DEF ClientInv
  <2>2. QED
    BY <2>1 DEF SessionWell, Started
<1>4. ASSUME NEW r \in RoundIds PROVE RowAnswered(r)'
  <2>1. RowAnswered(r)
    BY DEF ClientInv
  <2>2. QED
    BY <2>1 DEF RowAnswered
<1>5. QED
  BY <1>1, <1>2, <1>3, <1>4 DEF ClientInv

\* Terms come and go, the clock ticks, the countdown is armed, the player types or
\* looks at the results.
LEMMA QuietKeepsWell ==
  ASSUME ClientInv,
         \/ Loads \/ (SeesResults /\ Started) \/ Type \/ Tick \/ useSprintCountdown
         \/ \E n \in RoundIds : TermReply(n) \/ TermFails(n)
  PROVE  ClientInv'
<1>1. TypeOK
  BY DEF ClientInv
<1>2. UNCHANGED <<rounds, creates, posts, roundId, roundMode, dailyTermCount, answers>>
  BY DEF Loads, SeesResults, Type, Tick, TermReply, TermFails, loadTerm, server, session,
         screen, useSprintCountdown
<1>3. TypeOK' /\ clock' >= clock /\ (result' = result \/ Started)
  <2>1. CASE Loads
    <3>1. /\ roundId \in RoundIds /\ loads' = loads \cup {roundId}
          /\ error' = "none" /\ answer' = FALSE /\ result' = NoReq
          /\ term' = term /\ loading' = loading /\ clock' = clock /\ calm' = calm
          /\ Started /\ UNCHANGED <<serverRemaining, armed, deadline>>
      BY <1>1, <2>1 DEF Loads, loadTerm, TypeOK, Started, session, timer
    <3>2. clock \in Nat
      BY <1>1, ClientConstants DEF TypeOK
    <3>3. TypeOK'
      BY <1>1, <1>2, <3>1 DEF TypeOK
    <3>4. QED
      BY <3>1, <3>2, <3>3
  <2>2. CASE SeesResults /\ Started
    BY <1>1, <2>2 DEF SeesResults, TypeOK, server, session, timer
  <2>3. CASE Type
    BY <1>1, <2>3 DEF Type, TypeOK, server, session, timer
  <2>4. CASE Tick
    BY <1>1, <2>4, ClientConstants DEF Tick, TypeOK, server, session, timer, screen
  <2>5. CASE \E n \in RoundIds : TermReply(n) \/ TermFails(n)
    BY <1>1, <2>5 DEF TermReply, TermFails, TypeOK, server, session, timer
  <2>6. CASE useSprintCountdown
    <3>1. /\ armed' = serverRemaining
          /\ deadline' = IF serverRemaining = Null THEN Null
                         ELSE clock + serverRemaining.duration
          /\ UNCHANGED <<clock, rounds, creates, loads, posts, serverRemaining, term,
                         answer, result, loading, error, calm>>
      BY <2>6 DEF useSprintCountdown, server, session, screen
    <3>2. clock \in Nat
      BY <1>1, ClientConstants DEF TypeOK
    <3>3. deadline' \in Nat \cup {Null}
      <4>1. CASE serverRemaining = Null
        BY <3>1, <4>1
      <4>2. CASE serverRemaining # Null
        <5>1. serverRemaining \in Remaining
          BY <1>1, <4>2 DEF TypeOK
        <5>2. serverRemaining.duration \in Nat
          BY <5>1, RoundConstants DEF Remaining
        <5>3. QED
          BY <3>1, <3>2, <4>2, <5>2
      <4>3. QED
        BY <4>1, <4>2
    <3>4. TypeOK'
      BY <1>1, <1>2, <3>1, <3>3 DEF TypeOK
    <3>5. QED
      BY <3>1, <3>2, <3>4
  <2>7. QED
    BY <2>1, <2>2, <2>3, <2>4, <2>5, <2>6
<1>4. QED
  BY <1>2, <1>3, ScreenKeepsWell

-----------------------------------------------------------------------------
(* The calls of createRound.                                               *)

\* The row that GameRound.start returns.
LEMMA StartRow ==
  ASSUME NEW m \in RoundMode, NEW t \in Nat, NEW d \in SprintDurations,
         NEW size \in 1..DAILY_20_ROUND_SIZE
  PROVE  /\ start(m, t, d, size) \in Round /\ start(m, t, d, size).answers = << >>
         /\ start(m, t, d, size).mode = m
         /\ m = "SPRINT" => /\ start(m, t, d, size).started_at = t
                            /\ start(m, t, d, size).duration_seconds = d
<1>1. d \in Nat /\ size \in Nat
  BY RoundConstants
<1>2. QED
  BY <1>1 DEF start, Round

\* The server creates the round: nothing was submitted to it yet.
LEMMA ServeCreateKeepsWell ==
  ASSUME ClientInv, NEW n \in RoundIds, ServeCreate(n)
  PROVE  ClientInv'
<1>1. PICK d \in SprintDurations, l \in Latencies, size \in 1..DAILY_20_ROUND_SIZE :
        /\ rounds' = [rounds EXCEPT ![n] = start(creates[n].mode, clock, d, size)]
        /\ creates' = [creates EXCEPT ![n].state = "made", ![n].remaining =
             IF creates[n].mode = "SPRINT" THEN [duration |-> d, latency |-> l] ELSE Null]
  BY DEF ServeCreate
<1>2. /\ UNCHANGED <<clock, loads, posts, term, answer, result, answers, loading,
                     error, calm>>
      /\ UNCHANGED <<roundId, roundMode, dailyTermCount, serverRemaining, armed,
                     deadline>>
      /\ creates[n].state = "sent"
  BY DEF ServeCreate, session, timer, screen
<1> DEFINE row == start(creates[n].mode, clock, d, size)
           m == creates[n].mode
<1>3. TypeOK /\ CreateWell(n) /\ SessionWell
  BY DEF ClientInv
<1>4. m \in RoundMode /\ clock \in Nat
  <2>1. m \in RoundMode
    BY <1>2, <1>3 DEF CreateWell, InFlight
  <2>2. clock \in Nat
    BY <1>3, ClientConstants DEF TypeOK
  <2>3. QED
    BY <2>1, <2>2
<1>5. /\ row \in Round /\ row.answers = << >> /\ row.mode = m
      /\ m = "SPRINT" => row.started_at = clock /\ row.duration_seconds = d
  BY <1>4, StartRow
<1>6. row # NoRound
  BY <1>5, ClientConstants
<1>7. rounds' = [rounds EXCEPT ![n] = row]
  BY <1>1
<1> HIDE DEF row
<1>8. /\ rounds'[n] = row /\ \A k \in RoundIds : k # n => rounds'[k] = rounds[k]
      /\ rounds' \in [RoundIds -> Round \cup {NoRound}]
  BY <1>3, <1>5, <1>7 DEF TypeOK
<1>9. /\ creates'[n].state = "made" /\ creates'[n].mode = m
      /\ \A k \in RoundIds : k # n => creates'[k] = creates[k]
      /\ creates' \in [RoundIds -> Create]
  <2> DEFINE left == IF m = "SPRINT" THEN [duration |-> d, latency |-> l] ELSE Null
             call == [creates[n] EXCEPT !.state = "made", !.remaining = left]
  <2>1. creates' = [creates EXCEPT ![n] = call]
    BY <1>1, <1>3 DEF TypeOK
  <2>2. left \in Remaining \cup {Null} /\ creates[n] \in Create
    BY <1>3 DEF TypeOK, Remaining
  <2> HIDE DEF left
  <2>3. call \in Create /\ call.state = "made" /\ call.mode = m
    BY <2>2 DEF Create
  <2> HIDE DEF call, m
  <2>4. QED
    BY <1>3, <2>1, <2>3 DEF TypeOK, left
<1> HIDE DEF m
<1>10. TypeOK'
  BY <1>2, <1>3, <1>8, <1>9 DEF TypeOK
<1>11. ASSUME NEW q \in Req PROVE PostWell(q)'
  <2>1. PostWell(q) /\ posts[q].round # n
    BY <1>2, <1>3 DEF ClientInv, CreateWell
  <2>2. QED
    BY <1>2, <1>8, <2>1 DEF PostWell
<1>12. ASSUME NEW k \in RoundIds PROVE CreateWell(k)'
  <2>1. CASE k = n
    BY <1>2, <1>3, <1>4, <1>5, <1>6, <1>8, <1>9, <2>1 DEF CreateWell, InFlight
  <2>2. CASE k # n
    <3>1. CreateWell(k)
      BY DEF ClientInv
    <3>2. QED
      BY <1>2, <1>8, <1>9, <2>2, <3>1 DEF CreateWell, InFlight
  <2>3. QED
    BY <2>1, <2>2
<1>13. SessionWell'
  <2>1. Started => /\ roundId \in RoundIds /\ creates'[roundId] = creates[roundId]
                   /\ rounds'[roundId] = rounds[roundId]
    BY <1>2, <1>3, <1>8, <1>9 DEF SessionWell, Started, TypeOK
  <2>2. QED
    BY <1>2, <1>3, <2>1 DEF SessionWell, Started
<1>14. ASSUME NEW r \in RoundIds PROVE RowAnswered(r)'
  <2>1. CASE r = n
    BY <1>5, <1>8, <2>1 DEF RowAnswered
  <2>2. CASE r # n
    <3>1. RowAnswered(r)
      BY DEF ClientInv
    <3>2. QED
      BY <1>2, <1>8, <2>2, <3>1 DEF RowAnswered
  <2>3. QED
    BY <2>1, <2>2
<1>15. QED
  BY <1>10, <1>11, <1>12, <1>13, <1>14 DEF ClientInv

\* A call of createRound ends, with the new round on the screen or without.
LEMMA CreateEndsKeepsWell ==
  ASSUME ClientInv, NEW n \in RoundIds, InFlight(n),
         creates' = [creates EXCEPT ![n].state = "ended"],
         UNCHANGED <<clock, rounds, posts, answers>>, TypeOK', SessionWell'
  PROVE  ClientInv'
<1>1. /\ creates'[n].state = "ended"
      /\ \A k \in RoundIds : k # n => creates'[k] = creates[k]
  BY DEF ClientInv, TypeOK
<1>2. ASSUME NEW q \in Req PROVE PostWell(q)'
  <2>1. PostWell(q)
    BY DEF ClientInv
  <2>2. QED
    BY <2>1 DEF PostWell
<1>3. ASSUME NEW k \in RoundIds PROVE CreateWell(k)'
  <2>1. CreateWell(k)
    BY DEF ClientInv
  <2>2. QED
    BY <1>1, <2>1 DEF CreateWell, InFlight
<1>4. ASSUME NEW r \in RoundIds PROVE RowAnswered(r)'
  <2>1. RowAnswered(r)
    BY DEF ClientInv
  <2>2. QED
    BY <2>1 DEF RowAnswered
<1>5. QED
  BY <1>2, <1>3, <1>4 DEF ClientInv

\* The reply of createRound starts a session.
LEMMA RoundReplyKeepsWell ==
  ASSUME ClientInv, NEW n \in RoundIds, RoundReply(n)
  PROVE  ClientInv'
<1>1. /\ creates[n].state = "made"
      /\ creates' = [creates EXCEPT ![n].state = "ended"]
      /\ roundId' = n /\ roundMode' = creates[n].mode
      /\ serverRemaining' = creates[n].remaining
      /\ dailyTermCount' = IF creates[n].mode = "DAILY_20"
                           THEN rounds[n].daily_size - Len(rounds[n].answers) ELSE Null
      /\ loads' = loads \cup {n}
      /\ error' = "none" /\ answer' = FALSE /\ result' = NoReq
      /\ UNCHANGED <<clock, rounds, posts, answers, calm, term, loading, armed,
                     deadline>>
  BY DEF RoundReply, loadTerm, timer
<1>2. TypeOK /\ CreateWell(n) /\ InFlight(n)
  BY <1>1 DEF ClientInv, InFlight
<1>3. /\ rounds[n] # NoRound /\ rounds[n] \in Round /\ Len(rounds[n].answers) = 0
      /\ rounds[n].mode = creates[n].mode /\ creates[n].mode \in RoundMode
      /\ rounds[n].daily_size \in Nat /\ rounds[n].started_at \in Nat
      /\ clock \in Nat /\ n # 0
  BY <1>1, <1>2, ClientConstants, SMTT(30) DEF CreateWell, TypeOK, Round, RoundIds
<1>4. creates[n].remaining \in Remaining \cup {Null}
  BY <1>2 DEF TypeOK, Create
<1>5. creates' \in [RoundIds -> Create] /\ creates'[n].state = "ended"
  BY <1>1, <1>2 DEF TypeOK, Create
<1>6. /\ dailyTermCount' \in Nat \cup {Null}
      /\ creates[n].mode = "DAILY_20" => dailyTermCount' = rounds[n].daily_size
  BY <1>1, <1>3
<1>7. TypeOK'
  BY <1>1, <1>2, <1>3, <1>4, <1>5, <1>6 DEF TypeOK
<1>8. SessionWell'
  BY <1>1, <1>3, <1>5, <1>6 DEF SessionWell, Started
<1>9. QED
  BY <1>1, <1>2, <1>7, <1>8, CreateEndsKeepsWell

\* createRound ends without data, and the session stays.
LEMMA RoundFailsKeepsWell ==
  ASSUME ClientInv, NEW n \in RoundIds, RoundFails(n)
  PROVE  ClientInv'
<1>1. /\ InFlight(n) /\ creates' = [creates EXCEPT ![n].state = "ended"]
      /\ error' = "load" /\ calm' \in BOOLEAN
      /\ UNCHANGED <<clock, rounds, loads, posts, term, answer, result, answers,
                     loading>>
      /\ UNCHANGED <<roundId, roundMode, dailyTermCount, serverRemaining, armed,
                     deadline>>
  BY DEF RoundFails, InFlight, session, timer, ClientInv, TypeOK
<1>2. TypeOK /\ SessionWell
  BY DEF ClientInv
<1>3. /\ creates' \in [RoundIds -> Create]
      /\ \A k \in RoundIds : k # n => creates'[k] = creates[k]
  BY <1>1, <1>2 DEF TypeOK, Create
<1>4. TypeOK'
  BY <1>1, <1>2, <1>3 DEF TypeOK
<1>5. Started => roundId \in RoundIds /\ creates'[roundId] = creates[roundId]
  BY <1>1, <1>2, <1>3 DEF SessionWell, Started, TypeOK, InFlight
<1>6. SessionWell'
  BY <1>1, <1>2, <1>5 DEF SessionWell, Started
<1>7. QED
  BY <1>1, <1>4, <1>6, CreateEndsKeepsWell

\* What a commit leaves of the rows: a round stays the round it was, and one
\* whose creation is under way is not touched.
LEMMA RowsKept ==
  ASSUME ClientInv, NEW q \in Req, NEW v,
         \/ rounds' = rounds
         \/ posts[q].state \in {"sent", "shown"} /\ v \in Verdict /\ rounds' = Recorded(q, v)
  PROVE  /\ rounds' \in [RoundIds -> Round \cup {NoRound}]
         /\ \A k \in RoundIds :
              /\ rounds[k] # NoRound =>
                   /\ rounds'[k] # NoRound /\ rounds'[k].mode = rounds[k].mode
                   /\ rounds'[k].started_at = rounds[k].started_at
                   /\ rounds'[k].duration_seconds = rounds[k].duration_seconds
                   /\ rounds'[k].daily_size = rounds[k].daily_size
              /\ k # posts[q].round \/ creates[k].state # "ended" => rounds'[k] = rounds[k]
<1>1. CASE rounds' = rounds
  BY <1>1 DEF ClientInv, TypeOK
<1>2. CASE posts[q].state \in {"sent", "shown"} /\ v \in Verdict /\ rounds' = Recorded(q, v)
  <2>1. \A k \in RoundIds : creates[k].state # "ended" => posts[q].round # k
    BY DEF ClientInv, CreateWell
  <2> DEFINE r == posts[q].round
  <2>2. /\ r \in RoundIds /\ rounds[r] # NoRound
        /\ rounds' \in [RoundIds -> Round \cup {NoRound}]
        /\ \A k \in RoundIds : k # r => rounds'[k] = rounds[k]
        /\ rounds'[r] # NoRound
        /\ rounds'[r].mode = rounds[r].mode
        /\ rounds'[r].started_at = rounds[r].started_at
        /\ rounds'[r].duration_seconds = rounds[r].duration_seconds
        /\ rounds'[r].daily_size = rounds[r].daily_size
    BY <1>2, RecordedRow
  <2>3. QED
    BY <2>1, <2>2
<1>3. QED
  BY <1>1, <1>2

\* A step of one submission, which its round may or may not record.
LEMMA PostKeepsWell ==
  ASSUME ClientInv, TypeOK', Started, NEW q \in Req, NEW p \in Post,
         posts' = [posts EXCEPT ![q] = p],
         PostWell(q)',
         p.round \in {posts[q].round, roundId},
         posts[q].state = "ended" =>
           p.state = "ended" /\ p.verdict = posts[q].verdict,
         UNCHANGED <<clock, creates, roundId, roundMode, dailyTermCount>>,
         answers' \in {answers, Append(answers, q)},
         \/ rounds' = rounds
         \/ /\ posts[q].state \in {"sent", "shown"} /\ p.state = "ended"
            /\ p.verdict \in Verdict /\ rounds' = Recorded(q, p.verdict)
  PROVE  ClientInv'
<1>1. TypeOK /\ SessionWell
  BY DEF ClientInv
<1>2. posts'[q] = p /\ \A o \in Req : o # q => posts'[o] = posts[o]
  BY <1>1 DEF TypeOK
<1>3. \A k \in RoundIds :
        /\ rounds[k] # NoRound =>
             /\ rounds'[k] # NoRound /\ rounds'[k].mode = rounds[k].mode
             /\ rounds'[k].started_at = rounds[k].started_at
             /\ rounds'[k].duration_seconds = rounds[k].duration_seconds
             /\ rounds'[k].daily_size = rounds[k].daily_size
        /\ k # posts[q].round \/ creates[k].state # "ended" => rounds'[k] = rounds[k]
  BY RowsKept
<1>4. roundId \in RoundIds /\ creates[roundId].state = "ended"
  BY <1>1 DEF TypeOK, SessionWell, Started
<1>5. ASSUME NEW o \in Req PROVE PostWell(o)'
  <2>1. CASE o = q
    BY <2>1
  <2>2. CASE o # q
    <3>1. PostWell(o) /\ posts'[o] = posts[o]
      BY <1>2, <2>2 DEF ClientInv
    <3>2. (\E i \in DOMAIN answers' : answers'[i] = o) => \E i \in DOMAIN answers : answers[i] = o
      <4>1. answers \in Seq(Req)
        BY <1>1 DEF TypeOK
      <4>2. CASE answers' = answers
        BY <4>2
      <4>3. CASE answers' = Append(answers, q)
        BY <2>2, <4>1, <4>3
      <4>4. QED
        BY <4>2, <4>3
    <3>3. posts[o].state # "idle" => rounds'[posts[o].round] # NoRound
      BY <1>3, <3>1 DEF PostWell
    <3>4. QED
      BY <3>1, <3>2, <3>3 DEF PostWell
  <2>3. QED
    BY <2>1, <2>2
<1>6. ASSUME NEW k \in RoundIds PROVE CreateWell(k)'
  <2>1. CreateWell(k)
    BY DEF ClientInv
  <2>2. creates[k].state # "ended" => rounds'[k] = rounds[k]
    BY <1>3
  <2>3. creates[k].state # "ended" => \A o \in Req : posts'[o].round # k
    BY <1>2, <1>4, <2>1 DEF CreateWell
  <2>4. QED
    BY <2>1, <2>2, <2>3 DEF CreateWell, InFlight
<1>7. SessionWell'
  BY <1>1, <1>3, <1>4 DEF SessionWell, Started
<1>8. ASSUME NEW r \in RoundIds PROVE RowAnswered(r)'
  <2>1. RowAnswered(r)
    BY DEF ClientInv
  <2>2. rounds[r] # NoRound => \A i \in DOMAIN rounds[r].answers :
          /\ posts'[rounds[r].answers[i].by].state = "ended"
          /\ posts'[rounds[r].answers[i].by].verdict = rounds[r].answers[i].verdict
    <3>1. SUFFICES ASSUME rounds[r] # NoRound, NEW i \in DOMAIN rounds[r].answers
                   PROVE  /\ posts'[rounds[r].answers[i].by].state = "ended"
                          /\ posts'[rounds[r].answers[i].by].verdict = rounds[r].answers[i].verdict
      OBVIOUS
    <3>2. rounds[r].answers[i].by \in Req
      <4>1. rounds[r] \in Round
        BY <1>1, <3>1 DEF TypeOK
      <4>2. rounds[r].answers \in Seq(SubmittedAnswer)
        BY <4>1 DEF Round
      <4>3. rounds[r].answers[i] \in SubmittedAnswer
        BY <3>1, <4>2
      <4>4. QED
        BY <4>3 DEF SubmittedAnswer
    <3>3. PICK o \in Req : o = rounds[r].answers[i].by
      BY <3>2
    <3>4. posts[o].state = "ended" /\ posts[o].verdict = rounds[r].answers[i].verdict
      BY <2>1, <3>1, <3>3 DEF RowAnswered
    <3>5. posts'[o].state = "ended" /\ posts'[o].verdict = posts[o].verdict
      BY <1>2, <3>4
    <3>6. QED
      BY <3>3, <3>4, <3>5
  <2>3. CASE rounds'[r] = rounds[r]
    BY <2>2, <2>3 DEF RowAnswered
  <2>4. CASE rounds'[r] # rounds[r]
    <3>1. /\ r = posts[q].round /\ posts[q].state \in {"sent", "shown"} /\ p.state = "ended"
          /\ p.verdict \in Verdict /\ rounds' = Recorded(q, p.verdict)
      BY <1>3, <2>4
    <3>2. /\ rounds[r] # NoRound /\ rounds[r] \in Round
          /\ \E a \in SubmittedAnswer :
               /\ a.by = q /\ a.verdict = p.verdict
               /\ rounds'[r].answers = Append(rounds[r].answers, a)
      BY <3>1, RecordedRow
    <3>3. PICK a \in SubmittedAnswer :
            /\ a.by = q /\ a.verdict = p.verdict
            /\ rounds'[r].answers = Append(rounds[r].answers, a)
      BY <3>2
    <3>4. rounds[r].answers \in Seq(SubmittedAnswer)
      BY <3>2 DEF Round
    <3>5. ASSUME NEW i \in DOMAIN rounds'[r].answers
          PROVE  /\ posts'[rounds'[r].answers[i].by].state = "ended"
                 /\ posts'[rounds'[r].answers[i].by].verdict = rounds'[r].answers[i].verdict
      <4>1. CASE i \in DOMAIN rounds[r].answers
        <5>1. rounds'[r].answers[i] = rounds[r].answers[i]
          BY <3>3, <3>4, <4>1
        <5>2. QED
          BY <2>2, <3>2, <4>1, <5>1
      <4>2. CASE i \notin DOMAIN rounds[r].answers
        <5>1. rounds'[r].answers[i] = a
          BY <3>3, <3>4, <3>5, <4>2
        <5>2. QED
          BY <1>2, <3>1, <3>3, <5>1
      <4>3. QED
        BY <4>1, <4>2
    <3>6. QED
      BY <3>5 DEF RowAnswered
  <2>5. QED
    BY <2>3, <2>4
<1>9. QED
  BY <1>5, <1>6, <1>7, <1>8 DEF ClientInv

\* A submission that was sent is of a session.
LEMMA SessionOf ==
  ASSUME ClientInv, NEW q \in Req, posts[q].state # "idle"
  PROVE  /\ Started /\ posts[q].round \in RoundIds
         /\ rounds[posts[q].round] # NoRound /\ rounds[posts[q].round] \in Round
BY DEF ClientInv, SessionWell, PostWell, TypeOK

\* The frame of PostKeepsWell for a step that leaves the screen alone.
LEMMA PostKeepsType ==
  ASSUME ClientInv, NEW q \in Req, NEW p \in Post, posts' = [posts EXCEPT ![q] = p],
         UNCHANGED <<clock, creates, loads, roundId, roundMode, dailyTermCount,
                     serverRemaining, armed, deadline,
                     term, answer>>,
         result' \in Req \cup {NoReq}, loading' \in BOOLEAN,
         error' \in {"none", "load", "submit"}, calm' \in BOOLEAN,
         \/ answers' = answers
         \/ answers' = Append(answers, q) /\ \A i \in DOMAIN answers : answers[i] # q,
         \/ rounds' = rounds
         \/ /\ posts[q].state \in {"sent", "shown"}
            /\ p.verdict \in Verdict /\ rounds' = Recorded(q, p.verdict)
  PROVE  TypeOK'
<1>1. TypeOK
  BY DEF ClientInv
<1>2. posts' \in [Req -> Post]
  BY <1>1 DEF TypeOK
<1>3. rounds' \in [RoundIds -> Round \cup {NoRound}]
  BY RowsKept
<1>4. /\ answers' \in Seq(Req)
      /\ \A i, j \in DOMAIN answers' : answers'[i] = answers'[j] => i = j
  <2>1. CASE answers' = answers
    BY <1>1, <2>1 DEF TypeOK
  <2>2. CASE answers' = Append(answers, q) /\ \A i \in DOMAIN answers : answers[i] # q
    <3>1. answers \in Seq(Req) /\ \A i, j \in DOMAIN answers : answers[i] = answers[j] => i = j
      BY <1>1 DEF TypeOK
    <3>2. /\ answers' \in Seq(Req) /\ Len(answers') = Len(answers) + 1
          /\ \A i \in 1..Len(answers) : answers'[i] = answers[i]
          /\ answers'[Len(answers) + 1] = q
      BY <2>2, <3>1
    <3>3. /\ DOMAIN answers = 1..Len(answers) /\ DOMAIN answers' = 1..(Len(answers) + 1)
          /\ Len(answers) \in Nat
          /\ \A k \in DOMAIN answers' : k = Len(answers) + 1 \/ k \in DOMAIN answers
      BY <3>1, <3>2
    <3>4. \A k \in DOMAIN answers : answers[k] # q
      BY <2>2
    <3>5. ASSUME NEW i \in DOMAIN answers', NEW j \in DOMAIN answers', answers'[i] = answers'[j]
          PROVE  i = j
      <4>1. CASE i = Len(answers) + 1 /\ j # Len(answers) + 1
        <5>1. j \in 1..Len(answers) /\ answers'[j] = answers[j] /\ answers[j] # q
          BY <3>4, <3>2, <3>3, <4>1
        <5>2. QED
          BY <3>2, <3>5, <4>1, <5>1
      <4>2. CASE i # Len(answers) + 1 /\ j = Len(answers) + 1
        <5>1. i \in 1..Len(answers) /\ answers'[i] = answers[i] /\ answers[i] # q
          BY <3>4, <3>2, <3>3, <4>2
        <5>2. QED
          BY <3>2, <3>5, <4>2, <5>1
      <4>3. CASE i # Len(answers) + 1 /\ j # Len(answers) + 1
        BY <3>1, <3>2, <3>3, <3>5, <4>3
      <4>4. QED
        BY <4>1, <4>2, <4>3
    <3>6. QED
      BY <3>2, <3>5
  <2>3. QED
    BY <2>1, <2>2
<1>5. QED
  BY <1>1, <1>2, <1>3, <1>4 DEF TypeOK

\* The player submits the term on the screen.
LEMMA SubmitsKeepsWell ==
  ASSUME ClientInv, NEW q \in Req, Submits(q)
  PROVE  ClientInv'
<1>1. PICK llm \in BOOLEAN : posts' = [posts EXCEPT ![q] =
         [@ EXCEPT !.state = "sent", !.round = roundId, !.term = term, !.stream = llm]]
  BY DEF Submits
<1> DEFINE p == [posts[q] EXCEPT !.state = "sent", !.round = roundId, !.term = term,
                                 !.stream = llm]
<1>2. /\ Started /\ posts[q].state = "idle"
      /\ UNCHANGED <<clock, rounds, creates, loads, roundId, roundMode, dailyTermCount,
                     serverRemaining, armed, deadline, term, answer, result, answers>>
      /\ loading' = TRUE /\ error' = "none" /\ calm' \in BOOLEAN
  BY DEF Submits, server, session, timer, ClientInv, TypeOK
<1>3. TypeOK /\ SessionWell /\ PostWell(q)
  BY DEF ClientInv
<1>4. /\ posts' = [posts EXCEPT ![q] = p] /\ p \in Post
      /\ p.state = "sent" /\ p.round = roundId /\ p.wire = << >> /\ ~p.broken
  <2>1. posts[q] \in Post /\ posts[q].wire = << >> /\ ~posts[q].broken
    BY <1>2, <1>3 DEF TypeOK, PostWell
  <2>2. roundId \in {0} \cup RoundIds /\ term \in {0} \cup RoundIds
    BY <1>3 DEF TypeOK
  <2>3. p \in Post
    BY <2>1, <2>2 DEF Post
  <2>4. p.state = "sent" /\ p.round = roundId /\ p.wire = << >> /\ ~p.broken
    BY <2>1 DEF Post
  <2>5. QED
    BY <1>1, <2>3, <2>4
<1> HIDE DEF p
<1>5. posts'[q] = p
  BY <1>3, <1>4 DEF TypeOK
<1>6. PostWell(q)'
  <2>1. roundId \in RoundIds /\ rounds[roundId] # NoRound
    BY <1>2, <1>3 DEF TypeOK, SessionWell, Started
  <2>2. \A i \in DOMAIN answers : answers[i] # q
    BY <1>2, <1>3 DEF PostWell
  <2>3. p.wire \in Frames
    BY <1>4 DEF Frames
  <2>4. QED
    BY <1>2, <1>4, <1>5, <2>1, <2>2, <2>3, WireFacts DEF PostWell
<1>7. result \in Req \cup {NoReq}
  BY <1>3 DEF TypeOK
<1>8. TypeOK'
  BY <1>2, <1>4, <1>7, PostKeepsType
<1>9. QED
  BY <1>2, <1>4, <1>6, <1>8, PostKeepsWell

\* The plain endpoint records an answer and sends its grade.
LEMMA ServePlainKeepsWell ==
  ASSUME ClientInv, NEW q \in Req, NEW v \in Verdict, ServePlain(q, v)
  PROVE  ClientInv'
<1> DEFINE p == [posts[q] EXCEPT !.state = "ended", !.term = 0, !.verdict = v,
                                 !.wire = Send(q, "graded")]
<1>1. /\ posts' = [posts EXCEPT ![q] = p]
      /\ rounds' = Recorded(q, v) /\ posts[q].state = "sent"
      /\ UNCHANGED <<clock, creates, loads, roundId, roundMode, dailyTermCount,
                     serverRemaining, armed, deadline,
                     term, answer, result, answers, loading, error, calm>>
  BY DEF ServePlain, Gradable, session, timer, screen
<1>2. TypeOK /\ PostWell(q)
  BY DEF ClientInv
<1>3. Send(q, "graded") \in Frames
  BY <1>1, <1>2, SendType
<1>4. /\ p \in Post /\ p.state = "ended" /\ p.verdict = v /\ p.wire \in Frames
      /\ p.round = posts[q].round
  <2> DEFINE w == Send(q, "graded")
  <2>1. w \in Frames /\ w \in Seq({"graded", "error"}) /\ posts[q] \in Post
    BY <1>2, <1>3, WireFacts DEF TypeOK
  <2>2. p = [posts[q] EXCEPT !.state = "ended", !.term = 0, !.verdict = v, !.wire = w]
    OBVIOUS
  <2> HIDE DEF w, p
  <2>3. QED
    BY <2>1, <2>2 DEF Post
<1> HIDE DEF p
<1>5. posts'[q] = p
  BY <1>1, <1>2 DEF TypeOK
<1>6. Started /\ posts[q].round \in RoundIds /\ rounds[posts[q].round] # NoRound
  BY <1>1, SessionOf
<1>7. PostWell(q)'
  <2>1. rounds'[posts[q].round] # NoRound
    BY <1>1, <1>6, RecordedRow
  <2>2. \A i \in DOMAIN answers : answers[i] # q
    BY <1>1, <1>2 DEF PostWell
  <2>3. QED
    BY <1>1, <1>4, <1>5, <1>6, <2>1, <2>2 DEF PostWell
<1>8. /\ result \in Req \cup {NoReq} /\ loading \in BOOLEAN
      /\ error \in {"none", "load", "submit"} /\ calm \in BOOLEAN
  BY <1>2 DEF TypeOK
<1>9. TypeOK'
  BY <1>1, <1>4, <1>8, PostKeepsType
<1>10. QED
  BY <1>1, <1>4, <1>6, <1>7, <1>9, PostKeepsWell

\* The streaming endpoint sends a grade before the answer is recorded.
LEMMA ServeGradedKeepsWell ==
  ASSUME ClientInv, NEW q \in Req, NEW v \in Verdict, ServeGraded(q, v)
  PROVE  ClientInv'
<1> DEFINE p == [posts[q] EXCEPT !.state = "shown", !.verdict = v,
                                 !.wire = Send(q, "graded")]
<1>1. /\ posts' = [posts EXCEPT ![q] = p]
      /\ posts[q].state = "sent" /\ posts[q].stream
      /\ UNCHANGED <<clock, rounds, creates, loads, roundId, roundMode, dailyTermCount,
                     serverRemaining, armed, deadline, term, answer, result, answers,
                     loading, error, calm>>
  BY DEF ServeGraded, Gradable, server, session, timer, screen
<1>2. TypeOK /\ PostWell(q)
  BY DEF ClientInv
<1>3. Send(q, "graded") \in Frames
  BY <1>1, <1>2, SendType
<1>4. /\ p \in Post /\ p.state = "shown" /\ p.verdict = v /\ p.wire \in Frames
      /\ p.round = posts[q].round /\ p.stream = posts[q].stream
  <2>1. posts[q] \in Post
    BY <1>2 DEF TypeOK
  <2>2. Send(q, "graded") \in Seq({"graded", "error"})
    BY <1>3, WireFacts
  <2>3. p \in Post
    BY <2>1, <2>2 DEF Post
  <2>4. p.state = "shown" /\ p.verdict = v /\ p.wire = Send(q, "graded")
        /\ p.round = posts[q].round /\ p.stream = posts[q].stream
    BY <2>1 DEF Post
  <2>5. QED
    BY <1>3, <2>3, <2>4
<1> HIDE DEF p
<1>5. posts'[q] = p
  BY <1>1, <1>2 DEF TypeOK
<1>6. Started /\ posts[q].round \in RoundIds /\ rounds[posts[q].round] # NoRound
  BY <1>1, SessionOf
<1>7. PostWell(q)'
  <2>1. \A i \in DOMAIN answers : answers[i] # q
    BY <1>1, <1>2 DEF PostWell
  <2>2. QED
    BY <1>1, <1>4, <1>5, <1>6, <2>1 DEF PostWell
<1>8. /\ result \in Req \cup {NoReq} /\ loading \in BOOLEAN
      /\ error \in {"none", "load", "submit"} /\ calm \in BOOLEAN
  BY <1>2 DEF TypeOK
<1>9. TypeOK'
  BY <1>1, <1>4, <1>8, PostKeepsType
<1>10. QED
  BY <1>1, <1>4, <1>6, <1>7, <1>9, PostKeepsWell

\* The streaming endpoint records the answer whose grade it sent.
LEMMA ServeCommitKeepsWell ==
  ASSUME ClientInv, NEW q \in Req, ServeCommit(q)
  PROVE  ClientInv'
<1> DEFINE p == [posts[q] EXCEPT !.state = "ended", !.term = 0]
           v == posts[q].verdict
<1>1. TypeOK /\ PostWell(q)
  BY DEF ClientInv
<1>2. /\ posts' = [posts EXCEPT ![q] = p]
      /\ posts[q].state = "shown" /\ rounds' = Recorded(q, v)
      /\ UNCHANGED <<clock, creates, loads, roundId, roundMode, dailyTermCount,
                     serverRemaining, armed, deadline,
                     term, answer, result, answers, loading, error, calm>>
  BY <1>1 DEF ServeCommit, session, timer, screen, TypeOK
<1>3. v \in Verdict
  BY <1>1, <1>2 DEF PostWell
<1>4. /\ p \in Post /\ p.state = "ended" /\ p.verdict = v /\ p.wire = posts[q].wire
      /\ p.round = posts[q].round
  BY <1>1, ZenonT(30) DEF TypeOK, Post
<1> HIDE DEF p, v
<1>5. posts'[q] = p
  BY <1>1, <1>2 DEF TypeOK
<1>6. Started /\ posts[q].round \in RoundIds /\ rounds[posts[q].round] # NoRound
  BY <1>2, SessionOf
<1>7. PostWell(q)'
  <2>1. rounds'[posts[q].round] # NoRound
    BY <1>2, <1>3, <1>6, RecordedRow
  <2>2. (\E i \in DOMAIN answers : answers[i] = q) => p.wire = << >>
    BY <1>1, <1>4 DEF PostWell
  <2>3. p.wire \in Frames
    BY <1>1, <1>4 DEF PostWell
  <2>4. QED
    BY <1>2, <1>4, <1>5, <1>6, <2>1, <2>2, <2>3 DEF PostWell
<1>8. /\ result \in Req \cup {NoReq} /\ loading \in BOOLEAN
      /\ error \in {"none", "load", "submit"} /\ calm \in BOOLEAN
  BY <1>1 DEF TypeOK
<1>9. TypeOK'
  BY <1>2, <1>3, <1>4, <1>8, PostKeepsType
<1>10. QED
  BY <1>2, <1>3, <1>4, <1>6, <1>7, <1>9, PostKeepsWell

\* A submission ends with nothing recorded.
LEMMA EndsKeepsWell ==
  ASSUME ClientInv, NEW q \in Req, ServeError(q) \/ CommitFails(q)
  PROVE  ClientInv'
<1> DEFINE w == IF posts[q].state = "sent" THEN Send(q, "error") ELSE posts[q].wire
           p == [posts[q] EXCEPT !.state = "ended", !.term = 0, !.wire = w]
<1>1. TypeOK /\ PostWell(q)
  BY DEF ClientInv
<1>2. /\ posts' = [posts EXCEPT ![q] = p] /\ posts[q].state \in {"sent", "shown"}
      /\ UNCHANGED <<clock, rounds, creates, loads, roundId, roundMode, dailyTermCount,
                     serverRemaining, armed, deadline, term, answer, result, answers,
                     loading, error>>
      /\ calm' \in BOOLEAN
  <2>1. CASE ServeError(q)
    BY <1>1, <2>1 DEF ServeError, server, session, timer, screen, TypeOK
  <2>2. CASE CommitFails(q)
    <3>1. posts[q].state = "shown" /\ w = posts[q].wire /\ posts[q] \in Post
      BY <1>1, <2>2 DEF CommitFails, TypeOK
    <3>2. p = [posts[q] EXCEPT !.state = "ended", !.term = 0]
      BY <3>1 DEF Post
    <3> HIDE DEF p, w
    <3>3. QED
      BY <1>1, <2>2, <3>1, <3>2 DEF CommitFails, server, session, timer, screen, TypeOK
  <2>3. QED
    BY <2>1, <2>2
<1>3. /\ w \in Frames
      /\ (\E i \in DOMAIN answers : answers[i] = q) => w = << >>
  <2>1. CASE posts[q].state = "sent"
    BY <1>1, <2>1, SendType DEF PostWell
  <2>2. CASE posts[q].state # "sent"
    BY <1>1, <2>2 DEF PostWell
  <2>3. QED
    BY <2>1, <2>2
<1> HIDE DEF w
<1>4. /\ p \in Post /\ p.state = "ended" /\ p.verdict = posts[q].verdict /\ p.wire = w
      /\ p.round = posts[q].round
  <2>1. posts[q] \in Post
    BY <1>1 DEF TypeOK
  <2>2. w \in Frames
    BY <1>3
  <2>3. QED
    BY <2>1, <2>2, WireFacts, ZenonT(30) DEF Post
<1> HIDE DEF p
<1>5. posts'[q] = p
  BY <1>1, <1>2 DEF TypeOK
<1>6. Started /\ posts[q].round \in RoundIds /\ rounds[posts[q].round] # NoRound
  BY <1>2, SessionOf
<1>7. PostWell(q)'
  BY <1>2, <1>3, <1>4, <1>5, <1>6 DEF PostWell
<1>8. /\ result \in Req \cup {NoReq} /\ loading \in BOOLEAN
      /\ error \in {"none", "load", "submit"}
  BY <1>1 DEF TypeOK
<1>9. TypeOK'
  BY <1>2, <1>4, <1>8, PostKeepsType
<1>10. QED
  BY <1>2, <1>4, <1>6, <1>7, <1>9, PostKeepsWell

\* The client takes a frame from the wire.
LEMMA TakenKeepsWell ==
  ASSUME ClientInv, NEW q \in Req, Graded(q) \/ Failed(q)
  PROVE  ClientInv'
<1> DEFINE p == [posts[q] EXCEPT !.wire = << >>]
<1>1. TypeOK /\ PostWell(q)
  BY DEF ClientInv
<1>2. /\ posts' = [posts EXCEPT ![q] = p]
      /\ Graded(q) => posts[q].wire = <<"graded">>
      /\ Failed(q) => posts[q].wire = <<"error">>
  <2>1. posts[q].wire \in {<<"graded">>, <<"error">>} /\ posts' = [posts EXCEPT ![q].wire = Tail(@)]
    BY <1>1 DEF Graded, Failed, Takes, PostWell, Frames
  <2>2. Tail(posts[q].wire) = << >>
    BY <2>1, WireFacts
  <2>3. posts' = [posts EXCEPT ![q] = p]
    BY <1>1, <2>1, <2>2 DEF TypeOK
  <2>4. QED
    BY <2>1, <2>3, WireFacts DEF Graded, Failed, Takes
<1>3. /\ UNCHANGED <<clock, rounds, creates, loads, roundId, roundMode, dailyTermCount,
                     serverRemaining, armed, deadline, term, answer, calm>>
      /\ result' \in {result, q} /\ loading' = FALSE /\ error' \in {error, "submit"}
      /\ Graded(q) => answers' = Append(answers, q)
      /\ ~Graded(q) => answers' = answers
  BY DEF Graded, Failed, server, session, timer
<1>4. /\ p \in Post /\ p.state = posts[q].state /\ p.verdict = posts[q].verdict
      /\ p.wire = << >> /\ p.round = posts[q].round /\ p.stream = posts[q].stream
      /\ p.broken = posts[q].broken
  BY <1>1, WireFacts, ZenonT(30) DEF TypeOK, Post, Frames
<1> HIDE DEF p
<1>5. posts'[q] = p
  BY <1>1, <1>2 DEF TypeOK
<1>6. /\ posts[q].state # "idle"
      /\ Graded(q) => posts[q].state \in {"shown", "ended"}
      /\ \A i \in DOMAIN answers : answers[i] # q
  <2>1. posts[q].state \in {"idle", "sent", "shown", "ended"}
    BY <1>1 DEF TypeOK, Post
  <2>2. QED
    BY <1>1, <1>2, <2>1, WireFacts DEF PostWell
<1>7. Started /\ posts[q].round \in RoundIds /\ rounds[posts[q].round] # NoRound
  BY <1>6, SessionOf
<1>8. PostWell(q)'
  <2>1. (\E i \in DOMAIN answers' : answers'[i] = q) => p.state \in {"shown", "ended"}
    BY <1>3, <1>4, <1>6
  <2>2. posts[q].state = "shown" => posts[q].stream /\ posts[q].verdict \in Verdict
    BY <1>1 DEF PostWell
  <2>3. QED
    BY <1>3, <1>4, <1>5, <1>6, <1>7, <2>1, <2>2, WireFacts DEF PostWell, Frames
<1>9. /\ result' \in Req \cup {NoReq} /\ error' \in {"none", "load", "submit"}
      /\ calm' \in BOOLEAN /\ loading' \in BOOLEAN
  BY <1>1, <1>3 DEF TypeOK
<1>10. TypeOK'
  BY <1>2, <1>3, <1>4, <1>6, <1>9, PostKeepsType
<1>11. QED
  BY <1>2, <1>3, <1>4, <1>7, <1>8, <1>10, PostKeepsWell

\* The connection of a submission breaks.
LEMMA BreakKeepsWell ==
  ASSUME ClientInv, NEW q \in Req, Break(q)
  PROVE  ClientInv'
<1> DEFINE w == IF posts[q].stream THEN << >> ELSE <<"error">>
           p == [posts[q] EXCEPT !.broken = TRUE, !.wire = w]
<1>1. TypeOK /\ PostWell(q)
  BY DEF ClientInv
<1>2. /\ posts' = [posts EXCEPT ![q] = p] /\ Active(q)
      /\ UNCHANGED <<clock, rounds, creates, loads, roundId, roundMode, dailyTermCount,
                     serverRemaining, armed, deadline, term, answer, result, answers,
                     loading, error>>
      /\ calm' = FALSE
  BY <1>1 DEF Break, server, session, timer, screen, TypeOK
<1>3. /\ posts[q].state # "idle"
      /\ w \in {<< >>, <<"error">>} /\ w \in Frames
      /\ (\E i \in DOMAIN answers : answers[i] = q) => w = << >>
  BY <1>1, <1>2 DEF PostWell, Active, Frames
<1> HIDE DEF w
<1>4. /\ p \in Post /\ p.state = posts[q].state /\ p.verdict = posts[q].verdict
      /\ p.wire = w /\ p.round = posts[q].round /\ p.stream = posts[q].stream /\ p.broken
  BY <1>1, <1>3, WireFacts, ZenonT(30) DEF TypeOK, Post
<1> HIDE DEF p
<1>5. posts'[q] = p
  BY <1>1, <1>2 DEF TypeOK
<1>6. Started /\ posts[q].round \in RoundIds /\ rounds[posts[q].round] # NoRound
  BY <1>3, SessionOf
<1>7. PostWell(q)'
  BY <1>1, <1>2, <1>3, <1>4, <1>5, <1>6, WireFacts DEF PostWell
<1>8. /\ result \in Req \cup {NoReq} /\ loading \in BOOLEAN
      /\ error \in {"none", "load", "submit"}
  BY <1>1 DEF TypeOK
<1>9. TypeOK'
  BY <1>2, <1>4, <1>8, PostKeepsType
<1>10. QED
  BY <1>2, <1>4, <1>6, <1>7, <1>9, PostKeepsWell

-----------------------------------------------------------------------------
\* The page as it is loaded.
LEMMA InitWell ==
  ASSUME Init
  PROVE  ClientInv
<1>1. /\ 0 \in 0..MaxTime /\ << >> \in Seq(Req) /\ DOMAIN << >> = {}
      /\ << >> \in Seq({"graded", "error"})
  BY ClientConstants
<1>2. creates \in [RoundIds -> Create] /\ posts \in [Req -> Post]
  BY <1>1 DEF Init, Create, Post
<1>3. TypeOK
  BY <1>1, <1>2 DEF Init, TypeOK, RoundMode
<1>4. ASSUME NEW q \in Req PROVE PostWell(q)
  BY <1>1 DEF Init, PostWell, Frames
<1>5. ASSUME NEW n \in RoundIds PROVE CreateWell(n)
  BY DEF Init, CreateWell, InFlight, RoundIds
<1>6. SessionWell
  BY DEF Init, SessionWell, Started
<1>7. ASSUME NEW r \in RoundIds PROVE RowAnswered(r)
  BY DEF Init, RowAnswered
<1>8. QED
  BY <1>3, <1>4, <1>5, <1>6, <1>7 DEF ClientInv

\* Every step keeps the screen, the submissions, the calls and the rows in order.
LEMMA NextKeepsWell ==
  ASSUME ClientInv, Next
  PROVE  ClientInv'
<1>1. CASE Player
  <2>1. TypeOK /\ SessionWell
    BY DEF ClientInv
  <2>2. CASE \E n \in RoundIds : Starts(n)
    BY <2>2, StartsKeepsWell
  <2>3. CASE Loads \/ Type
    BY <2>3, QuietKeepsWell
  <2>4. CASE SeesResults
    <3>1. CASE Started
      BY <2>4, <3>1, QuietKeepsWell
    <3>2. CASE ~Started
      <4>1. /\ UNCHANGED <<clock, rounds, creates, posts, roundId, roundMode,
                           dailyTermCount, serverRemaining, armed, deadline, answers,
                           calm, loads, term, answer, loading, error>>
            /\ result' = result
        BY <2>1, <2>4, <3>2 DEF SeesResults, SessionWell, server, session, timer
      <4>2. TypeOK' /\ clock' >= clock
        BY <2>1, <4>1, ClientConstants DEF TypeOK
      <4>3. QED
        BY <4>1, <4>2, ScreenKeepsWell
    <3>3. QED
      BY <3>1, <3>2
  <2>5. CASE \E q \in Req : Submits(q)
    BY <2>5, SubmitsKeepsWell
  <2>6. QED
    BY <1>1, <2>1, <2>2, <2>3, <2>4, <2>5, PlayerSteps
<1>2. CASE Tick \/ useSprintCountdown
  BY <1>2, QuietKeepsWell
<1>3. CASE Server
  <2>1. Verdicts \subseteq Verdict
    BY ClientConstants
  <2>2. QED
    BY <1>3, <2>1, ServeCreateKeepsWell, ServeCommitKeepsWell, EndsKeepsWell,
       ServePlainKeepsWell, ServeGradedKeepsWell DEF Server
<1>4. CASE Network
  BY <1>4, RoundReplyKeepsWell, RoundFailsKeepsWell, QuietKeepsWell, TakenKeepsWell,
     BreakKeepsWell DEF Network
<1>5. QED
  BY <1>1, <1>2, <1>3, <1>4 DEF Next

-----------------------------------------------------------------------------
(* TimerInv: what the countdown was armed for.                             *)

\* A call brings the duration of its round's row, and a Sprint row has one.
CallTimed(n) ==
  /\ creates[n].remaining # Null =>
       /\ creates[n].state \in {"made", "ended"} /\ rounds[n] # NoRound
       /\ creates[n].remaining.duration = rounds[n].duration_seconds
       /\ rounds[n].started_at <= clock
  /\ rounds[n] # NoRound /\ rounds[n].mode = "SPRINT" => creates[n].remaining # Null

\* The countdown runs for a round that was on the screen, so for an earlier one
\* until its effect has run.
TimerInv ==
  /\ \A n \in RoundIds : CallTimed(n)
  /\ serverRemaining = IF Started THEN creates[roundId].remaining ELSE Null
  /\ armed = Null \/
       \E k \in RoundIds : creates[k].state = "ended" /\ creates[k].remaining = armed
  /\ CountdownCoversRound

\* On the screen is a Sprint: its row, and the value that came with it.
LEMMA SprintSession ==
  ASSUME ClientInv, TimerInv, roundMode = "SPRINT"
  PROVE  /\ Started /\ roundId \in RoundIds /\ creates[roundId].state = "ended"
         /\ serverRemaining = creates[roundId].remaining /\ serverRemaining # Null
         /\ serverRemaining \in Remaining /\ rounds[roundId] \in Round
         /\ serverRemaining.duration = rounds[roundId].duration_seconds
         /\ rounds[roundId].started_at <= clock
<1>1. TypeOK /\ SessionWell
  BY DEF ClientInv
<1>2. /\ Started /\ roundId \in RoundIds /\ creates[roundId].state = "ended"
      /\ rounds[roundId] # NoRound /\ rounds[roundId] \in Round
      /\ rounds[roundId].mode = "SPRINT"
  BY <1>1 DEF SessionWell, TypeOK, Started
<1>3. CallTimed(roundId) /\ serverRemaining = creates[roundId].remaining
  BY <1>2 DEF TimerInv
<1>4. QED
  BY <1>1, <1>2, <1>3 DEF CallTimed, TypeOK

\* The calls, the session and the countdown stay, and a row keeps its times.
LEMMA TimerKept ==
  ASSUME ClientInv, TimerInv, clock' >= clock,
         UNCHANGED <<creates, roundId, roundMode, serverRemaining, armed, deadline>>,
         \A k \in RoundIds :
           IF rounds[k] = NoRound THEN rounds'[k] = NoRound
           ELSE /\ rounds'[k] # NoRound /\ rounds'[k].mode = rounds[k].mode
                /\ rounds'[k].started_at = rounds[k].started_at
                /\ rounds'[k].duration_seconds = rounds[k].duration_seconds,
         clock' \in Nat
  PROVE  TimerInv'
<1>1. ASSUME NEW n \in RoundIds PROVE CallTimed(n)'
  <2>1. CallTimed(n)
    BY DEF TimerInv
  <2>2. clock \in Nat /\ (rounds[n] # NoRound => rounds[n].started_at \in Nat)
    BY ClientConstants DEF ClientInv, TypeOK, Round
  <2>3. QED
    BY <2>1, <2>2 DEF CallTimed
<1>2. CountdownCoversRound'
  <2>1. SUFFICES ASSUME roundMode = "SPRINT", armed = serverRemaining, ~SentTwice
                 PROVE  /\ deadline # Null
                        /\ deadline >= rounds'[roundId].started_at
                                         + rounds'[roundId].duration_seconds
    BY DEF CountdownCoversRound, SentTwice
  <2>2. roundId \in RoundIds /\ rounds[roundId] # NoRound
    BY <2>1, SprintSession, ClientConstants
  <2>3. QED
    BY <2>1, <2>2 DEF TimerInv, CountdownCoversRound
<1>3. QED
  BY <1>1, <1>2 DEF TimerInv, Started

\* A call of createRound moves on, and brings the same value for every round that
\* was on the screen.
LEMMA CallKeepsTimer ==
  ASSUME ClientInv, TimerInv, NEW n \in RoundIds,
         \A k \in RoundIds : k # n => creates'[k] = creates[k] /\ rounds'[k] = rounds[k],
         clock' = clock, CallTimed(n)',
         UNCHANGED <<roundId, roundMode, serverRemaining, armed, deadline>>,
         \/ creates[n].state \in {"idle", "sent"}
         \/ /\ InFlight(n) /\ rounds' = rounds
            /\ creates'[n].remaining = creates[n].remaining
  PROVE  TimerInv'
<1>1. ASSUME NEW k \in RoundIds PROVE CallTimed(k)'
  <2>1. CallTimed(k)
    BY DEF TimerInv
  <2>2. QED
    BY <2>1 DEF CallTimed
<1>2. CallTimed(n) /\ creates[n].state # "ended"
  BY DEF TimerInv, InFlight
<1>3. Started => roundId \in RoundIds /\ roundId # n
  BY <1>2 DEF ClientInv, SessionWell, TypeOK, Started
<1>4. serverRemaining = (IF Started THEN creates'[roundId].remaining ELSE Null)
  BY <1>3 DEF TimerInv
<1>5. armed = Null \/
        \E k \in RoundIds : creates'[k].state = "ended" /\ creates'[k].remaining = armed
  BY <1>2 DEF TimerInv
<1>6. CountdownCoversRound'
  <2>1. SUFFICES ASSUME roundMode = "SPRINT", armed = serverRemaining, ~SentTwice'
                 PROVE  /\ deadline # Null
                        /\ deadline >= rounds'[roundId].started_at
                                         + rounds'[roundId].duration_seconds
    BY DEF CountdownCoversRound
  <2>2. Started /\ roundId \in RoundIds /\ roundId # n /\ serverRemaining # Null
    BY <1>3, <2>1, SprintSession
  <2>3. creates[n].remaining # Null => creates'[n].remaining = creates[n].remaining
    BY <1>2 DEF CallTimed
  <2>4. ~SentTwice
    BY <2>1, <2>2, <2>3 DEF SentTwice
  <2>5. QED
    BY <2>1, <2>2, <2>4 DEF TimerInv, CountdownCoversRound
<1>7. QED
  BY <1>1, <1>4, <1>5, <1>6 DEF TimerInv, Started

\* A call is sent, served or lost.
LEMMA CreateKeepsTimer ==
  ASSUME ClientInv, TimerInv, NEW n \in RoundIds,
         Starts(n) \/ ServeCreate(n) \/ RoundFails(n)
  PROVE  TimerInv'
<1>1. TypeOK /\ CallTimed(n) /\ CreateWell(n)
  BY DEF ClientInv, TimerInv
<1>2. clock' = clock /\ UNCHANGED <<roundId, roundMode, serverRemaining, armed,
                                    deadline>>
  BY DEF Starts, ServeCreate, RoundFails, session, timer
<1>3. CASE Starts(n)
  <2>1. PICK m \in RoundMode : creates' =
          [creates EXCEPT ![n] = [state |-> "sent", mode |-> m, remaining |-> Null]]
    BY <1>3 DEF Starts
  <2>2. /\ creates[n].state = "idle" /\ rounds' = rounds
        /\ creates'[n].remaining = Null
        /\ \A k \in RoundIds : k # n => creates'[k] = creates[k]
    BY <1>1, <1>3, <2>1 DEF Starts, TypeOK
  <2>3. CallTimed(n)'
    BY <1>1, <2>2 DEF CallTimed
  <2>4. QED
    BY <1>2, <2>2, <2>3, CallKeepsTimer
<1>4. CASE ServeCreate(n)
  <2>1. PICK d \in SprintDurations, l \in Latencies, size \in 1..DAILY_20_ROUND_SIZE :
          /\ rounds' = [rounds EXCEPT ![n] = start(creates[n].mode, clock, d, size)]
          /\ creates' = [creates EXCEPT ![n].state = "made", ![n].remaining =
               IF creates[n].mode = "SPRINT" THEN [duration |-> d, latency |-> l] ELSE Null]
    BY <1>4 DEF ServeCreate
  <2> DEFINE row == start(creates[n].mode, clock, d, size)
             left == [duration |-> d, latency |-> l]
             m == creates[n].mode
  <2>2. creates[n].state = "sent" /\ m \in RoundMode /\ clock \in Nat
    <3>1. creates[n].state = "sent" /\ m \in RoundMode
      BY <1>1, <1>4 DEF ServeCreate, CreateWell, InFlight
    <3>2. clock \in Nat
      BY <1>1, ClientConstants DEF TypeOK
    <3>3. QED
      BY <3>1, <3>2
  <2>3. /\ row \in Round /\ row.mode = m
        /\ m = "SPRINT" => row.started_at = clock /\ row.duration_seconds = d
    BY <2>2, StartRow
  <2>4. row # NoRound
    BY <2>3, ClientConstants
  <2>5. left \in Remaining /\ left.duration = d /\ left # Null
    BY ClientConstants DEF Remaining
  <2> HIDE DEF row, left, m
  <2>6. /\ rounds'[n] = row /\ \A k \in RoundIds : k # n => rounds'[k] = rounds[k]
    BY <1>1, <2>1 DEF TypeOK, row
  <2>7. /\ creates'[n].state = "made"
        /\ creates'[n].remaining = IF m = "SPRINT" THEN left ELSE Null
        /\ \A k \in RoundIds : k # n => creates'[k] = creates[k]
    BY <1>1, <2>1 DEF TypeOK, Create, left, m
  <2>8. CallTimed(n)'
    BY <1>2, <2>2, <2>3, <2>4, <2>5, <2>6, <2>7 DEF CallTimed
  <2>9. QED
    BY <1>2, <2>2, <2>6, <2>7, <2>8, CallKeepsTimer
<1>5. CASE RoundFails(n)
  <2>1. /\ InFlight(n) /\ rounds' = rounds
        /\ creates' = [creates EXCEPT ![n].state = "ended"]
    BY <1>5 DEF RoundFails, InFlight
  <2>2. /\ creates'[n].remaining = creates[n].remaining /\ creates'[n].state = "ended"
        /\ \A k \in RoundIds : k # n => creates'[k] = creates[k]
    BY <1>1, <2>1 DEF TypeOK, Create
  <2>3. CallTimed(n)'
    BY <1>1, <1>2, <2>1, <2>2 DEF CallTimed
  <2>4. QED
    BY <1>2, <2>1, <2>2, <2>3, CallKeepsTimer
<1>6. QED
  BY <1>3, <1>4, <1>5

\* The reply of createRound leaves the countdown to its effect.  If that was armed
\* for the value of the new round, another round was sent it.
LEMMA RoundReplyKeepsTimer ==
  ASSUME ClientInv, TimerInv, NEW n \in RoundIds, RoundReply(n)
  PROVE  TimerInv'
<1>1. /\ creates[n].state = "made" /\ roundId' = n /\ roundMode' = creates[n].mode
      /\ creates' = [creates EXCEPT ![n].state = "ended"]
      /\ serverRemaining' = creates[n].remaining
      /\ UNCHANGED <<clock, rounds, armed, deadline>>
  BY DEF RoundReply, timer
<1>2. TypeOK /\ CreateWell(n) /\ CallTimed(n) /\ n # 0
  BY DEF ClientInv, TimerInv, RoundIds
<1>3. /\ creates'[n].state = "ended" /\ creates'[n].remaining = creates[n].remaining
      /\ \A k \in RoundIds : k # n => creates'[k] = creates[k]
  BY <1>1, <1>2 DEF TypeOK, Create
<1>4. ASSUME NEW k \in RoundIds PROVE CallTimed(k)'
  <2>1. CallTimed(k)
    BY DEF TimerInv
  <2>2. QED
    BY <1>1, <1>3, <2>1 DEF CallTimed
<1>5. (serverRemaining = IF Started THEN creates[roundId].remaining ELSE Null)'
  BY <1>1, <1>2, <1>3 DEF Started
<1>6. armed = Null \/
        \E k \in RoundIds \ {n} : creates'[k].state = "ended" /\ creates'[k].remaining = armed
  BY <1>1, <1>3 DEF TimerInv
<1>7. CountdownCoversRound'
  <2>1. SUFFICES ASSUME roundMode' = "SPRINT", armed = serverRemaining' PROVE SentTwice'
    BY <1>1 DEF CountdownCoversRound
  <2>2. creates[n].remaining # Null
    BY <1>1, <1>2, <2>1 DEF CreateWell, CallTimed
  <2>3. PICK k \in RoundIds \ {n} : creates'[k].remaining = armed
    BY <1>1, <1>6, <2>1, <2>2
  <2>4. QED
    BY <1>1, <2>1, <2>3 DEF SentTwice
<1>8. armed' = Null \/
        \E k \in RoundIds : creates'[k].state = "ended" /\ creates'[k].remaining = armed'
  BY <1>1, <1>6
<1>9. QED
  BY <1>4, <1>5, <1>7, <1>8 DEF TimerInv

\* The effect arms the countdown for what is on the screen.
LEMMA EffectKeepsTimer ==
  ASSUME ClientInv, TimerInv, useSprintCountdown
  PROVE  TimerInv'
<1>1. /\ armed' = serverRemaining
      /\ deadline' = IF serverRemaining = Null THEN Null
                     ELSE clock + serverRemaining.duration
      /\ UNCHANGED <<clock, rounds, creates, roundId, roundMode, serverRemaining>>
  BY DEF useSprintCountdown, server, session
<1>2. ASSUME NEW k \in RoundIds PROVE CallTimed(k)'
  <2>1. CallTimed(k)
    BY DEF TimerInv
  <2>2. QED
    BY <1>1, <2>1 DEF CallTimed
<1>3. armed' = Null \/
        \E k \in RoundIds : creates'[k].state = "ended" /\ creates'[k].remaining = armed'
  BY <1>1 DEF TimerInv, ClientInv, SessionWell, TypeOK, Started
<1>4. CountdownCoversRound'
  <2>1. SUFFICES ASSUME roundMode = "SPRINT"
                 PROVE  /\ deadline' # Null
                        /\ deadline' >= rounds[roundId].started_at
                                          + rounds[roundId].duration_seconds
    BY <1>1 DEF CountdownCoversRound
  <2>2. /\ serverRemaining # Null /\ serverRemaining \in Remaining
        /\ rounds[roundId] \in Round
        /\ serverRemaining.duration = rounds[roundId].duration_seconds
        /\ rounds[roundId].started_at <= clock
    BY <2>1, SprintSession
  <2>3. /\ serverRemaining.duration \in Nat /\ rounds[roundId].started_at \in Nat
        /\ clock \in Nat /\ Null \notin Nat
    BY <2>2, RoundConstants, ClientConstants DEF Remaining, Round, ClientInv, TypeOK
  <2>4. deadline' = clock + serverRemaining.duration
    BY <1>1, <2>2
  <2>5. QED
    BY <2>2, <2>3, <2>4
<1>5. QED
  BY <1>1, <1>2, <1>3, <1>4 DEF TimerInv, Started

\* No round, no countdown.
LEMMA InitTimer ==
  ASSUME Init
  PROVE  TimerInv
BY DEF Init, TimerInv, CallTimed, Started, CountdownCoversRound

\* A submission on its way keeps the countdown, whatever is recorded of it.
LEMMA PostKeepsTimer ==
  ASSUME ClientInv, TimerInv, NEW q \in Req, NEW v \in Verdict,
         \/ Submits(q) \/ ServeCommit(q) \/ CommitFails(q) \/ ServeError(q)
         \/ ServePlain(q, v) \/ ServeGraded(q, v) \/ Graded(q) \/ Failed(q) \/ Break(q)
  PROVE  TimerInv'
<1>1. /\ clock' = clock
      /\ UNCHANGED <<creates, roundId, roundMode, serverRemaining, armed, deadline>>
  BY DEF Submits, ServeCommit, CommitFails, ServeError, ServePlain, ServeGraded, Graded,
         Failed, Break, server, session, timer
<1>2. \/ rounds' = rounds
      \/ ServePlain(q, v) /\ posts[q].state = "sent" /\ rounds' = Recorded(q, v)
      \/ ServeCommit(q) /\ posts[q].state = "shown" /\ rounds' = Recorded(q, posts[q].verdict)
  BY DEF Submits, ServeCommit, CommitFails, ServeError, ServePlain, ServeGraded, Gradable,
         Graded, Failed, Break, server
<1>3. PICK w \in Verdict :
        \/ rounds' = rounds
        \/ posts[q].state \in {"sent", "shown"} /\ rounds' = Recorded(q, w)
  <2>1. posts[q].state = "shown" => posts[q].verdict \in Verdict
    BY DEF ClientInv, PostWell
  <2>2. QED
    BY <1>2, <2>1
<1>4. /\ \A k \in RoundIds :
           rounds[k] # NoRound =>
             /\ rounds'[k] # NoRound /\ rounds'[k].mode = rounds[k].mode
             /\ rounds'[k].started_at = rounds[k].started_at
             /\ rounds'[k].duration_seconds = rounds[k].duration_seconds
      /\ \A k \in RoundIds : k # posts[q].round => rounds'[k] = rounds[k]
  BY <1>3, RowsKept
<1>5. ASSUME NEW k \in RoundIds, rounds[k] = NoRound PROVE rounds'[k] = NoRound
  <2>1. CASE posts[q].state = "idle"
    BY <1>3, <1>5, <2>1
  <2>2. CASE posts[q].state # "idle"
    <3>1. posts[q].round # k
      BY <1>5, <2>2 DEF ClientInv, PostWell
    <3>2. QED
      BY <1>4, <1>5, <3>1
  <2>3. QED
    BY <2>1, <2>2
<1>6. clock \in Nat
  BY ClientConstants DEF ClientInv, TypeOK
<1>7. clock' >= clock /\ clock' \in Nat
  BY <1>1, <1>6
<1>8. QED
  BY <1>1, <1>4, <1>5, <1>7, TimerKept

\* Every step keeps TimerInv.
LEMMA NextKeepsTimer ==
  ASSUME ClientInv, TimerInv, Next
  PROVE  TimerInv'
<1>1. TypeOK /\ SessionWell /\ clock \in Nat
  BY ClientConstants DEF ClientInv, TypeOK
<1>2. ASSUME Loads \/ SeesResults \/ Type \/ Tick
             \/ \E r \in RoundIds : TermReply(r) \/ TermFails(r)
      PROVE  TimerInv'
  <2>1. /\ clock' \in {clock, clock + 1}
        /\ UNCHANGED <<rounds, creates, roundId, roundMode, serverRemaining, armed,
                       deadline>>
    BY <1>2 DEF Loads, SeesResults, Type, Tick, TermReply, TermFails, server, session, timer
  <2>2. clock' >= clock /\ clock' \in Nat
    BY <1>1, <2>1
  <2>3. QED
    BY <2>1, <2>2, TimerKept
<1>3. "CORRECT" \in Verdict /\ Verdicts \subseteq Verdict
  BY ClientConstants DEF Verdict
<1>4. CASE Player
  BY <1>1, <1>2, <1>3, <1>4, PlayerSteps, CreateKeepsTimer, PostKeepsTimer
<1>5. CASE Server
  BY <1>3, <1>5, CreateKeepsTimer, PostKeepsTimer DEF Server
<1>6. CASE Network
  BY <1>2, <1>3, <1>6, CreateKeepsTimer, RoundReplyKeepsTimer, PostKeepsTimer DEF Network
<1>7. QED
  BY <1>2, <1>4, <1>5, <1>6, EffectKeepsTimer DEF Next

-----------------------------------------------------------------------------
(* ScreenInv: what a disabled form or an empty screen still waits for.     *)

\* Something is to come of q that ends the wait, unless its stream broke off.
Owed(q) ==
  \/ posts[q].stream /\ posts[q].broken
  \/ posts[q].wire # << >>
  \/ posts[q].state = "sent" /\ ~posts[q].broken

ScreenInv ==
  /\ loading => \E q \in Req : Owed(q)
  /\ Started /\ term = 0 =>
       loads # {} \/ error = "load" \/ \E n \in RoundIds : InFlight(n)
  /\ term = 0 => \A q \in Req : posts[q].state = "idle"

\* With nothing under way nothing is owed, so the screen has to offer a control.
LEMMA NeverStuckFromScreen ==
  ASSUME TypeOK, ScreenInv
  PROVE  NeverStuck
<1>1. SUFFICES ASSUME AtRest, ~CutOff
               PROVE  ~loading /\ (StartButton \/ RetryWorks \/ ResultPanel \/ Summary \/ Form)
  BY DEF NeverStuck
<1>2. \A q \in Req : ~Owed(q)
  BY <1>1 DEF AtRest, Active, CutOff, Owed
<1>3. ~loading
  BY <1>2 DEF ScreenInv
<1>4. ~Started \/ term # 0 \/ error = "load"
  BY <1>1 DEF ScreenInv, AtRest, InFlight
<1>5. QED
  BY <1>3, <1>4 DEF StartButton, RetryWorks, ResultPanel, Summary, Form

\* A page that was just loaded waits for nothing.
LEMMA InitScreen ==
  ASSUME Init
  PROVE  ScreenInv
BY DEF Init, ScreenInv, Started

\* A step of the server or the network on one submission.
LEMMA PostKeepsScreen ==
  ASSUME ClientInv, ScreenInv, NEW q \in Req, posts[q].state # "idle",
         \A o \in Req : o # q => posts'[o] = posts[o],
         Owed(q) => Owed(q)' \/ ~loading',
         loading' \in {loading, FALSE}, term' = term
  PROVE  ScreenInv'
<1>1. term # 0
  BY DEF ScreenInv
<1>2. loading' => \E o \in Req : Owed(o)'
  <2>1. SUFFICES ASSUME loading' PROVE \E o \in Req : Owed(o)'
    OBVIOUS
  <2>2. PICK o \in Req : Owed(o)
    BY <2>1 DEF ScreenInv
  <2>3. CASE o = q
    BY <2>1, <2>2, <2>3
  <2>4. CASE o # q
    BY <2>2, <2>4 DEF Owed
  <2>5. QED
    BY <2>3, <2>4
<1>3. QED
  BY <1>1, <1>2 DEF ScreenInv

\* An answer of the server to a submission is a frame, or its stream broke.
LEMMA ServedKeepsScreen ==
  ASSUME ClientInv, ScreenInv, NEW q \in Req, NEW v \in Verdict,
         ServePlain(q, v) \/ ServeGraded(q, v) \/ ServeError(q)
  PROVE  ScreenInv'
<1>1. TypeOK /\ PostWell(q) /\ posts[q].state = "sent"
  BY DEF ClientInv, ServePlain, ServeGraded, ServeError, Gradable
<1>2. posts \in [Req -> Post] /\ posts[q] \in Post
  BY <1>1 DEF TypeOK
<1>3. PICK f \in {"graded", "error"} :
        /\ posts'[q].wire = Send(q, f) /\ posts'[q].stream = posts[q].stream
        /\ posts'[q].broken = posts[q].broken
        /\ \A o \in Req : o # q => posts'[o] = posts[o]
  <2>1. CASE ServePlain(q, v)
    <3>1. posts' = [posts EXCEPT ![q] =
            [@ EXCEPT !.state = "ended", !.term = 0, !.verdict = v, !.wire = Send(q, "graded")]]
      BY <2>1 DEF ServePlain
    <3>2. QED
      BY <1>2, <3>1 DEF Post
  <2>2. CASE ServeGraded(q, v)
    <3>1. posts' = [posts EXCEPT ![q] =
            [@ EXCEPT !.state = "shown", !.verdict = v, !.wire = Send(q, "graded")]]
      BY <2>2 DEF ServeGraded
    <3>2. QED
      BY <1>2, <3>1 DEF Post
  <2>3. CASE ServeError(q)
    <3>1. posts' = [posts EXCEPT ![q] =
            [@ EXCEPT !.state = "ended", !.term = 0, !.wire = Send(q, "error")]]
      BY <2>3 DEF ServeError
    <3>2. QED
      BY <1>2, <3>1 DEF Post
  <2>4. QED
    BY <2>1, <2>2, <2>3
<1>4. loading' = loading /\ term' = term
  BY DEF ServePlain, ServeGraded, ServeError, screen
<1>5. Owed(q) => Owed(q)'
  BY <1>1, <1>3, SendType DEF Owed
<1>6. QED
  BY <1>1, <1>3, <1>4, <1>5, PostKeepsScreen

\* A commit leaves the wire; a frame taken ends the wait; a broken plain call
\* comes back as an error.
LEMMA OtherPostsKeepScreen ==
  ASSUME ClientInv, ScreenInv, NEW q \in Req,
         ServeCommit(q) \/ CommitFails(q) \/ Graded(q) \/ Failed(q) \/ Break(q)
  PROVE  ScreenInv'
<1>1. TypeOK /\ PostWell(q) /\ posts[q] \in Post
  BY DEF ClientInv, TypeOK
<1>2. CASE ServeCommit(q) \/ CommitFails(q)
  <2>1. /\ posts' = [posts EXCEPT ![q].state = "ended", ![q].term = 0]
        /\ posts[q].state = "shown" /\ loading' = loading /\ term' = term
    BY <1>2 DEF ServeCommit, CommitFails, screen
  <2>2. /\ posts'[q].wire = posts[q].wire /\ posts'[q].stream = posts[q].stream
        /\ posts'[q].broken = posts[q].broken
        /\ \A o \in Req : o # q => posts'[o] = posts[o]
    BY <1>1, <2>1 DEF TypeOK, Post
  <2>3. QED
    BY <2>1, <2>2, PostKeepsScreen DEF Owed
<1>3. CASE Graded(q) \/ Failed(q)
  <2>1. /\ posts[q].wire # << >> /\ posts' = [posts EXCEPT ![q].wire = Tail(@)]
        /\ loading' = FALSE /\ term' = term
    BY <1>3 DEF Graded, Failed, Takes
  <2>2. \A o \in Req : o # q => posts'[o] = posts[o]
    BY <1>1, <2>1 DEF TypeOK
  <2>3. QED
    BY <1>1, <2>1, <2>2, PostKeepsScreen DEF PostWell
<1>4. CASE Break(q)
  <2>1. /\ posts' = [posts EXCEPT ![q].broken = TRUE,
              ![q].wire = IF posts[q].stream THEN << >> ELSE <<"error">>]
        /\ loading' = loading /\ term' = term /\ Active(q)
    BY <1>4 DEF Break, screen
  <2>2. /\ posts'[q].wire = IF posts[q].stream THEN << >> ELSE <<"error">>
        /\ posts'[q].stream = posts[q].stream /\ posts'[q].broken
        /\ \A o \in Req : o # q => posts'[o] = posts[o]
    BY <1>1, <2>1 DEF TypeOK, Post
  <2>3. posts[q].state # "idle"
    BY <1>1, <2>1 DEF PostWell, Active
  <2>4. Owed(q)'
    BY <2>2, WireFacts DEF Owed
  <2>5. QED
    BY <2>1, <2>2, <2>3, <2>4, PostKeepsScreen
<1>5. QED
  BY <1>2, <1>3, <1>4

\* Every step keeps ScreenInv.
LEMMA NextKeepsScreen ==
  ASSUME ClientInv, ScreenInv, Next
  PROVE  ScreenInv'
<1>1. TypeOK /\ SessionWell
  BY DEF ClientInv
<1>2. ASSUME NEW n \in RoundIds, Starts(n) PROVE ScreenInv'
  <2>1. /\ creates'[n].state = "sent"
        /\ UNCHANGED <<loads, posts, term, loading>> /\ roundId' = roundId
    BY <1>1, <1>2 DEF Starts, TypeOK, session, timer
  <2>2. InFlight(n)'
    BY <2>1 DEF InFlight
  <2>3. QED
    BY <2>1, <2>2 DEF ScreenInv, Owed
<1>3. CASE Loads
  <2>1. loads' # {} /\ UNCHANGED <<posts, term, loading>>
    BY <1>3 DEF Loads, loadTerm
  <2>2. QED
    BY <2>1 DEF ScreenInv, Owed
<1>4. CASE SeesResults \/ Type \/ Tick \/ useSprintCountdown
  <2>1. UNCHANGED <<loads, posts, term, loading, creates, error>> /\ roundId' = roundId
    BY <1>4 DEF SeesResults, Type, Tick, useSprintCountdown, server, session, screen
  <2>2. QED
    BY <2>1 DEF ScreenInv, Owed, InFlight, Started
<1>5. ASSUME NEW q \in Req, Submits(q) PROVE ScreenInv'
  <2>1. PICK llm \in BOOLEAN : posts' = [posts EXCEPT ![q] =
          [@ EXCEPT !.state = "sent", !.round = roundId, !.term = term, !.stream = llm]]
    BY <1>5 DEF Submits
  <2>2. term # 0 /\ term' = term /\ posts[q].state = "idle" /\ PostWell(q)
    BY <1>5 DEF Submits, ClientInv
  <2>3. posts'[q].state = "sent" /\ posts'[q].broken = posts[q].broken
    BY <1>1, <2>1 DEF TypeOK, Post
  <2>4. Owed(q)'
    BY <2>2, <2>3 DEF Owed, PostWell
  <2>5. QED
    BY <2>2, <2>4 DEF ScreenInv
<1>6. ASSUME NEW n \in RoundIds, ServeCreate(n) PROVE ScreenInv'
  <2>1. PICK d \in SprintDurations, l \in Latencies :
          creates' = [creates EXCEPT ![n].state = "made", ![n].remaining =
             IF creates[n].mode = "SPRINT" THEN [duration |-> d, latency |-> l] ELSE Null]
    BY <1>6 DEF ServeCreate
  <2>2. UNCHANGED <<loads, posts, term, loading, error>> /\ roundId' = roundId
    BY <1>6 DEF ServeCreate, session, timer, screen
  <2>3. creates'[n].state = "made"
    BY <1>1, <2>1 DEF TypeOK, Create
  <2>4. InFlight(n)'
    BY <2>3 DEF InFlight
  <2>5. QED
    BY <2>2, <2>4 DEF ScreenInv, Owed
<1>7. ASSUME NEW n \in RoundIds, RoundReply(n) \/ RoundFails(n) PROVE ScreenInv'
  <2>1. UNCHANGED <<posts, term, loading>> /\ (loads' # {} \/ error' = "load")
    BY <1>7 DEF RoundReply, RoundFails, loadTerm
  <2>2. QED
    BY <2>1 DEF ScreenInv, Owed
<1>8. ASSUME NEW n \in RoundIds, TermReply(n) \/ TermFails(n) PROVE ScreenInv'
  <2>1. /\ UNCHANGED <<posts, loading>>
        /\ \/ term' # 0
           \/ term' = term /\ error' = "load"
    BY <1>8 DEF TermReply, TermFails, RoundIds
  <2>2. QED
    BY <2>1 DEF ScreenInv, Owed
<1>9. CASE Player
  BY <1>1, <1>2, <1>3, <1>4, <1>5, <1>9, PlayerSteps
<1>10. CASE Server
  <2>1. Verdicts \subseteq Verdict /\ "CORRECT" \in Verdict
    BY ClientConstants DEF Verdict
  <2>2. QED
    BY <1>6, <1>10, <2>1, ServedKeepsScreen, OtherPostsKeepScreen DEF Server
<1>11. CASE Network
  BY <1>7, <1>8, <1>11, OtherPostsKeepScreen DEF Network
<1>12. QED
  BY <1>4, <1>9, <1>10, <1>11 DEF Next

-----------------------------------------------------------------------------
(* CalmInv: one thing at a time, and the count against the log.            *)

\* Whose answers a log has, in order.
By(log) == [i \in DOMAIN log |-> log[i].by]
Seen(q) == posts[q].wire = <<"graded">>
Uncommitted(q) == posts[q].state = "shown"

\* The count of the client against the log B of its round: the grade that was
\* sent is one ahead of it, or one behind, until both sides have it.
Counted(B) ==
  /\ (\A q \in Req : ~Active(q)) => answers = B
  /\ \A q \in Req : Active(q) =>
       /\ (Seen(q) <=> Uncommitted(q)) => answers = B
       /\ Seen(q) /\ ~Uncommitted(q) => B = Append(answers, q)
       /\ ~Seen(q) /\ Uncommitted(q) => answers = Append(B, q)

\* A call of createRound that nothing else is under way with.
CallAlone(n) ==
  /\ loads = {} /\ result = NoReq /\ error = "none" /\ answers = << >>
  /\ \A q \in Req : ~Active(q)
  /\ \A k \in RoundIds : InFlight(k) => k = n

CalmInv == calm =>
  /\ \A q \in Req : ~posts[q].broken
  /\ \A n \in RoundIds : InFlight(n) => CallAlone(n)
  /\ \A o, q \in Req : Active(o) /\ Active(q) => o = q
  /\ \A q \in Req : Active(q) => posts[q].round = roundId
  /\ Started /\ (\A n \in RoundIds : ~InFlight(n)) => Counted(By(rounds[roundId].answers))

\* By goes with Append.
LEMMA ByAppend ==
  ASSUME NEW log \in Seq(SubmittedAnswer), NEW a \in SubmittedAnswer
  PROVE  /\ By(log) \in Seq(Req) /\ By(Append(log, a)) = Append(By(log), a.by)
         /\ Len(By(log)) = Len(log)
<1>1. \A i \in 1..Len(log) : log[i].by \in Req
  <2>1. \A i \in 1..Len(log) : log[i] \in SubmittedAnswer
    OBVIOUS
  <2>2. QED
    BY <2>1 DEF SubmittedAnswer
<1>2. By(log) = [i \in 1..Len(log) |-> log[i].by]
  <2>1. DOMAIN log = 1..Len(log)
    OBVIOUS
  <2>2. QED
    BY <2>1 DEF By
<1>3. By(log) \in Seq(Req) /\ Len(By(log)) = Len(log)
  <2>1. By(log) \in [1..Len(log) -> Req] /\ Len(log) \in Nat
    BY <1>1, <1>2
  <2> HIDE DEF By
  <2>2. QED
    BY <2>1
<1>4. By(Append(log, a)) = [i \in 1..(Len(log) + 1) |-> Append(log, a)[i].by]
  BY DEF By
<1>5. Append(By(log), a.by) = [i \in 1..(Len(log) + 1) |->
        IF i = Len(log) + 1 THEN a.by ELSE By(log)[i]]
  BY <1>3
<1>6. \A i \in 1..(Len(log) + 1) :
        Append(log, a)[i].by = IF i = Len(log) + 1 THEN a.by ELSE By(log)[i]
  BY <1>2
<1>7. QED
  BY <1>3, <1>4, <1>5, <1>6

\* The count is the log, so both sides agree on the end of the round.
LEMMA InSyncFromCalm ==
  ASSUME ClientInv, TimerInv, CalmInv
  PROVE  InSync
<1>1. TypeOK /\ SessionWell
  BY DEF ClientInv
<1>2. CountdownCoversRound
  BY DEF TimerInv
<1>3. ASSUME calm, AtRest, Started
      PROVE  /\ answers = [i \in DOMAIN rounds[roundId].answers |-> rounds[roundId].answers[i].by]
             /\ roundMode \in {"SURVIVAL", "BOSS", "DAILY_20"} =>
                  (roundComplete <=> is_over(rounds[roundId], clock))
  <2> DEFINE rd == rounds[roundId]
  <2>1. /\ rd \in Round /\ roundMode = rd.mode /\ rd # NoRound
        /\ roundMode = "DAILY_20" => dailyTermCount = rd.daily_size
        /\ roundId \in RoundIds
    BY <1>1, <1>3 DEF TypeOK, SessionWell, Started
  <2>2. answers = By(rd.answers)
    BY <1>3 DEF CalmInv, Counted, AtRest, InFlight
  <2> HIDE DEF rd
  <2>3. /\ rd.answers \in Seq(SubmittedAnswer) /\ rd.daily_size \in Nat /\ rd.daily_size # Null
    BY <2>1, ClientConstants DEF Round
  <2>4. Len(answers) = Len(rd.answers) /\ DOMAIN answers = DOMAIN rd.answers
    BY <2>2, <2>3 DEF By
  <2>5. Lost = IncorrectAt(rd.answers)
    <3>1. ASSUME NEW i \in DOMAIN rd.answers
          PROVE  posts[answers[i]].verdict = rd.answers[i].verdict
      BY <2>1, <2>2, <3>1 DEF ClientInv, RowAnswered, By, rd
    <3>2. QED
      BY <2>4, <3>1 DEF Lost, IncorrectAt
  <2>6. roundMode \in {"SURVIVAL", "BOSS", "DAILY_20"} => (roundComplete <=> is_over(rd, clock))
    <3>1. CASE roundMode = "SURVIVAL"
      BY <2>1, <2>5, <3>1 DEF roundComplete, is_over, is_expired, OutOfLives
    <3>2. CASE roundMode = "BOSS"
      BY <2>1, <2>4, <3>2, BossIsOneAnswer DEF roundComplete, is_over, is_expired
    <3>3. CASE roundMode = "DAILY_20"
      BY <2>1, <2>3, <2>4, <3>3 DEF roundComplete, is_over, is_expired
    <3>4. QED
      BY <3>1, <3>2, <3>3
  <2>7. QED
    BY <2>2, <2>6 DEF By, rd
<1>4. QED
  BY <1>2, <1>3 DEF InSync

\* Nothing is under way on a page that was just loaded.
LEMMA InitCalm ==
  ASSUME Init
  PROVE  CalmInv
BY DEF Init, CalmInv, Started, InFlight, Active

\* Nothing is under way: the count is the log.
LEMMA CalmAtRest ==
  ASSUME CalmInv, calm, AtRest, Started
  PROVE  answers = By(rounds[roundId].answers)
BY DEF CalmInv, AtRest, InFlight, Counted

\* A step that no submission and no call of createRound takes part in.
LEMMA QuietKeepsCalm ==
  ASSUME CalmInv, calm' => calm,
         UNCHANGED <<rounds, posts, creates, roundId, answers>>,
         \A n \in RoundIds : ~InFlight(n)
           \/ (loads' = loads /\ result' \in {result, NoReq} /\ error' = error)
  PROVE  CalmInv'
<1> SUFFICES ASSUME calm' PROVE CalmInv'
  BY DEF CalmInv
<1>1. /\ \A q \in Req : Active(q)' <=> Active(q)
      /\ \A n \in RoundIds : InFlight(n)' <=> InFlight(n)
      /\ \A q \in Req : Seen(q)' <=> Seen(q)
      /\ \A q \in Req : Uncommitted(q)' <=> Uncommitted(q)
  BY DEF Active, InFlight, Seen, Uncommitted
<1>2. \A q \in Req : ~posts'[q].broken
  BY DEF CalmInv
<1>3. ASSUME NEW n \in RoundIds, InFlight(n)' PROVE CallAlone(n)'
  BY <1>1, <1>3 DEF CalmInv, CallAlone
<1>4. Started /\ (\A n \in RoundIds : ~InFlight(n)) => Counted(By(rounds[roundId].answers))
  BY DEF CalmInv
<1>5. (Started /\ (\A n \in RoundIds : ~InFlight(n)) => Counted(By(rounds[roundId].answers)))'
  BY <1>1, <1>4 DEF Counted, Started, By
<1>6. QED
  BY <1>1, <1>2, <1>3, <1>5 DEF CalmInv

\* A calm player asks for a round when nothing else is under way.
LEMMA StartsKeepsCalm ==
  ASSUME ClientInv, CalmInv, NEW n \in RoundIds, Starts(n)
  PROVE  CalmInv'
<1> SUFFICES ASSUME calm' PROVE CalmInv'
  BY DEF CalmInv
<1>1. /\ calm /\ AtRest
      /\ UNCHANGED <<clock, rounds, loads, posts, term, answer, result, loading>>
      /\ error' = "none" /\ roundId' = roundId
      /\ \/ answers' = answers /\ ~Started
         \/ answers' = << >> /\ Summary
  BY DEF Starts, session, timer
<1>2. /\ creates'[n].state = "sent" /\ \A k \in RoundIds : k # n => creates'[k] = creates[k]
  BY DEF Starts, ClientInv, TypeOK
<1>3. loads' = {} /\ \A q \in Req : ~Active(q)'
  BY <1>1 DEF AtRest, Active
<1>4. answers' = << >> /\ result' = NoReq
  BY <1>1 DEF ClientInv, SessionWell, Summary
<1>5. \A k \in RoundIds : InFlight(k)' <=> k = n
  BY <1>1, <1>2 DEF AtRest, InFlight
<1>6. CallAlone(n)'
  BY <1>1, <1>3, <1>4, <1>5 DEF CallAlone
<1>7. \A q \in Req : ~posts'[q].broken
  BY <1>1 DEF CalmInv
<1>8. QED
  BY <1>3, <1>5, <1>6, <1>7 DEF CalmInv

\* A calm player submits when nothing else is under way.
LEMMA SubmitsKeepsCalm ==
  ASSUME ClientInv, CalmInv, NEW q \in Req, Submits(q)
  PROVE  CalmInv'
<1> SUFFICES ASSUME calm' PROVE CalmInv'
  BY DEF CalmInv
<1>1. /\ calm /\ AtRest /\ Started /\ posts[q].state = "idle"
      /\ UNCHANGED <<clock, rounds, creates, loads, roundId, answers>>
  BY DEF Submits, server, session, timer
<1>2. PICK llm \in BOOLEAN : posts' = [posts EXCEPT ![q] =
         [@ EXCEPT !.state = "sent", !.round = roundId, !.term = term, !.stream = llm]]
  BY DEF Submits
<1>3. TypeOK /\ PostWell(q)
  BY DEF ClientInv
<1>4. /\ posts'[q].state = "sent" /\ posts'[q].round = roundId
      /\ posts'[q].wire = << >> /\ ~posts'[q].broken
      /\ \A o \in Req : o # q => posts'[o] = posts[o]
  BY <1>1, <1>2, <1>3 DEF TypeOK, Post, PostWell
<1>5. \A o \in Req : Active(o)' <=> o = q
  BY <1>1, <1>4 DEF AtRest, Active
<1>6. \A k \in RoundIds : ~InFlight(k)'
  BY <1>1 DEF AtRest, InFlight
<1>7. answers' = By(rounds'[roundId'].answers)
  BY <1>1, CalmAtRest DEF By
<1>8. ~Seen(q)' /\ ~Uncommitted(q)'
  BY <1>4, WireFacts DEF Seen, Uncommitted
<1>9. Counted(By(rounds[roundId].answers))'
  BY <1>5, <1>7, <1>8 DEF Counted
<1>10. \A o \in Req : ~posts'[o].broken
  BY <1>1, <1>4 DEF CalmInv
<1>11. QED
  BY <1>1, <1>4, <1>5, <1>6, <1>9, <1>10 DEF CalmInv

\* The round the server creates is not the session's yet.
LEMMA ServeCreateKeepsCalm ==
  ASSUME ClientInv, CalmInv, NEW n \in RoundIds, ServeCreate(n)
  PROVE  CalmInv'
<1> SUFFICES ASSUME calm' PROVE CalmInv'
  BY DEF CalmInv
<1>1. PICK d \in SprintDurations, l \in Latencies :
        creates' = [creates EXCEPT ![n].state = "made", ![n].remaining =
             IF creates[n].mode = "SPRINT" THEN [duration |-> d, latency |-> l] ELSE Null]
  BY DEF ServeCreate
<1>2. /\ UNCHANGED <<loads, posts, result, answers, error, calm>>
      /\ roundId' = roundId /\ creates[n].state = "sent"
  BY DEF ServeCreate, session, timer, screen
<1>3. creates'[n].state = "made" /\ \A k \in RoundIds : k # n => creates'[k] = creates[k]
  BY <1>1 DEF ClientInv, TypeOK, Create
<1>4. InFlight(n) /\ \A k \in RoundIds : InFlight(k)' <=> InFlight(k)
  BY <1>2, <1>3 DEF InFlight
<1>5. \A q \in Req : Active(q)' <=> Active(q)
  BY <1>2 DEF Active
<1>6. ASSUME NEW k \in RoundIds, InFlight(k)' PROVE CallAlone(k)'
  BY <1>2, <1>4, <1>5, <1>6 DEF CalmInv, CallAlone
<1>7. QED
  BY <1>2, <1>4, <1>5, <1>6 DEF CalmInv

\* A new session begins with no answers on either side.
LEMMA CreateEndsKeepsCalm ==
  ASSUME ClientInv, CalmInv, NEW n \in RoundIds, RoundReply(n) \/ RoundFails(n)
  PROVE  CalmInv'
<1> SUFFICES ASSUME calm' PROVE CalmInv'
  BY DEF CalmInv
<1>1. /\ InFlight(n) /\ calm
      /\ creates' = [creates EXCEPT ![n].state = "ended"]
      /\ UNCHANGED <<rounds, posts, answers>>
  BY DEF RoundReply, RoundFails, InFlight
<1>2. creates'[n].state = "ended" /\ \A k \in RoundIds : k # n => creates'[k] = creates[k]
  BY <1>1 DEF ClientInv, TypeOK
<1>3. CallAlone(n)
  BY <1>1 DEF CalmInv
<1>4. \A k \in RoundIds : ~InFlight(k)'
  BY <1>2, <1>3 DEF CallAlone, InFlight
<1>5. \A q \in Req : ~Active(q)'
  BY <1>1, <1>3 DEF CallAlone, Active
<1>6. Started' => answers' = By(rounds'[roundId'].answers)
  <2>1. CASE RoundReply(n)
    <3>1. roundId' = n /\ creates[n].state = "made"
      BY <2>1 DEF RoundReply
    <3>2. rounds[n].answers = << >>
      BY <3>1 DEF ClientInv, CreateWell
    <3>3. By(<< >>) = << >>
      BY DEF By
    <3>4. QED
      BY <1>1, <1>3, <3>1, <3>2, <3>3 DEF CallAlone
  <2>2. CASE RoundFails(n)
    BY <2>2 DEF RoundFails, session, timer, Started
  <2>3. QED
    BY <2>1, <2>2
<1>7. Started' => Counted(By(rounds[roundId].answers))'
  BY <1>5, <1>6 DEF Counted
<1>8. \A q \in Req : ~posts'[q].broken
  BY <1>1 DEF CalmInv
<1>9. QED
  BY <1>4, <1>5, <1>7, <1>8 DEF CalmInv

\* A step of the submission that is under way.
LEMMA PostKeepsCalm ==
  ASSUME CalmInv, calm', calm, NEW q \in Req, Active(q), Started,
         UNCHANGED <<creates, roundId>>,
         \A o \in Req : o # q => posts'[o] = posts[o],
         posts'[q].broken = posts[q].broken, posts'[q].round = posts[q].round,
         Counted(By(rounds[roundId].answers)) => Counted(By(rounds[roundId].answers))'
  PROVE  CalmInv'
<1>1. \A n \in RoundIds : ~InFlight(n)
  BY DEF CalmInv, CallAlone
<1>2. \A n \in RoundIds : ~InFlight(n)'
  BY <1>1 DEF InFlight
<1>3. Counted(By(rounds[roundId].answers))'
  BY <1>1 DEF CalmInv
<1>4. \A o \in Req : Active(o)' => o = q
  BY DEF CalmInv, Active
<1>5. /\ \A o \in Req : ~posts'[o].broken
      /\ posts'[q].round = roundId'
  BY DEF CalmInv
<1>6. QED
  BY <1>2, <1>3, <1>4, <1>5 DEF CalmInv

\* Recorded and sent: the client is one behind.
LEMMA ServePlainKeepsCalm ==
  ASSUME ClientInv, CalmInv, NEW q \in Req, NEW v \in Verdict, ServePlain(q, v)
  PROVE  CalmInv'
<1> SUFFICES ASSUME calm' PROVE CalmInv'
  BY DEF CalmInv
<1>1. /\ calm /\ Active(q) /\ posts[q].state = "sent" /\ rounds' = Recorded(q, v)
      /\ UNCHANGED <<creates, answers>> /\ roundId' = roundId
  BY DEF ServePlain, Gradable, session, timer, screen, Active
<1>2. TypeOK /\ PostWell(q) /\ ~posts[q].broken /\ posts[q].round = roundId
  BY <1>1 DEF ClientInv, CalmInv
<1>3. posts[q].wire = << >> /\ Send(q, "graded") = <<"graded">>
  BY <1>1, <1>2, SendType DEF PostWell
<1>4. posts' = [posts EXCEPT ![q] =
        [@ EXCEPT !.state = "ended", !.term = 0, !.verdict = v, !.wire = <<"graded">>]]
  BY <1>3 DEF ServePlain
<1>5. /\ posts'[q].state = "ended" /\ posts'[q].wire = <<"graded">>
      /\ posts'[q].broken = posts[q].broken /\ posts'[q].round = posts[q].round
      /\ \A o \in Req : o # q => posts'[o] = posts[o]
  BY <1>2, <1>4 DEF TypeOK, Post
<1>6. Started
  BY <1>1, SessionOf
<1>7. By(rounds'[roundId].answers) = Append(By(rounds[roundId].answers), q)
  <2>1. /\ rounds[roundId] \in Round
        /\ \E a \in SubmittedAnswer :
             /\ a.by = q /\ a.verdict = v
             /\ rounds'[roundId].answers = Append(rounds[roundId].answers, a)
    BY <1>1, <1>2, RecordedRow
  <2>2. QED
    BY <2>1, ByAppend DEF Round
<1>8. \A o \in Req : Active(o) => o = q
  BY <1>1 DEF CalmInv
<1>9. \A o \in Req : Active(o)' <=> o = q
  BY <1>5, <1>8, WireFacts DEF Active
<1>10. Counted(By(rounds[roundId].answers)) => Counted(By(rounds[roundId].answers))'
  <2>1. SUFFICES ASSUME Counted(By(rounds[roundId].answers))
                 PROVE  Counted(By(rounds[roundId].answers))'
    OBVIOUS
  <2>2. answers = By(rounds[roundId].answers)
    BY <1>1, <1>3, <2>1, WireFacts DEF Counted, Seen, Uncommitted
  <2>3. By(rounds'[roundId'].answers) = Append(answers', q)
    BY <1>1, <1>7, <2>2
  <2>4. Seen(q)' /\ ~Uncommitted(q)'
    BY <1>5 DEF Seen, Uncommitted
  <2>5. By(rounds[roundId].answers)' = By(rounds'[roundId'].answers)
    BY DEF By
  <2>6. QED
    BY <1>9, <2>3, <2>4, <2>5 DEF Counted
<1>11. QED
  BY <1>1, <1>5, <1>6, <1>10, PostKeepsCalm

\* Sent and not recorded: both have the old count.
LEMMA ServeGradedKeepsCalm ==
  ASSUME ClientInv, CalmInv, NEW q \in Req, NEW v \in Verdict, ServeGraded(q, v)
  PROVE  CalmInv'
<1> SUFFICES ASSUME calm' PROVE CalmInv'
  BY DEF CalmInv
<1>1. /\ calm /\ Active(q) /\ posts[q].state = "sent"
      /\ UNCHANGED <<rounds, creates, answers>> /\ roundId' = roundId
  BY DEF ServeGraded, Gradable, session, timer, screen, server, Active
<1>2. TypeOK /\ PostWell(q) /\ ~posts[q].broken /\ posts[q].round = roundId
  BY <1>1 DEF ClientInv, CalmInv
<1>3. posts[q].wire = << >> /\ Send(q, "graded") = <<"graded">>
  BY <1>1, <1>2, SendType DEF PostWell
<1>4. posts' = [posts EXCEPT ![q] =
        [@ EXCEPT !.state = "shown", !.verdict = v, !.wire = <<"graded">>]]
  BY <1>3 DEF ServeGraded
<1>5. /\ posts'[q].state = "shown" /\ posts'[q].wire = <<"graded">>
      /\ posts'[q].broken = posts[q].broken /\ posts'[q].round = posts[q].round
      /\ \A o \in Req : o # q => posts'[o] = posts[o]
  BY <1>2, <1>4 DEF TypeOK, Post
<1>6. Started
  BY <1>1, SessionOf
<1>7. \A o \in Req : Active(o) => o = q
  BY <1>1 DEF CalmInv
<1>8. \A o \in Req : Active(o)' <=> o = q
  BY <1>5, <1>7 DEF Active
<1>9. Counted(By(rounds[roundId].answers)) => Counted(By(rounds[roundId].answers))'
  <2>1. SUFFICES ASSUME Counted(By(rounds[roundId].answers))
                 PROVE  Counted(By(rounds[roundId].answers))'
    OBVIOUS
  <2>2. answers = By(rounds[roundId].answers)
    BY <1>1, <1>3, <2>1, WireFacts DEF Counted, Seen, Uncommitted
  <2>3. By(rounds[roundId].answers)' = answers'
    BY <1>1, <2>2 DEF By
  <2>4. Seen(q)' /\ Uncommitted(q)'
    BY <1>5 DEF Seen, Uncommitted
  <2>5. QED
    BY <1>8, <2>3, <2>4 DEF Counted
<1>10. QED
  BY <1>1, <1>5, <1>6, <1>9, PostKeepsCalm

\* The commit puts the log one ahead, or level when the grade was taken before.
LEMMA ServeCommitKeepsCalm ==
  ASSUME ClientInv, CalmInv, NEW q \in Req, ServeCommit(q)
  PROVE  CalmInv'
<1> SUFFICES ASSUME calm' PROVE CalmInv'
  BY DEF CalmInv
<1>1. /\ calm /\ Active(q) /\ posts[q].state = "shown"
      /\ rounds' = Recorded(q, posts[q].verdict)
      /\ posts' = [posts EXCEPT ![q].state = "ended", ![q].term = 0]
      /\ UNCHANGED <<creates, answers>> /\ roundId' = roundId
  BY DEF ServeCommit, session, timer, screen, Active
<1>2. TypeOK /\ PostWell(q) /\ posts[q].round = roundId
  BY <1>1 DEF ClientInv, CalmInv
<1>3. posts[q].verdict \in Verdict
  BY <1>1, <1>2 DEF PostWell
<1>4. /\ posts'[q].state = "ended" /\ posts'[q].wire = posts[q].wire
      /\ posts'[q].broken = posts[q].broken /\ posts'[q].round = posts[q].round
      /\ \A o \in Req : o # q => posts'[o] = posts[o]
  BY <1>1, <1>2 DEF TypeOK, Post
<1>5. Started
  BY <1>1, SessionOf
<1> DEFINE B == By(rounds[roundId].answers)
<1>6. By(rounds'[roundId].answers) = Append(B, q)
  <2>1. /\ rounds[roundId] \in Round
        /\ \E a \in SubmittedAnswer :
             /\ a.by = q /\ a.verdict = posts[q].verdict
             /\ rounds'[roundId].answers = Append(rounds[roundId].answers, a)
    BY <1>1, <1>2, <1>3, RecordedRow
  <2>2. QED
    BY <2>1, ByAppend DEF Round
<1>7. \A o \in Req : Active(o) => o = q
  BY <1>1 DEF CalmInv
<1>8. \A o \in Req : Active(o)' => o = q
  BY <1>4, <1>7 DEF Active
<1>9. Seen(q)' <=> Seen(q)
  BY <1>4 DEF Seen
<1>10. Uncommitted(q) /\ ~Uncommitted(q)'
  BY <1>1, <1>4 DEF Uncommitted
<1>11. Seen(q) => Active(q)'
  BY <1>4, WireFacts DEF Seen, Active
<1>12. Counted(B) => Counted(By(rounds[roundId].answers))'
  <2>1. SUFFICES ASSUME Counted(B) PROVE Counted(By(rounds[roundId].answers))'
    OBVIOUS
  <2>2. By(rounds[roundId].answers)' = Append(B, q)
    BY <1>1, <1>6 DEF By
  <2>3. CASE Seen(q)
    <3>1. answers = B
      BY <1>1, <1>10, <2>1, <2>3 DEF Counted
    <3>2. QED
      BY <1>1, <1>8, <1>9, <1>10, <1>11, <2>2, <2>3, <3>1 DEF Counted
  <2>4. CASE ~Seen(q)
    <3>1. answers = Append(B, q)
      BY <1>1, <1>10, <2>1, <2>4 DEF Counted
    <3>2. answers' = By(rounds[roundId].answers)'
      BY <1>1, <2>2, <3>1
    <3>3. QED
      BY <1>8, <1>9, <1>10, <2>4, <3>2 DEF Counted
  <2>5. QED
    BY <2>3, <2>4
<1>13. QED
  BY <1>1, <1>4, <1>5, <1>12, PostKeepsCalm

\* A refusal counts on neither side.
LEMMA ServeErrorKeepsCalm ==
  ASSUME ClientInv, CalmInv, NEW q \in Req, ServeError(q)
  PROVE  CalmInv'
<1> SUFFICES ASSUME calm' PROVE CalmInv'
  BY DEF CalmInv
<1>1. /\ calm /\ Active(q) /\ posts[q].state = "sent"
      /\ UNCHANGED <<rounds, creates, answers>> /\ roundId' = roundId
  BY DEF ServeError, session, timer, screen, server, Active
<1>2. TypeOK /\ PostWell(q) /\ ~posts[q].broken
  BY <1>1 DEF ClientInv, CalmInv
<1>3. posts[q].wire = << >> /\ Send(q, "error") = <<"error">>
  BY <1>1, <1>2, SendType DEF PostWell
<1>4. posts' = [posts EXCEPT ![q] = [@ EXCEPT !.state = "ended", !.term = 0, !.wire = <<"error">>]]
  BY <1>3 DEF ServeError
<1>5. /\ posts'[q].state = "ended" /\ posts'[q].wire = <<"error">>
      /\ posts'[q].broken = posts[q].broken /\ posts'[q].round = posts[q].round
      /\ \A o \in Req : o # q => posts'[o] = posts[o]
  BY <1>2, <1>4 DEF TypeOK, Post
<1>6. Started
  BY <1>1, SessionOf
<1>7. \A o \in Req : Active(o) => o = q
  BY <1>1 DEF CalmInv
<1>8. \A o \in Req : Active(o)' <=> o = q
  BY <1>5, <1>7, WireFacts DEF Active
<1>9. Counted(By(rounds[roundId].answers)) => Counted(By(rounds[roundId].answers))'
  <2>1. SUFFICES ASSUME Counted(By(rounds[roundId].answers))
                 PROVE  Counted(By(rounds[roundId].answers))'
    OBVIOUS
  <2>2. answers = By(rounds[roundId].answers)
    BY <1>1, <1>3, <2>1, WireFacts DEF Counted, Seen, Uncommitted
  <2>3. By(rounds[roundId].answers)' = answers'
    BY <1>1, <2>2 DEF By
  <2>4. ~Seen(q)' /\ ~Uncommitted(q)'
    BY <1>5, WireFacts DEF Seen, Uncommitted
  <2>5. QED
    BY <1>8, <2>3, <2>4 DEF Counted
<1>10. QED
  BY <1>1, <1>5, <1>6, <1>9, PostKeepsCalm

\* The client takes a grade, and counts it, or an error, and does not.
LEMMA TakenKeepsCalm ==
  ASSUME ClientInv, CalmInv, NEW q \in Req, Graded(q) \/ Failed(q)
  PROVE  CalmInv'
<1> SUFFICES ASSUME calm' PROVE CalmInv'
  BY DEF CalmInv
<1>1. /\ calm /\ posts[q].wire # << >> /\ posts' = [posts EXCEPT ![q].wire = Tail(@)]
      /\ UNCHANGED <<rounds, creates>> /\ roundId' = roundId
      /\ Graded(q) => Head(posts[q].wire) = "graded" /\ answers' = Append(answers, q)
      /\ ~Graded(q) => Head(posts[q].wire) = "error" /\ answers' = answers
  BY DEF Graded, Failed, Takes, server, session, timer
<1>2. TypeOK /\ PostWell(q) /\ ~posts[q].broken /\ Active(q)
  BY <1>1 DEF ClientInv, CalmInv, Active
<1>3. /\ posts[q].wire \in {<<"graded">>, <<"error">>} /\ Tail(posts[q].wire) = << >>
      /\ Graded(q) <=> Seen(q)
  BY <1>1, <1>2, WireFacts DEF PostWell, Frames, Seen
<1>4. /\ posts'[q].state = posts[q].state /\ posts'[q].wire = << >>
      /\ posts'[q].broken = posts[q].broken /\ posts'[q].round = posts[q].round
      /\ \A o \in Req : o # q => posts'[o] = posts[o]
  BY <1>1, <1>2, <1>3 DEF TypeOK, Post
<1>5. posts[q].state \in {"shown", "ended"}
  BY <1>1, <1>2 DEF PostWell, TypeOK, Post
<1>6. Started
  BY <1>5, SessionOf
<1>7. \A o \in Req : Active(o) => o = q
  BY <1>1, <1>2 DEF CalmInv
<1> DEFINE B == By(rounds[roundId].answers)
<1>8. /\ \A o \in Req : Active(o)' => o = q
      /\ Active(q)' <=> Uncommitted(q)
      /\ Uncommitted(q)' <=> Uncommitted(q)
      /\ ~Seen(q)'
  BY <1>4, <1>5, <1>7, WireFacts DEF Active, Uncommitted, Seen
<1>9. Counted(B) => Counted(By(rounds[roundId].answers))'
  <2>1. SUFFICES ASSUME Counted(B) PROVE Counted(By(rounds[roundId].answers))'
    OBVIOUS
  <2>2. By(rounds[roundId].answers)' = B
    BY <1>1 DEF By
  <2>3. IF Uncommitted(q) THEN answers' = Append(B, q) ELSE answers' = B
    BY <1>1, <1>2, <1>3, <2>1 DEF Counted
  <2>4. QED
    BY <1>8, <2>2, <2>3 DEF Counted
<1>10. QED
  BY <1>1, <1>2, <1>4, <1>6, <1>9, PostKeepsCalm

\* Every step keeps CalmInv.
LEMMA NextKeepsCalm ==
  ASSUME ClientInv, CalmInv, Next
  PROVE  CalmInv'
<1>1. TypeOK /\ SessionWell
  BY DEF ClientInv
<1>2. CASE Loads
  <2>1. /\ UNCHANGED <<rounds, posts, creates, answers, calm>> /\ roundId' = roundId
        /\ ResultPanel \/ error = "load"
    BY <1>2 DEF Loads, server, session, timer
  <2>2. calm => \A n \in RoundIds : ~InFlight(n)
    BY <2>1 DEF CalmInv, CallAlone, ResultPanel
  <2>3. CASE calm
    BY <2>1, <2>2, <2>3, QuietKeepsCalm
  <2>4. CASE ~calm
    BY <2>1, <2>4 DEF CalmInv
  <2>5. QED
    BY <2>3, <2>4
<1>3. CASE SeesResults \/ Type \/ Tick \/ useSprintCountdown
  <2>1. /\ UNCHANGED <<rounds, posts, creates, answers, calm, loads, error>>
        /\ roundId' = roundId /\ result' \in {result, NoReq}
    BY <1>3 DEF SeesResults, Type, Tick, useSprintCountdown, server, session, screen
  <2>2. QED
    BY <2>1, QuietKeepsCalm
<1>4. ASSUME NEW r \in RoundIds, TermReply(r) \/ TermFails(r) PROVE CalmInv'
  <2>1. /\ UNCHANGED <<rounds, posts, creates, answers, calm>>
        /\ roundId' = roundId /\ r \in loads
    BY <1>4 DEF TermReply, TermFails, server, session, timer
  <2>2. calm => \A n \in RoundIds : ~InFlight(n)
    BY <2>1 DEF CalmInv, CallAlone
  <2>3. CASE calm
    BY <2>1, <2>2, <2>3, QuietKeepsCalm
  <2>4. CASE ~calm
    BY <2>1, <2>4 DEF CalmInv
  <2>5. QED
    BY <2>3, <2>4
<1>5. ASSUME NEW q \in Req, CommitFails(q) \/ Break(q) PROVE CalmInv'
  BY <1>5 DEF CommitFails, Break, CalmInv
<1>6. CASE Player
  BY <1>1, <1>2, <1>3, <1>6, PlayerSteps, StartsKeepsCalm, SubmitsKeepsCalm
<1>7. CASE Server
  <2>1. Verdicts \subseteq Verdict
    BY ClientConstants
  <2>2. QED
    BY <1>5, <1>7, <2>1, ServeCreateKeepsCalm, ServeCommitKeepsCalm, ServeErrorKeepsCalm,
       ServePlainKeepsCalm, ServeGradedKeepsCalm DEF Server
<1>8. CASE Network
  BY <1>4, <1>5, <1>8, CreateEndsKeepsCalm, TakenKeepsCalm DEF Network
<1>9. QED
  BY <1>3, <1>6, <1>7, <1>8 DEF Next

-----------------------------------------------------------------------------
(* The theorems.                                                           *)

Inv == ClientInv /\ TimerInv /\ ScreenInv /\ CalmInv

\* The four parts are an invariant of the session.
LEMMA Invariance == Spec => []Inv
<1>1. Init => Inv
  BY InitWell, InitTimer, InitScreen, InitCalm DEF Inv
<1>2. Inv /\ [Next]_vars => Inv'
  <2>1. SUFFICES ASSUME Inv, [Next]_vars PROVE Inv'
    OBVIOUS
  <2>2. CASE Next
    BY <2>1, <2>2, NextKeepsWell, NextKeepsTimer, NextKeepsScreen, NextKeepsCalm DEF Inv
  <2>3. CASE UNCHANGED vars
    <3>1. UNCHANGED <<clock, rounds, creates, loads, posts, roundId, roundMode,
                      dailyTermCount, serverRemaining, armed, deadline, term, answer,
                      result, answers, loading, error, calm>>
      BY <2>3 DEF vars, server, session, timer, screen
    <3>2. ClientInv'
      <4>1. TypeOK' /\ clock' >= clock
        BY <2>1, <3>1, ClientConstants DEF Inv, ClientInv, TypeOK
      <4>2. QED
        BY <2>1, <3>1, <4>1, ScreenKeepsWell DEF Inv
    <3>3. ScreenInv'
      BY <2>1, <3>1 DEF Inv, ScreenInv, Owed, Started, InFlight
    <3>4. CalmInv'
      BY <2>1, <3>1, QuietKeepsCalm DEF Inv
    <3>5. TimerInv'
      <4>1. clock' >= clock /\ clock' \in Nat
        BY <2>1, <3>1, ClientConstants DEF Inv, ClientInv, TypeOK
      <4>2. QED
        BY <2>1, <3>1, <4>1, TimerKept DEF Inv
    <3>6. QED
      BY <3>2, <3>3, <3>4, <3>5 DEF Inv
  <2>4. QED
    BY <2>1, <2>2, <2>3
<1>3. QED
  BY <1>1, <1>2, PTL DEF Spec

\* Every variable has its type, and no submission is counted twice.
THEOREM WebClientTyping == Spec => []TypeOK
<1>1. Inv => TypeOK
  BY DEF Inv, ClientInv
<1>2. QED
  BY <1>1, Invariance, PTL

\* Whatever failed, overlapped or came late, once nothing is under way the form
\* is not disabled and the screen offers a control that works, unless a stream
\* broke off (App.tsx: the handlers and what they render).
THEOREM NeverAtADeadEnd == Spec => []NeverStuck
<1>1. Inv => NeverStuck
  BY NeverStuckFromScreen DEF Inv, ClientInv
<1>2. QED
  BY <1>1, Invariance, PTL

\* Once its effect has run for the round on the screen, the countdown does not end
\* before the server's, unless two rounds were sent the same value
\* (useSprintCountdown.ts).  For a player who waits for every reply the client's
\* answers are the recorded ones and both sides agree on whether the round is over
\* (App.tsx: ROUND_END; GameRound.is_over).
THEOREM ClientStaysInSync == Spec => []InSync
<1>1. Inv => InSync
  BY InSyncFromCalm DEF Inv
<1>2. QED
  BY <1>1, Invariance, PTL

-----------------------------------------------------------------------------
(* The rows of the server are the logs round.py speaks of.  A submission   *)
(* is named where the code has a time, so WithinTime says nothing here.    *)

Log == INSTANCE RoundLog WITH log <- rounds, RoundId <- RoundIds

\* What q is recorded as, in verdict v, and the row it goes to.
Entry(q, v) ==
  [by |-> q, verdict |-> v, matched_via |-> "DETERMINISTIC", submitted_at |-> 0]
Shown(q) == posts[q].state = "shown"

\* A row keeps to its mode, and there is none before the server makes it.
RowWell(r) ==
  /\ rounds[r] # NoRound => LegalRound(rounds[r])
  /\ creates[r].state \in {"idle", "sent"} => rounds[r] = NoRound

\* A grade that was sent still fits into its row, which it holds alone.
GradeFits(q) ==
  Shown(q) =>
    /\ LegalRound(record(rounds[posts[q].round], Entry(q, posts[q].verdict)))
    /\ \A p \in Req : Shown(p) /\ posts[p].round = posts[q].round => p = q

LogInv ==
  /\ \A r \in RoundIds : RowWell(r)
  /\ \A q \in Req : GradeFits(q)

\* RoundLog speaks of the same rounds.
LEMMA RoundIsLogRound ==
  /\ Round = Log!Round /\ ImplicitRound = Log!ImplicitRound
  /\ \A rd, a : record(rd, a) = Log!record(rd, a)
  /\ \A rd : LegalRound(rd) <=> Log!LegalRound(rd)
<1>1. SubmittedAnswer = Log!SubmittedAnswer
  BY DEF SubmittedAnswer, Verdict, MatchedVia,
         Log!SubmittedAnswer, Log!Verdict, Log!MatchedVia
<1>2. Round = Log!Round
  BY <1>1 DEF Round, RoundMode, Log!Round, Log!RoundMode
<1>3. ImplicitRound = Log!ImplicitRound
  BY DEF ImplicitRound, start, Log!ImplicitRound, Log!start
<1>4. \A rd, a : record(rd, a) = Log!record(rd, a)
  BY DEF record, Log!record
<1>5. \A s : IncorrectAt(s) = Log!IncorrectAt(s)
  BY DEF IncorrectAt, Log!IncorrectAt
<1>6. \A S : Cardinality(S) = Log!Cardinality(S)
  BY Zenon DEF Cardinality, Log!Cardinality, IsFiniteSet, Log!IsFiniteSet
<1>7. \A rd : LegalRound(rd) <=> Log!LegalRound(rd)
  BY <1>5, <1>6 DEF LegalRound, WithinCeiling, WithinSize, WithinLives, WithinTime,
       Log!LegalRound, Log!WithinCeiling, Log!WithinSize, Log!WithinLives, Log!WithinTime
<1>8. QED
  BY <1>2, <1>3, <1>4, <1>7

\* A round that takes an answer now took it at its start as well.
LEMMA EntryLegal ==
  ASSUME NEW row \in Round, LegalRound(row), NEW t \in Nat, CanRecord(row, t),
         NEW q \in Req, NEW v \in Verdict
  PROVE  Entry(q, v) \in SubmittedAnswer /\ LegalRound(record(row, Entry(q, v)))
<1>1. Entry(q, v) \in SubmittedAnswer /\ Entry(q, v).submitted_at = 0
  BY DEF Entry, SubmittedAnswer, MatchedVia
<1>2. is_expired(row, 0) => is_expired(row, t)
  BY DEF is_expired, Round
<1>3. CanRecord(row, 0)
  BY <1>2 DEF CanRecord, is_over
<1>4. QED
  BY <1>1, <1>3, RecordLegal

\* Steps that record nothing and show no grade.
LEMMA LogKept ==
  ASSUME LogInv, rounds' = rounds,
         \A q \in Req : posts'[q].state = "shown" =>
           /\ posts[q].state = "shown" /\ posts'[q].round = posts[q].round
           /\ posts'[q].verdict = posts[q].verdict,
         \A n \in RoundIds :
           creates'[n].state \in {"idle", "sent"} => creates[n].state \in {"idle", "sent"}
  PROVE  LogInv'
<1>1. ASSUME NEW r \in RoundIds PROVE RowWell(r)'
  <2>1. RowWell(r)
    BY DEF LogInv
  <2>2. QED
    BY <2>1 DEF RowWell
<1>2. ASSUME NEW q \in Req, Shown(q)' PROVE GradeFits(q)'
  <2>1. /\ Shown(q) /\ posts'[q].round = posts[q].round
        /\ posts'[q].verdict = posts[q].verdict
    BY <1>2 DEF Shown
  <2>2. GradeFits(q)
    BY DEF LogInv
  <2>3. LegalRound(record(rounds[posts[q].round], Entry(q, posts[q].verdict)))'
    BY <2>1, <2>2 DEF GradeFits, Entry
  <2>4. ASSUME NEW p \in Req, Shown(p)', posts'[p].round = posts'[q].round PROVE p = q
    <3>1. Shown(p) /\ posts'[p].round = posts[p].round
      BY <2>4 DEF Shown
    <3>2. QED
      BY <2>1, <2>2, <2>4, <3>1 DEF GradeFits
  <2>5. QED
    BY <2>1, <2>3, <2>4 DEF GradeFits
<1>3. ASSUME NEW q \in Req PROVE GradeFits(q)'
  BY <1>2 DEF GradeFits
<1>4. QED
  BY <1>1, <1>3 DEF LogInv

\* What was appended is the last element.
LEMMA LastAppended ==
  ASSUME NEW S, NEW s \in Seq(S), NEW a \in S
  PROVE  Append(s, a) # << >> /\ Append(s, a)[Len(Append(s, a))] = a
OBVIOUS

\* An answer is recorded that the row has room for, and that no grade on its
\* way to the same row has been promised.
LEMMA RecordedExtends ==
  ASSUME ClientInv, LogInv, NEW q \in Req, posts[q].state \in {"sent", "shown"},
         NEW v \in Verdict, rounds' = Recorded(q, v), creates' = creates,
         posts'[q].state = "ended", \A p \in Req : p # q => posts'[p] = posts[p],
         LegalRound(record(rounds[posts[q].round], Entry(q, v))),
         \A p \in Req : Shown(p) /\ posts[p].round = posts[q].round => p = q
  PROVE  LogInv' /\ Log!Next
<1> DEFINE r == posts[q].round
           new == record(rounds[r], Entry(q, v))
<1>1. /\ r \in RoundIds /\ rounds[r] # NoRound /\ rounds[r] \in Round
      /\ rounds \in [RoundIds -> Round \cup {NoRound}]
  BY DEF ClientInv, PostWell, TypeOK
<1>2. Entry(q, v) \in SubmittedAnswer
  BY DEF Entry, SubmittedAnswer, MatchedVia
<1>3. new \in Round /\ new.answers = Append(rounds[r].answers, Entry(q, v))
  BY <1>1, <1>2, RecordType
<1>4. rounds' = [rounds EXCEPT ![r] = new]
  BY DEF Recorded, Entry
<1>5. rounds[r].answers \in Seq(SubmittedAnswer)
  BY <1>1 DEF Round
<1>6. LegalRound(new)
  OBVIOUS
<1>7. new.answers # << >> /\ new.answers[Len(new.answers)] = Entry(q, v)
  <2> DEFINE s == rounds[r].answers
             a == Entry(q, v)
             grown == new.answers
  <2>1. s \in Seq(SubmittedAnswer) /\ a \in SubmittedAnswer /\ grown = Append(s, a)
    BY <1>2, <1>3, <1>5
  <2> HIDE DEF s, a, grown
  <2>2. grown # << >> /\ grown[Len(grown)] = a
    BY <2>1, LastAppended
  <2>3. QED
    BY <2>2 DEF grown, a
<1>8. new = record(rounds[r], new.answers[Len(new.answers)])
  BY <1>7
<1>9. \A p \in Req : p # q /\ Shown(p) => posts[p].round # r
  OBVIOUS
<1> HIDE DEF r, new
<1>10. rounds'[r] = new /\ \A k \in RoundIds : k # r => rounds'[k] = rounds[k]
  BY <1>1, <1>4
<1>11. Log!Extend(r)
  BY <1>1, <1>3, <1>4, <1>6, <1>7, <1>8, <1>10, RoundIsLogRound DEF Log!Extend
<1>12. ASSUME NEW k \in RoundIds PROVE RowWell(k)'
  <2>1. RowWell(k)
    BY DEF LogInv
  <2>2. new # NoRound
    BY <1>3, ClientConstants
  <2>3. CASE k = r
    BY <1>1, <1>6, <1>10, <2>1, <2>2, <2>3 DEF RowWell
  <2>4. CASE k # r
    BY <1>10, <2>1, <2>4 DEF RowWell
  <2>5. QED
    BY <2>3, <2>4
<1>13. ASSUME NEW p \in Req, Shown(p)' PROVE GradeFits(p)'
  <2>1. p # q /\ posts'[p] = posts[p] /\ Shown(p)
    BY <1>13 DEF Shown
  <2>2. GradeFits(p) /\ PostWell(p)
    BY DEF LogInv, ClientInv
  <2>3. posts[p].round \in RoundIds /\ rounds'[posts[p].round] = rounds[posts[p].round]
    BY <1>9, <1>10, <2>1, <2>2 DEF PostWell, Shown
  <2>4. LegalRound(record(rounds[posts[p].round], Entry(p, posts[p].verdict)))'
    BY <2>1, <2>2, <2>3 DEF GradeFits, Entry
  <2>5. ASSUME NEW s \in Req, Shown(s)', posts'[s].round = posts'[p].round PROVE s = p
    <3>1. s # q /\ posts'[s] = posts[s] /\ Shown(s)
      BY <2>5 DEF Shown
    <3>2. QED
      BY <2>1, <2>2, <2>5, <3>1 DEF GradeFits
  <2>6. QED
    BY <2>1, <2>4, <2>5 DEF GradeFits
<1>14. ASSUME NEW p \in Req PROVE GradeFits(p)'
  BY <1>13 DEF GradeFits
<1>15. QED
  BY <1>1, <1>11, <1>12, <1>14 DEF LogInv, Log!Next

\* The server makes the row of a round.
LEMMA ServeCreateOpens ==
  ASSUME ClientInv, LogInv, NEW n \in RoundIds, ServeCreate(n)
  PROVE  LogInv' /\ Log!Next
<1>1. PICK d \in SprintDurations, l \in Latencies, size \in 1..DAILY_20_ROUND_SIZE :
        /\ rounds' = [rounds EXCEPT ![n] = start(creates[n].mode, clock, d, size)]
        /\ creates' = [creates EXCEPT ![n].state = "made", ![n].remaining =
             IF creates[n].mode = "SPRINT" THEN [duration |-> d, latency |-> l] ELSE Null]
  BY DEF ServeCreate
<1>2. creates[n].state = "sent" /\ posts' = posts
  BY DEF ServeCreate
<1>3. TypeOK /\ CreateWell(n) /\ RowWell(n)
  BY DEF ClientInv, LogInv
<1>4. creates[n].mode \in RoundMode /\ clock \in Nat
  <2>1. creates[n].mode \in RoundMode
    BY <1>2, <1>3 DEF CreateWell, InFlight
  <2>2. clock \in Nat
    BY <1>3, ClientConstants DEF TypeOK
  <2>3. QED
    BY <2>1, <2>2
<1> DEFINE row == start(creates[n].mode, clock, d, size)
<1>5. row \in Round /\ row.answers = << >>
  <2> DEFINE m == creates[n].mode
  <2>1. m \in RoundMode
    BY <1>4
  <2> HIDE DEF m
  <2>2. start(m, clock, d, size) \in Round /\ start(m, clock, d, size).answers = << >>
    BY <1>4, <2>1, StartRow
  <2>3. QED
    BY <2>2 DEF m
<1>6. rounds' = [rounds EXCEPT ![n] = row]
  BY <1>1
<1> HIDE DEF row
<1>7. /\ rounds'[n] = row /\ \A k \in RoundIds : k # n => rounds'[k] = rounds[k]
  BY <1>3, <1>6 DEF TypeOK
<1>8. creates'[n].state = "made" /\ \A k \in RoundIds : k # n => creates'[k] = creates[k]
  BY <1>1, <1>3 DEF TypeOK, Create
<1>9. LegalRound(row)
  BY <1>5, EmptyLegal
<1>10. Log!Open(n)
  BY <1>2, <1>3, <1>5, <1>6, <1>7, RoundIsLogRound DEF Log!Open, RowWell
<1>11. ASSUME NEW k \in RoundIds PROVE RowWell(k)'
  <2>1. RowWell(k)
    BY DEF LogInv
  <2>2. CASE k = n
    BY <1>7, <1>8, <1>9, <2>2 DEF RowWell
  <2>3. CASE k # n
    BY <1>7, <1>8, <2>1, <2>3 DEF RowWell
  <2>4. QED
    BY <2>2, <2>3
<1>12. ASSUME NEW p \in Req, Shown(p)' PROVE GradeFits(p)'
  <2>1. Shown(p) /\ GradeFits(p) /\ PostWell(p) /\ posts[p].round # n
    BY <1>2, <1>3, <1>12 DEF Shown, LogInv, ClientInv, CreateWell
  <2>2. posts[p].round \in RoundIds
    BY <2>1 DEF PostWell, Shown
  <2>3. LegalRound(record(rounds[posts[p].round], Entry(p, posts[p].verdict)))'
    BY <1>2, <1>7, <2>1, <2>2 DEF GradeFits, Entry
  <2>4. QED
    BY <1>2, <2>1, <2>3 DEF GradeFits, Shown
<1>13. ASSUME NEW p \in Req PROVE GradeFits(p)'
  BY <1>12 DEF GradeFits
<1>14. QED
  BY <1>10, <1>11, <1>13 DEF LogInv, Log!Next

\* A plain submission is recorded when its row is free and takes an answer.
LEMMA ServePlainExtends ==
  ASSUME ClientInv, LogInv, NEW q \in Req, NEW v \in Verdict, ServePlain(q, v)
  PROVE  LogInv' /\ Log!Next
<1>1. /\ posts[q].state = "sent" /\ rounds' = Recorded(q, v) /\ creates' = creates
      /\ ~RowLocked(posts[q].round) /\ CanRecord(rounds[posts[q].round], clock)
  BY DEF ServePlain, Gradable
<1>2. posts'[q].state = "ended" /\ \A p \in Req : p # q => posts'[p] = posts[p]
  <2> DEFINE p == [posts[q] EXCEPT !.state = "ended", !.term = 0, !.verdict = v,
                                   !.wire = Send(q, "graded")]
  <2>1. posts \in [Req -> Post]
    BY DEF ClientInv, TypeOK
  <2>2. posts' = [posts EXCEPT ![q] = p]
    BY DEF ServePlain
  <2>3. p.state = "ended"
    BY <2>1 DEF Post
  <2> HIDE DEF p
  <2>4. QED
    BY <2>1, <2>2, <2>3
<1>3. /\ posts[q].round \in RoundIds /\ rounds[posts[q].round] \in Round
      /\ LegalRound(rounds[posts[q].round]) /\ clock \in Nat
  BY <1>1, ClientConstants DEF ClientInv, PostWell, LogInv, RowWell, TypeOK
<1>4. LegalRound(record(rounds[posts[q].round], Entry(q, v)))
  BY <1>1, <1>3, EntryLegal
<1>5. \A p \in Req : Shown(p) /\ posts[p].round = posts[q].round => p = q
  BY <1>1 DEF RowLocked, Shown
<1>6. QED
  BY <1>1, <1>2, <1>4, <1>5, RecordedExtends

\* The streaming endpoint records what it showed.
LEMMA ServeCommitExtends ==
  ASSUME ClientInv, LogInv, NEW q \in Req, ServeCommit(q)
  PROVE  LogInv' /\ Log!Next
<1>1. /\ Shown(q) /\ rounds' = Recorded(q, posts[q].verdict) /\ creates' = creates
      /\ posts' = [posts EXCEPT ![q].state = "ended", ![q].term = 0]
      /\ posts \in [Req -> Post]
  BY DEF ServeCommit, Shown, ClientInv, TypeOK
<1>2. posts'[q].state = "ended" /\ \A p \in Req : p # q => posts'[p] = posts[p]
  BY <1>1 DEF Post
<1>3. posts[q].verdict \in Verdict /\ posts[q].state = "shown"
  BY <1>1 DEF ClientInv, PostWell, Shown
<1>4. GradeFits(q)
  BY DEF LogInv
<1>5. QED
  BY <1>1, <1>2, <1>3, <1>4, RecordedExtends DEF GradeFits

\* A grade is sent when its row is free and takes an answer.
LEMMA ServeGradedKeepsLog ==
  ASSUME ClientInv, LogInv, NEW q \in Req, NEW v \in Verdict, ServeGraded(q, v)
  PROVE  LogInv'
<1>1. /\ posts[q].state = "sent" /\ rounds' = rounds /\ creates' = creates
      /\ ~RowLocked(posts[q].round) /\ CanRecord(rounds[posts[q].round], clock)
  BY DEF ServeGraded, Gradable, server
<1>2. /\ posts'[q].state = "shown" /\ posts'[q].round = posts[q].round
      /\ posts'[q].verdict = v /\ \A p \in Req : p # q => posts'[p] = posts[p]
  <2> DEFINE p == [posts[q] EXCEPT !.state = "shown", !.verdict = v,
                                   !.wire = Send(q, "graded")]
  <2>1. posts \in [Req -> Post]
    BY DEF ClientInv, TypeOK
  <2>2. posts' = [posts EXCEPT ![q] = p]
    BY DEF ServeGraded
  <2>3. p.state = "shown" /\ p.round = posts[q].round /\ p.verdict = v
    BY <2>1 DEF Post
  <2> HIDE DEF p
  <2>4. QED
    BY <2>1, <2>2, <2>3
<1>3. /\ posts[q].round \in RoundIds /\ rounds[posts[q].round] \in Round
      /\ LegalRound(rounds[posts[q].round]) /\ clock \in Nat
  BY <1>1, ClientConstants DEF ClientInv, PostWell, LogInv, RowWell, TypeOK
<1>4. LegalRound(record(rounds[posts[q].round], Entry(q, v)))
  BY <1>1, <1>3, EntryLegal
<1>5. \A p \in Req : Shown(p) => posts[p].round # posts[q].round
  BY <1>1 DEF RowLocked, Shown
<1>6. \A p \in Req : Shown(p)' => posts'[p].round = posts[p].round /\ (p = q \/ Shown(p))
  BY <1>2 DEF Shown
<1>7. ASSUME NEW r \in RoundIds PROVE RowWell(r)'
  BY <1>1 DEF LogInv, RowWell
<1>8. ASSUME NEW p \in Req, Shown(p)' PROVE GradeFits(p)'
  <2>1. LegalRound(record(rounds[posts[p].round], Entry(p, posts[p].verdict)))'
    <3>1. CASE p = q
      BY <1>1, <1>2, <1>4, <3>1 DEF Entry
    <3>2. CASE p # q
      BY <1>1, <1>2, <1>6, <1>8, <3>2 DEF Entry, LogInv, GradeFits
    <3>3. QED
      BY <3>1, <3>2
  <2>2. ASSUME NEW s \in Req, Shown(s)', posts'[s].round = posts'[p].round PROVE s = p
    <3>1. GradeFits(p) /\ GradeFits(s)
      BY DEF LogInv
    <3>2. QED
      BY <1>5, <1>6, <1>8, <2>2, <3>1 DEF GradeFits
  <2>3. QED
    BY <2>1, <2>2 DEF GradeFits
<1>9. ASSUME NEW p \in Req PROVE GradeFits(p)'
  BY <1>8 DEF GradeFits
<1>10. QED
  BY <1>7, <1>9 DEF LogInv

\* A step of one submission that shows no grade.
LEMMA PostKeepsLog ==
  ASSUME ClientInv, LogInv, NEW q \in Req, rounds' = rounds, creates' = creates,
         NEW p, posts' = [posts EXCEPT ![q] = p],
         p.state = "shown" =>
           /\ posts[q].state = "shown" /\ p.round = posts[q].round
           /\ p.verdict = posts[q].verdict
  PROVE  LogInv'
<1>1. posts'[q] = p /\ \A k \in Req : k # q => posts'[k] = posts[k]
  BY DEF ClientInv, TypeOK
<1>2. QED
  BY <1>1, LogKept

\* Every step keeps the rows in order, and is one of the log or none.
LEMMA NextOfLog ==
  ASSUME ClientInv, LogInv, Next
  PROVE  LogInv' /\ (Log!Next \/ UNCHANGED rounds)
<1>1. TypeOK /\ SessionWell
  BY DEF ClientInv
<1>2. CASE Loads \/ SeesResults \/ Type \/ Tick \/ useSprintCountdown
  <2>1. rounds' = rounds /\ posts' = posts /\ creates' = creates
    BY <1>2 DEF Loads, SeesResults, Type, Tick, useSprintCountdown, server
  <2>2. QED
    BY <2>1, LogKept
<1>3. ASSUME NEW n \in RoundIds, Starts(n) PROVE LogInv' /\ rounds' = rounds
  <2>1. /\ rounds' = rounds /\ posts' = posts
        /\ \A k \in RoundIds : k # n => creates'[k] = creates[k]
        /\ creates[n].state = "idle"
    BY <1>1, <1>3 DEF Starts, TypeOK
  <2>2. QED
    BY <2>1, LogKept
<1>4. ASSUME NEW q \in Req, Submits(q) PROVE LogInv' /\ rounds' = rounds
  <2>1. PICK llm \in BOOLEAN :
          posts' = [posts EXCEPT ![q] =
            [@ EXCEPT !.state = "sent", !.round = roundId, !.term = term, !.stream = llm]]
    BY <1>4 DEF Submits
  <2> DEFINE p == [posts[q] EXCEPT !.state = "sent", !.round = roundId, !.term = term,
                                   !.stream = llm]
  <2>2. posts' = [posts EXCEPT ![q] = p] /\ rounds' = rounds /\ creates' = creates
    BY <1>1, <1>4, <2>1 DEF Submits, server, TypeOK
  <2>3. p.state = "sent"
    BY <1>1 DEF TypeOK, Post
  <2> HIDE DEF p
  <2>4. QED
    BY <2>2, <2>3, PostKeepsLog
<1>5. ASSUME NEW q \in Req, ServeError(q) \/ CommitFails(q)
      PROVE  LogInv' /\ rounds' = rounds
  <2>1. PICK w : posts' = [posts EXCEPT ![q] =
                   [posts[q] EXCEPT !.state = "ended", !.term = 0, !.wire = w]]
    <3>1. CASE ServeError(q)
      BY <1>1, <3>1 DEF ServeError, TypeOK
    <3>2. CASE CommitFails(q)
      <4> DEFINE p == [posts[q] EXCEPT !.state = "ended", !.term = 0]
      <4>1. p = [posts[q] EXCEPT !.state = "ended", !.term = 0, !.wire = posts[q].wire]
        BY <1>1 DEF TypeOK, Post
      <4>2. posts' = [posts EXCEPT ![q] = p]
        BY <1>1, <3>2 DEF CommitFails, TypeOK
      <4> HIDE DEF p
      <4>3. QED
        BY <4>1, <4>2
    <3>3. QED
      BY <1>5, <3>1, <3>2
  <2> DEFINE p == [posts[q] EXCEPT !.state = "ended", !.term = 0, !.wire = w]
  <2>2. p.state = "ended"
    BY <1>1 DEF TypeOK, Post
  <2>3. posts' = [posts EXCEPT ![q] = p] /\ rounds' = rounds /\ creates' = creates
    BY <1>5, <2>1 DEF ServeError, CommitFails, server
  <2> HIDE DEF p
  <2>4. QED
    BY <2>2, <2>3, PostKeepsLog
<1>6. ASSUME NEW q \in Req, Graded(q) \/ Failed(q) PROVE LogInv' /\ rounds' = rounds
  <2> DEFINE p == [posts[q] EXCEPT !.wire = Tail(posts[q].wire)]
  <2>1. posts' = [posts EXCEPT ![q] = p] /\ rounds' = rounds /\ creates' = creates
    BY <1>1, <1>6 DEF Graded, Failed, Takes, server, TypeOK
  <2>2. /\ p.state = posts[q].state /\ p.round = posts[q].round
        /\ p.verdict = posts[q].verdict
    BY <1>1 DEF TypeOK, Post
  <2> HIDE DEF p
  <2>3. QED
    BY <2>1, <2>2, PostKeepsLog
<1>7. ASSUME NEW q \in Req, Break(q) PROVE LogInv' /\ rounds' = rounds
  <2> DEFINE w == IF posts[q].stream THEN << >> ELSE <<"error">>
             p == [posts[q] EXCEPT !.broken = TRUE, !.wire = w]
  <2>1. posts' = [posts EXCEPT ![q] = p] /\ rounds' = rounds /\ creates' = creates
    BY <1>1, <1>7 DEF Break, server, TypeOK
  <2> HIDE DEF w
  <2>2. /\ p.state = posts[q].state /\ p.round = posts[q].round
        /\ p.verdict = posts[q].verdict
    BY <1>1 DEF TypeOK, Post
  <2> HIDE DEF p
  <2>3. QED
    BY <2>1, <2>2, PostKeepsLog
<1>8. ASSUME NEW n \in RoundIds, RoundReply(n) \/ RoundFails(n)
      PROVE  LogInv' /\ rounds' = rounds
  <2>1. /\ rounds' = rounds /\ posts' = posts
        /\ creates' = [creates EXCEPT ![n].state = "ended"]
    BY <1>8 DEF RoundReply, RoundFails
  <2>2. creates'[n].state = "ended" /\ \A k \in RoundIds : k # n => creates'[k] = creates[k]
    BY <1>1, <2>1 DEF TypeOK, Create
  <2>3. QED
    BY <2>1, <2>2, LogKept
<1>9. ASSUME NEW r \in RoundIds, TermReply(r) \/ TermFails(r)
      PROVE  LogInv' /\ rounds' = rounds
  <2>1. rounds' = rounds /\ posts' = posts /\ creates' = creates
    BY <1>9 DEF TermReply, TermFails, server
  <2>2. QED
    BY <2>1, LogKept
<1>10. CASE Player
  BY <1>1, <1>2, <1>3, <1>4, <1>10, PlayerSteps DEF Loads, SeesResults, Type, server
<1>11. CASE Server
  <2>1. Verdicts \subseteq Verdict
    BY ClientConstants
  <2>2. ASSUME NEW q \in Req, NEW v \in Verdicts, ServeGraded(q, v)
        PROVE  LogInv' /\ rounds' = rounds
    BY <2>1, <2>2, ServeGradedKeepsLog DEF ServeGraded, server
  <2>3. QED
    BY <1>5, <1>11, <2>1, <2>2, ServeCreateOpens, ServeCommitExtends, ServePlainExtends
       DEF Server
<1>12. CASE Network
  BY <1>6, <1>7, <1>8, <1>9, <1>12 DEF Network
<1>13. QED
  BY <1>2, <1>10, <1>11, <1>12 DEF Next, Tick, useSprintCountdown, server

\* Whatever the session does, the rows of the server it talks to are the logs
\* round.py promises: append-only, an answer at a time, never beyond the mode.
\* The serial AnswerSubmission implements the same specification.
THEOREM ServerIsLog == Spec => Log!Spec
<1>1. Init => Log!Init /\ LogInv
  BY DEF Init, Log!Init, LogInv, RowWell, GradeFits, Shown
<1>2. ClientInv /\ LogInv /\ [Next]_vars => LogInv' /\ [Log!Next]_rounds
  <2>1. SUFFICES ASSUME ClientInv, LogInv, [Next]_vars
                 PROVE  LogInv' /\ (Log!Next \/ UNCHANGED rounds)
    OBVIOUS
  <2>2. CASE UNCHANGED vars
    <3>1. rounds' = rounds /\ posts' = posts /\ creates' = creates
      BY <2>2 DEF vars, server
    <3>2. QED
      BY <2>1, <3>1, LogKept
  <2>3. QED
    BY <2>1, <2>2, NextOfLog
<1>3. Inv => ClientInv
  BY DEF Inv
<1>4. QED
  BY <1>1, <1>2, <1>3, Invariance, PTL DEF Spec, Log!Spec
=============================================================================
