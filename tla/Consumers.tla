----------------------------- MODULE Consumers -----------------------------
(***************************************************************************)
(* The consumers of answers.graded: the loop that tallies verdicts         *)
(* (infrastructure/answer_graded_stats.py), the supervisor that restarts   *)
(* it, and the health that /ready reports (ConsumerHealth).                *)
(*                                                                         *)
(* Each partition of the topic is read by one member of the consumer group *)
(* at a time, a coroutine in some process of game-service.  The member     *)
(* keeps its position in memory, and the client library commits it to the  *)
(* group now and then, whatever has become of the messages before it; how  *)
(* far it got is seen when the member restarts.  Members meet on the rows  *)
(* of term_stats.                                                          *)
(*                                                                         *)
(* Time is in ticks.  The event loop is prompt: what a timer has been set  *)
(* for happens before the next tick.                                       *)
(***************************************************************************)
EXTENDS Naturals, Sequences, FiniteSets

CONSTANTS
  Partition, TermId, Verdict,
  Malformed,       \* a message that is no AnswerGraded envelope
  NoOffset,        \* nothing committed for the group yet
  MessageTimeout,  \* MESSAGE_TIMEOUT_SECONDS
  Backoff,         \* RESTART_BACKOFF_SECONDS
  MaxAge,          \* max_age_seconds of is_stale
  MaxMessages,     \* bound on the messages of each partition
  MaxRestarts      \* bound on the restarts of each member's process

Graded  == [term_id : TermId, verdict : Verdict]
Message == Graded \cup {Malformed}

ASSUME ConsumerConstants ==
  /\ {MessageTimeout, Backoff, MaxAge} \subseteq Nat \ {0}
  /\ {MaxMessages, MaxRestarts} \subseteq [Partition -> Nat]
  /\ MessageTimeout <= MaxAge
  /\ Malformed \notin Graded
  /\ NoOffset \notin Nat

VARIABLES
  log,          \* the messages of each partition
  offset,       \* how many the group had committed when the member stopped
  first,        \* member: its position at its start
  position,     \* how many messages it has been given
  loop,         \* where the member's coroutine stands
  timer,        \* ticks it has been there
  alive,        \* ticks since mark_alive
  pending,      \* the counter's value its transaction has written
  term_stats,   \* committed rows
  incarnation,  \* how often the member's process was started
  tallies,      \* history: what was committed, once per incarnation
  missed        \* history: what was given up or cut short

group   == <<log, offset>>
member  == <<first, position, loop, timer, alive, pending, incarnation>>
history == <<tallies, missed>>
vars    == <<group, member, term_stats, history>>

Loop    == {"down", "waiting", "recording", "recorded", "backoff"}
InHand  == {"recording", "recorded"}

\* A row of term_stats.
TermStats == [Verdict -> Nat]

Tally   == [part : Partition, at : Nat, incarnation : Nat]

TypeOK ==
  /\ log \in [Partition -> Seq(Message)]
  /\ position \in [Partition -> Nat]
  /\ first \in [Partition -> Nat]
  /\ \A p \in Partition : first[p] <= position[p] /\ position[p] <= Len(log[p])
  /\ offset \in [Partition -> Nat \cup {NoOffset}]
  /\ \A p \in Partition : offset[p] # NoOffset => offset[p] <= position[p]
  /\ loop \in [Partition -> Loop]
  /\ \A p \in Partition :
       loop[p] \in InHand => position[p] > 0 /\ log[p][position[p]] \in Graded
  /\ timer \in [Partition -> Nat]
  /\ alive \in [Partition -> 0..(MaxAge + 1)]
  /\ pending \in [Partition -> Nat]
  /\ term_stats \in [TermId -> TermStats]
  /\ incarnation \in [Partition -> Nat]
  /\ tallies \subseteq Tally
  /\ missed \subseteq Partition \X Nat

Init ==
  /\ log = [p \in Partition |-> << >>]
  /\ offset = [p \in Partition |-> NoOffset]
  /\ first = [p \in Partition |-> 0]
  /\ position = [p \in Partition |-> 0]
  /\ loop = [p \in Partition |-> "down"]
  /\ timer = [p \in Partition |-> 0]
  /\ alive = [p \in Partition |-> 0]
  /\ pending = [p \in Partition |-> 0]
  /\ term_stats = [t \in TermId |-> [v \in Verdict |-> 0]]
  /\ incarnation = [p \in Partition |-> 0]
  /\ tallies = {}
  /\ missed = {}

Running(p) == loop[p] # "down"
InHandOf(p) == log[p][position[p]]

Enter(p, from, to) ==
  /\ loop[p] \in from
  /\ loop' = [loop EXCEPT ![p] = to]
  /\ timer' = [timer EXCEPT ![p] = 0]
  /\ pending' = [pending EXCEPT ![p] = 0]

mark_alive(p) == alive' = [alive EXCEPT ![p] = 0]

is_stale(p) == alive[p] > MaxAge

\* What /ready says of the process of p: "ready", or the reason why not.  It asks
\* the process's other consumer first, the invalidator of the term cache, whose
\* health is independent: terms.published may be quiet or busy as it likes.
ready(p, invalidatorStale) ==
  CASE invalidatorStale                -> "term_cache_invalidator_stale"
    [] ~invalidatorStale /\ is_stale(p) -> "answer_graded_stats_consumer_stale"
    [] OTHER                           -> "ready"

-----------------------------------------------------------------------------
\* The submissions' producer.
Produce(p, m) ==
  /\ Len(log[p]) < MaxMessages[p]
  /\ log' = [log EXCEPT ![p] = Append(@, m)]
  /\ UNCHANGED <<offset, member, term_stats, history>>

\* A process starts, or takes the partition over: from the committed offset,
\* or, as there is none, after the latest message.
Start(p) ==
  /\ Enter(p, {"down"}, "waiting")
  /\ position' = [position EXCEPT ![p] =
                    IF offset[p] = NoOffset THEN Len(log[p]) ELSE offset[p]]
  /\ first' = [first EXCEPT ![p] = position'[p]]
  /\ missed' = IF offset[p] = NoOffset
               THEN missed \cup {<<p, i>> : i \in 1..Len(log[p])} ELSE missed
  /\ incarnation' = [incarnation EXCEPT ![p] = @ + 1]
  /\ mark_alive(p)
  /\ UNCHANGED <<group, term_stats, tallies>>

\* Mutant of Receive: health is only told of restarts.
ReceiveQuietly(p) ==
  /\ position[p] < Len(log[p])
  /\ position' = [position EXCEPT ![p] = @ + 1]
  /\ Enter(p, {"waiting"}, IF log[p][position[p] + 1] = Malformed THEN "waiting"
                                                               ELSE "recording")
  /\ UNCHANGED <<group, first, alive, term_stats, incarnation, history>>

\* Mutant of Receive: the envelope is not looked at.
ReceiveUnchecked(p) ==
  /\ position[p] < Len(log[p])
  /\ position' = [position EXCEPT ![p] = @ + 1]
  /\ Enter(p, {"waiting"}, "recording")
  /\ mark_alive(p)
  /\ UNCHANGED <<group, first, term_stats, incarnation, history>>

\* The next message; a malformed one is skipped.
Receive(p) ==
  /\ position[p] < Len(log[p])
  /\ position' = [position EXCEPT ![p] = @ + 1]
  /\ Enter(p, {"waiting"}, IF log[p][position[p] + 1] = Malformed THEN "waiting"
                                                               ELSE "recording")
  /\ mark_alive(p)
  /\ UNCHANGED <<group, first, term_stats, incarnation, history>>

\* Mutant of RowLocked: the counter is read first and written back later.
NeverLocked(t) == FALSE

RowLocked(t) ==
  \E p \in Partition : loop[p] = "recorded" /\ InHandOf(p).term_id = t

\* record: an upsert that increments the row it locks.
Record(p) ==
  /\ loop[p] = "recording"
  /\ ~RowLocked(InHandOf(p).term_id)
  /\ loop' = [loop EXCEPT ![p] = "recorded"]
  /\ pending' = [pending EXCEPT ![p] =
                   term_stats[InHandOf(p).term_id][InHandOf(p).verdict] + 1]
  /\ UNCHANGED <<group, first, position, timer, alive, incarnation, term_stats, history>>

\* What the database does at a COMMIT.
CommitTally(p) ==
  /\ term_stats' = [term_stats EXCEPT
                      ![InHandOf(p).term_id][InHandOf(p).verdict] = pending[p]]
  /\ tallies' = tallies \cup
       {[part |-> p, at |-> position[p], incarnation |-> incarnation[p]]}

\* A COMMIT that nobody waits for any more may have gone through or not.
CutShort(p) ==
  /\ \/ loop[p] = "recorded" /\ CommitTally(p)
     \/ UNCHANGED <<term_stats, tallies>>
  /\ missed' = IF loop[p] \in InHand THEN missed \cup {<<p, position[p]>>}
                                     ELSE missed

\* Mutant of Commit: the session is closed without a commit.
CommitForgotten(p) ==
  /\ Enter(p, {"recorded"}, "waiting")
  /\ UNCHANGED <<group, first, position, alive, incarnation, term_stats, history>>

Commit(p) ==
  /\ Enter(p, {"recorded"}, "waiting")
  /\ CommitTally(p)
  /\ UNCHANGED <<group, first, position, alive, incarnation, missed>>

\* Mutant of GiveUp: only the commit is timed.
GiveUpCommit(p) ==
  /\ timer[p] = MessageTimeout
  /\ Enter(p, {"recorded"}, "waiting")
  /\ CutShort(p)
  /\ UNCHANGED <<group, first, position, alive, incarnation>>

\* TimeoutError: on to the next message.
GiveUp(p) ==
  /\ timer[p] = MessageTimeout
  /\ Enter(p, InHand, "waiting")
  /\ CutShort(p)
  /\ UNCHANGED <<group, first, position, alive, incarnation>>

\* Any other exception, of the tally or of the client library, ends the loop,
\* but not the consumer.
Fail(p) ==
  /\ Enter(p, {"waiting"} \cup InHand, "backoff")
  /\ CutShort(p)
  /\ UNCHANGED <<group, first, position, alive, incarnation>>

\* _supervise: the loop again, on the same consumer.
Resume(p) ==
  /\ timer[p] = Backoff
  /\ Enter(p, {"backoff"}, "waiting")
  /\ mark_alive(p)
  /\ UNCHANGED <<group, first, position, term_stats, incarnation, history>>

\* lifespan's end: the supervisors are cancelled and the consumer is stopped,
\* which commits its position.
Shutdown(p) ==
  /\ incarnation[p] <= MaxRestarts[p]
  /\ Enter(p, Loop \ {"down"}, "down")
  /\ CutShort(p)
  /\ offset' = [offset EXCEPT ![p] = position[p]]
  /\ mark_alive(p)
  /\ UNCHANGED <<log, first, position, incarnation>>

\* The process dies, or the group takes it for dead.  The client library has
\* committed some position the member was at, or none.
Crash(p) ==
  /\ incarnation[p] <= MaxRestarts[p]
  /\ Enter(p, Loop \ {"down"}, "down")
  /\ CutShort(p)
  /\ \E n \in {offset[p]} \cup first[p]..position[p] :
       offset' = [offset EXCEPT ![p] = n]
  /\ mark_alive(p)
  /\ UNCHANGED <<log, first, position, incarnation>>

Timed(p) ==
  CASE loop[p] \in InHand   -> MessageTimeout
    [] loop[p] = "backoff"  -> Backoff
    [] OTHER                -> 0

Tick ==
  /\ \A p \in Partition : Timed(p) > 0 => timer[p] < Timed(p)
  /\ timer' = [p \in Partition |-> IF Timed(p) > 0 THEN timer[p] + 1 ELSE 0]
  /\ alive' = [p \in Partition |->
       IF Running(p) /\ alive[p] <= MaxAge THEN alive[p] + 1 ELSE alive[p]]
  /\ UNCHANGED <<group, first, position, loop, pending, incarnation, term_stats, history>>

-----------------------------------------------------------------------------
\* What the process does by itself, the database not helping.
Advance(p) == Start(p) \/ Receive(p) \/ GiveUp(p) \/ Resume(p)

Next ==
  \/ \E p \in Partition :
       \/ \E m \in Message : Produce(p, m)
       \/ Advance(p)
       \/ Record(p) \/ Commit(p) \/ Fail(p)
       \/ Shutdown(p) \/ Crash(p)
  \/ Tick

Spec == Init /\ [][Next]_vars

\* Processes run and are started again, time passes, and the client library
\* does not fail for ever with a message at hand.  Nothing is asked of the
\* database: a transaction may hang for ever.
Fairness ==
  /\ WF_vars(Tick)
  /\ \A p \in Partition : WF_vars(Advance(p)) /\ SF_vars(Receive(p))

FairSpec == Spec /\ Fairness

-----------------------------------------------------------------------------
(* Properties.                                                             *)

MessageOf(r) == log[r.part][r.at]

\* term_stats counts what was committed, and every message at most once for each
\* incarnation of the consumer that was given it: no increment of another member
\* is overwritten, and no message is taken up again after a commit that nobody
\* waited for (SQLTermStatsRepository.record, consume_answer_graded).
CountsAreExact ==
  \A t \in TermId, v \in Verdict :
    term_stats[t][v] =
      Cardinality({r \in tallies : MessageOf(r) = [term_id |-> t, verdict |-> v]})

\* A message that was passed has been counted, unless it made no sense, came
\* before the group's first offset, or met a fault while it was in hand
\* (consume_answer_graded, _supervise; "self-heals", ADR-0011).
PassedAreCounted ==
  \A p \in Partition : \A i \in 1..position[p] :
    \/ log[p][i] = Malformed
    \/ <<p, i>> \in missed
    \/ loop[p] \in InHand /\ i = position[p]
    \/ \E r \in tallies : r.part = p /\ r.at = i

\* Every message is passed sooner or later, even if the database hangs on each
\* of them: that is what the timeout is for (MESSAGE_TIMEOUT_SECONDS).
EveryMessagePassed ==
  \A p \in Partition : \A i \in 1..MaxMessages[p] :
    Len(log[p]) >= i ~> position[p] >= i

\* /ready never gives the stats consumer as the reason for being degraded while that
\* consumer has a message in hand, however often it failed or hung before: the
\* maximal age exceeds what a message may take.  (Of the invalidator of the same
\* process it says what it likes; ready, ConsumerHealth, consume_answer_graded).
BusyNeverStale ==
  \A p \in Partition, invalidatorStale \in BOOLEAN :
    ready(p, invalidatorStale) = "answer_graded_stats_consumer_stale"
      => loop[p] \notin InHand
=============================================================================
