-------------------------- MODULE ConsumersProofs --------------------------
(***************************************************************************)
(* Proofs about Consumers: types, that the counters of term_stats are      *)
(* exact, that no message goes uncounted without a fault, and that a busy  *)
(* consumer is never reported stale.                                       *)
(***************************************************************************)
EXTENDS Consumers, FiniteSetTheorems, TLAPS

\* Producing appends to one log: its type, and what the logs then have where.
LEMMA LogGrows ==
  ASSUME log \in [Partition -> Seq(Message)],
         NEW p \in Partition, NEW m \in Message, Produce(p, m)
  PROVE  /\ log' \in [Partition -> Seq(Message)]
         /\ \A q \in Partition : Len(log[q]) <= Len(log'[q])
         /\ \A q \in Partition : \A i \in 1..Len(log[q]) : log'[q][i] = log[q][i]
<1>1. log' = [log EXCEPT ![p] = Append(log[p], m)]
  BY DEF Produce
<1>2. log[p] \in Seq(Message)
  OBVIOUS
<1>3. /\ Append(log[p], m) \in Seq(Message)
      /\ Len(Append(log[p], m)) = Len(log[p]) + 1
      /\ Len(log[p]) \in Nat
      /\ \A i \in 1..Len(log[p]) : Append(log[p], m)[i] = log[p][i]
  BY <1>2
<1>4. ASSUME NEW q \in Partition
      PROVE  /\ Len(log[q]) <= Len(log'[q])
             /\ \A i \in 1..Len(log[q]) : log'[q][i] = log[q][i]
  <2>1. Len(log[q]) \in Nat
    OBVIOUS
  <2>2. CASE q = p
    BY <1>1, <1>3, <2>2
  <2>3. CASE q # p
    BY <1>1, <2>1, <2>3
  <2>. QED BY <2>2, <2>3
<1>5. log' \in [Partition -> Seq(Message)]
  BY <1>1, <1>3
<1>. QED BY <1>4, <1>5

LEMMA InHandIsGraded ==
  ASSUME TypeOK, NEW p \in Partition, loop[p] \in InHand
  PROVE  /\ InHandOf(p).term_id \in TermId
         /\ InHandOf(p).verdict \in Verdict
         /\ position[p] \in 1..Len(log[p])
         /\ InHandOf(p) = [term_id |-> InHandOf(p).term_id, verdict |-> InHandOf(p).verdict]
<1>1. InHandOf(p) \in Graded
  BY DEF TypeOK, InHandOf
<1>2. /\ position[p] \in Nat /\ position[p] > 0
      /\ position[p] <= Len(log[p]) /\ Len(log[p]) \in Nat
  BY DEF TypeOK
<1>. QED BY <1>1, <1>2 DEF Graded

-----------------------------------------------------------------------------
(* Types.                                                                  *)

LEMMA ProduceTyping ==
  ASSUME TypeOK, NEW p \in Partition, NEW m \in Message, Produce(p, m)
  PROVE  TypeOK'
<1>1. /\ log' \in [Partition -> Seq(Message)]
      /\ \A q \in Partition : Len(log[q]) <= Len(log'[q])
      /\ \A q \in Partition : \A i \in 1..Len(log[q]) : log'[q][i] = log[q][i]
  BY LogGrows DEF TypeOK
<1>2. UNCHANGED <<offset, member, term_stats, history>>
  BY DEF Produce
<1>3. \A q \in Partition : Len(log[q]) \in Nat /\ Len(log'[q]) \in Nat
  BY <1>1, SMTT(30) DEF TypeOK
<1>4. \A q \in Partition : loop[q] \in InHand => position[q] \in 1..Len(log[q])
  BY <1>3, SMTT(30) DEF TypeOK
<1>5. \A q \in Partition :
        loop'[q] \in InHand => position'[q] > 0 /\ log'[q][position'[q]] \in Graded
  BY <1>1, <1>2, <1>4 DEF TypeOK, member
<1>6. \A q \in Partition : first'[q] <= position'[q] /\ position'[q] <= Len(log'[q])
  BY <1>1, <1>2, <1>3, SMTT(30) DEF TypeOK, member
<1>. QED BY <1>1, <1>2, <1>5, <1>6 DEF TypeOK, member, history

LEMMA StartTyping ==
  ASSUME TypeOK, NEW p \in Partition, Start(p)
  PROVE  TypeOK'
<1>. USE DEF TypeOK
<1>1. Len(log[p]) \in Nat
  OBVIOUS
<1>2. /\ position' = [position EXCEPT ![p] = position'[p]]
      /\ position'[p] \in Nat /\ position'[p] <= Len(log[p])
      /\ offset[p] # NoOffset => offset[p] <= position'[p]
  BY <1>1, ConsumerConstants, SMTT(30) DEF Start
<1>3. first' = [first EXCEPT ![p] = position'[p]]
  BY DEF Start
<1>4. missed' \subseteq Partition \X Nat
  BY <1>1 DEF Start
<1>5. UNCHANGED <<log, offset, term_stats, tallies>>
  BY DEF Start, group
<1>6. /\ loop' = [loop EXCEPT ![p] = "waiting"]
      /\ timer' = [timer EXCEPT ![p] = 0]
      /\ pending' = [pending EXCEPT ![p] = 0]
      /\ alive' = [alive EXCEPT ![p] = 0]
      /\ incarnation' = [incarnation EXCEPT ![p] = @ + 1]
  BY DEF Start, Enter, mark_alive
<1>7. alive' \in [Partition -> 0..(MaxAge + 1)]
  BY <1>6, ConsumerConstants
<1>8. \A q \in Partition : /\ first'[q] <= position'[q] /\ position'[q] <= Len(log[q])
                           /\ offset[q] # NoOffset => offset[q] <= position'[q]
  BY <1>2, <1>3, SMTT(30)
<1>9. \A q \in Partition :
        loop'[q] \in InHand => position'[q] > 0 /\ log[q][position'[q]] \in Graded
  BY <1>2, <1>6 DEF InHand
<1>10. loop' \in [Partition -> Loop]
  BY <1>6 DEF Loop
<1>11. /\ timer' \in [Partition -> Nat] /\ pending' \in [Partition -> Nat]
       /\ incarnation' \in [Partition -> Nat]
  BY <1>6
<1>12. position' \in [Partition -> Nat] /\ first' \in [Partition -> Nat]
  BY <1>2, <1>3
<1>. QED BY <1>4, <1>5, <1>7, <1>8, <1>9, <1>10, <1>11, <1>12

LEMMA ReceiveTyping ==
  ASSUME TypeOK, NEW p \in Partition, Receive(p)
  PROVE  TypeOK'
<1>. USE DEF TypeOK
<1>1. Len(log[p]) \in Nat /\ position[p] \in Nat /\ position[p] < Len(log[p])
  BY DEF Receive
<1>2. position' = [position EXCEPT ![p] = position[p] + 1]
  BY DEF Receive
<1>3. UNCHANGED <<log, offset, first, term_stats, incarnation, tallies, missed>>
  BY DEF Receive, group, history
<1>4. /\ loop[p] = "waiting"
      /\ loop' = [loop EXCEPT ![p] = IF log[p][position[p] + 1] = Malformed
                                     THEN "waiting" ELSE "recording"]
      /\ timer' = [timer EXCEPT ![p] = 0]
      /\ pending' = [pending EXCEPT ![p] = 0]
      /\ alive' = [alive EXCEPT ![p] = 0]
  BY DEF Receive, Enter, mark_alive
<1>5. log[p][position[p] + 1] \in Message
  BY <1>1
<1>6. loop'[p] \in InHand => log[p][position[p] + 1] \in Graded
  BY <1>4, <1>5 DEF InHand, Message
<1>7. \A q \in Partition : first[q] <= position'[q] /\ position'[q] <= Len(log[q])
  BY <1>1, <1>2
<1>8. \A q \in Partition : offset[q] # NoOffset => offset[q] <= position'[q]
  <2>1. offset[p] # NoOffset => offset[p] \in Nat /\ offset[p] <= position[p]
    OBVIOUS
  <2>. QED BY <1>1, <1>2, <2>1
<1>9. \A q \in Partition :
        loop'[q] \in InHand => position'[q] > 0 /\ log[q][position'[q]] \in Graded
  <2>1. ASSUME NEW q \in Partition, loop'[q] \in InHand, q # p
        PROVE  position'[q] > 0 /\ log[q][position'[q]] \in Graded
    BY <1>2, <1>4, <2>1
  <2>. QED BY <1>1, <1>2, <1>6, <2>1, SMTT(30)
<1>10. loop' \in [Partition -> Loop]
  BY <1>4 DEF Loop
<1>11. alive' \in [Partition -> 0..(MaxAge + 1)]
  BY <1>4, ConsumerConstants, SMTT(30)
<1>. QED BY <1>1, <1>2, <1>3, <1>4, <1>7, <1>8, <1>9, <1>10, <1>11, SMTT(30)

\* What a COMMIT and what is cut short do to the counters and the history.
LEMMA CommitTallyTyping ==
  ASSUME TypeOK, NEW p \in Partition, loop[p] = "recorded", CommitTally(p)
  PROVE  /\ term_stats' \in [TermId -> TermStats]
         /\ tallies' \subseteq Tally
<1>1. /\ InHandOf(p).term_id \in TermId /\ InHandOf(p).verdict \in Verdict
  BY InHandIsGraded DEF InHand
<1>2. pending[p] \in Nat /\ position[p] \in Nat /\ incarnation[p] \in Nat
  BY DEF TypeOK
<1>3. term_stats' \in [TermId -> TermStats]
  BY <1>1, <1>2 DEF CommitTally, TypeOK, TermStats
<1>4. [part |-> p, at |-> position[p], incarnation |-> incarnation[p]] \in Tally
  BY <1>2 DEF Tally
<1>. QED BY <1>3, <1>4 DEF CommitTally, TypeOK

LEMMA CutShortTyping ==
  ASSUME TypeOK, NEW p \in Partition, CutShort(p)
  PROVE  /\ term_stats' \in [TermId -> TermStats]
         /\ tallies' \subseteq Tally
         /\ missed' \subseteq Partition \X Nat
         /\ missed \subseteq missed'
<1>1. term_stats' \in [TermId -> TermStats] /\ tallies' \subseteq Tally
  BY CommitTallyTyping DEF CutShort, TypeOK
<1>2. missed' \subseteq Partition \X Nat /\ missed \subseteq missed'
  BY DEF CutShort, TypeOK
<1>. QED BY <1>1, <1>2

\* A member leaves what it was doing for the loop's next round, for the backoff or
\* for good.
LEMMA EnterTyping ==
  ASSUME TypeOK, NEW p \in Partition, NEW from, NEW to \in Loop \ InHand,
         Enter(p, from, to)
  PROVE  /\ loop' \in [Partition -> Loop]
         /\ timer' \in [Partition -> Nat]
         /\ pending' \in [Partition -> Nat]
         /\ \A q \in Partition : loop'[q] \in InHand => q # p /\ loop'[q] = loop[q]
BY DEF TypeOK, Enter

LEMMA TypingStep ==
  ASSUME TypeOK, [Next]_vars
  PROVE  TypeOK'
<1>1. ASSUME NEW p \in Partition, NEW m \in Message, Produce(p, m)
      PROVE  TypeOK'
  BY <1>1, ProduceTyping
<1>2. ASSUME NEW p \in Partition, Start(p)
      PROVE  TypeOK'
  BY <1>2, StartTyping
<1>3. ASSUME NEW p \in Partition, Receive(p)
      PROVE  TypeOK'
  BY <1>3, ReceiveTyping
<1>4. ASSUME NEW p \in Partition, Record(p)
      PROVE  TypeOK'
  <2>1. /\ loop[p] = "recording"
        /\ loop' = [loop EXCEPT ![p] = "recorded"]
        /\ UNCHANGED <<log, offset, first, position, timer, alive, incarnation,
                       term_stats, tallies, missed>>
    BY <1>4 DEF Record, group, history
  <2>2. /\ InHandOf(p).term_id \in TermId /\ InHandOf(p).verdict \in Verdict
    BY <2>1, InHandIsGraded DEF InHand
  <2>3. pending' \in [Partition -> Nat]
    BY <1>4, <2>2 DEF Record, TypeOK, TermStats
  <2>4. \A q \in Partition : loop'[q] \in InHand => loop[q] \in InHand
    BY <2>1 DEF InHand, TypeOK
  <2>5. loop' \in [Partition -> Loop]
    BY <2>1 DEF TypeOK, Loop
  <2>. QED BY <2>1, <2>3, <2>4, <2>5 DEF TypeOK
<1>5. ASSUME NEW p \in Partition, Commit(p)
      PROVE  TypeOK'
  <2>1. term_stats' \in [TermId -> TermStats] /\ tallies' \subseteq Tally
    BY <1>5, CommitTallyTyping DEF Commit, Enter
  <2>2. /\ loop' \in [Partition -> Loop]
        /\ timer' \in [Partition -> Nat]
        /\ pending' \in [Partition -> Nat]
        /\ \A q \in Partition : loop'[q] \in InHand => q # p /\ loop'[q] = loop[q]
    BY <1>5, EnterTyping DEF Commit, Loop, InHand
  <2>. QED BY <1>5, <2>1, <2>2 DEF Commit, TypeOK, group
<1>6. ASSUME NEW p \in Partition, GiveUp(p) \/ Fail(p)
      PROVE  TypeOK'
  <2>1. /\ term_stats' \in [TermId -> TermStats] /\ tallies' \subseteq Tally
        /\ missed' \subseteq Partition \X Nat
    BY <1>6, CutShortTyping DEF GiveUp, Fail
  <2>2. /\ loop' \in [Partition -> Loop]
        /\ timer' \in [Partition -> Nat]
        /\ pending' \in [Partition -> Nat]
        /\ \A q \in Partition : loop'[q] \in InHand => q # p /\ loop'[q] = loop[q]
    BY <1>6, EnterTyping DEF GiveUp, Fail, Loop, InHand
  <2>. QED BY <1>6, <2>1, <2>2 DEF GiveUp, Fail, TypeOK, group
<1>7. ASSUME NEW p \in Partition, Resume(p)
      PROVE  TypeOK'
  <2>1. /\ loop' \in [Partition -> Loop]
        /\ timer' \in [Partition -> Nat]
        /\ pending' \in [Partition -> Nat]
        /\ \A q \in Partition : loop'[q] \in InHand => q # p /\ loop'[q] = loop[q]
    BY <1>7, EnterTyping DEF Resume, Loop, InHand
  <2>2. alive' \in [Partition -> 0..(MaxAge + 1)]
    BY <1>7, ConsumerConstants DEF Resume, mark_alive, TypeOK
  <2>. QED BY <1>7, <2>1, <2>2 DEF Resume, TypeOK, group, history
<1>8. ASSUME NEW p \in Partition, Shutdown(p) \/ Crash(p)
      PROVE  TypeOK'
  <2>1. /\ term_stats' \in [TermId -> TermStats] /\ tallies' \subseteq Tally
        /\ missed' \subseteq Partition \X Nat
    BY <1>8, CutShortTyping DEF Shutdown, Crash
  <2>2. /\ loop' \in [Partition -> Loop]
        /\ timer' \in [Partition -> Nat]
        /\ pending' \in [Partition -> Nat]
        /\ \A q \in Partition : loop'[q] \in InHand => q # p /\ loop'[q] = loop[q]
    BY <1>8, EnterTyping DEF Shutdown, Crash, Loop, InHand
  <2>3. alive' \in [Partition -> 0..(MaxAge + 1)]
    <3>1. MaxAge \in Nat /\ alive' = [alive EXCEPT ![p] = 0]
      BY <1>8, ConsumerConstants DEF Shutdown, Crash, mark_alive
    <3>. QED BY <3>1 DEF TypeOK
  <2>4. PICK n \in {offset[p]} \cup 0..position[p] : offset' = [offset EXCEPT ![p] = n]
    BY <1>8 DEF Shutdown, Crash, TypeOK
  <2>5. /\ offset' \in [Partition -> Nat \cup {NoOffset}]
        /\ \A q \in Partition : offset'[q] # NoOffset => offset'[q] <= position[q]
    BY <2>4 DEF TypeOK
  <2>. QED BY <1>8, <2>1, <2>2, <2>3, <2>5 DEF Shutdown, Crash, TypeOK
<1>9. ASSUME Tick
      PROVE  TypeOK'
  <2>1. timer' \in [Partition -> Nat]
    BY <1>9 DEF Tick, TypeOK
  <2>2. alive' \in [Partition -> 0..(MaxAge + 1)]
    <3>1. MaxAge \in Nat
      BY ConsumerConstants
    <3>. QED BY <1>9, <3>1 DEF Tick, TypeOK
  <2>. QED BY <1>9, <2>1, <2>2 DEF Tick, TypeOK, group, history
<1>10. ASSUME UNCHANGED vars
       PROVE  TypeOK'
  BY <1>10 DEF TypeOK, vars, group, member, history
<1>. QED BY <1>1, <1>2, <1>3, <1>4, <1>5, <1>6, <1>7, <1>8, <1>9, <1>10 DEF Next, Advance

\* Types are right in every reachable state, for any topics, partitions, terms and
\* timeouts, however often members fail, hang, stop or die.
THEOREM ConsumersTyping == Spec => []TypeOK
<1>1. Init => TypeOK
  <2>. SUFFICES ASSUME Init PROVE TypeOK
    OBVIOUS
  <2>1. \A p \in Partition : Len(log[p]) = 0 /\ log[p] \in Seq(Message)
    BY DEF Init
  <2>2. log \in [Partition -> Seq(Message)]
    BY DEF Init
  <2>. QED BY <2>1, <2>2, ConsumerConstants DEF Init, TypeOK, Loop, InHand, TermStats
<1>. QED BY <1>1, TypingStep, PTL DEF Spec

-----------------------------------------------------------------------------
(* A busy consumer is never stale.                                         *)

\* Whoever has a message in hand was alive when it came, and the timer runs since.
InHandTimed ==
  \A p \in Partition :
    loop[p] \in InHand => alive[p] <= timer[p] /\ timer[p] <= MessageTimeout

\* Seven of the actions leave the member with nothing in hand, and the others as
\* they were.
LEMMA HandsEmptied ==
  ASSUME TypeOK, NEW p \in Partition,
         Start(p) \/ Commit(p) \/ GiveUp(p) \/ Fail(p) \/ Resume(p) \/ Shutdown(p) \/ Crash(p)
  PROVE  /\ loop'[p] \notin InHand
         /\ \A q \in Partition \ {p} :
              /\ loop'[q] = loop[q] /\ timer'[q] = timer[q] /\ alive'[q] = alive[q]
              /\ pending'[q] = pending[q] /\ position'[q] = position[q]
              /\ incarnation'[q] = incarnation[q]
         /\ log' = log
<1>. USE DEF InHand
<1>1. ASSUME NEW from, NEW to \in Loop \ InHand, Enter(p, from, to)
      PROVE  /\ loop'[p] \notin InHand
             /\ \A q \in Partition \ {p} :
                  loop'[q] = loop[q] /\ timer'[q] = timer[q] /\ pending'[q] = pending[q]
  BY <1>1 DEF Enter, TypeOK
<1>2. /\ loop'[p] \notin InHand
      /\ \A q \in Partition \ {p} :
           loop'[q] = loop[q] /\ timer'[q] = timer[q] /\ pending'[q] = pending[q]
  BY <1>1 DEF Start, Commit, GiveUp, Fail, Resume, Shutdown, Crash, Loop
<1>3. alive' = alive \/ alive' = [alive EXCEPT ![p] = 0]
  BY DEF Start, Commit, GiveUp, Fail, Resume, Shutdown, Crash, mark_alive
<1>4. position' = position \/ position' = [position EXCEPT ![p] = position'[p]]
  <2>1. Start(p) => position' = [position EXCEPT ![p] = position'[p]]
    BY DEF Start, TypeOK
  <2>. QED BY <2>1 DEF Commit, GiveUp, Fail, Resume, Shutdown, Crash
<1>5. incarnation' = incarnation \/ incarnation' = [incarnation EXCEPT ![p] = @ + 1]
  BY DEF Start, Commit, GiveUp, Fail, Resume, Shutdown, Crash
<1>6. log' = log
  BY DEF Start, Commit, GiveUp, Fail, Resume, Shutdown, Crash, group
<1>7. \A q \in Partition \ {p} :
        alive'[q] = alive[q] /\ position'[q] = position[q] /\ incarnation'[q] = incarnation[q]
  BY <1>3, <1>4, <1>5 DEF TypeOK
<1>. QED BY <1>2, <1>6, <1>7

LEMMA InHandTimedStep ==
  ASSUME TypeOK, InHandTimed, [Next]_vars
  PROVE  InHandTimed'
<1>0. MessageTimeout \in Nat /\ MessageTimeout > 0 /\ MaxAge \in Nat /\ Backoff \in Nat
  BY ConsumerConstants
<1>1. ASSUME NEW p \in Partition, NEW m \in Message, Produce(p, m)
      PROVE  InHandTimed'
  BY <1>1 DEF Produce, InHandTimed, member
<1>2. ASSUME NEW p \in Partition, Receive(p)
      PROVE  InHandTimed'
  <2>1. /\ timer' = [timer EXCEPT ![p] = 0] /\ alive' = [alive EXCEPT ![p] = 0]
        /\ \A q \in Partition \ {p} : loop'[q] = loop[q]
    BY <1>2 DEF Receive, Enter, mark_alive, TypeOK
  <2>. QED BY <1>0, <2>1, SMTT(30) DEF InHandTimed, TypeOK
<1>3. ASSUME NEW p \in Partition, Record(p)
      PROVE  InHandTimed'
  <2>1. \A q \in Partition : loop'[q] \in InHand => loop[q] \in InHand
    BY <1>3 DEF Record, InHand, TypeOK
  <2>. QED BY <1>3, <2>1 DEF Record, InHandTimed
<1>4. ASSUME NEW p \in Partition,
             Start(p) \/ Commit(p) \/ GiveUp(p) \/ Fail(p) \/ Resume(p) \/ Shutdown(p) \/ Crash(p)
      PROVE  InHandTimed'
  BY <1>4, HandsEmptied DEF InHandTimed
<1>5. ASSUME Tick
      PROVE  InHandTimed'
  <2>. SUFFICES ASSUME NEW p \in Partition, loop[p] \in InHand
                PROVE  alive'[p] <= timer'[p] /\ timer'[p] <= MessageTimeout
    BY <1>5 DEF Tick, InHandTimed
  <2>1. Timed(p) = MessageTimeout
    BY DEF Timed, InHand
  <2>2. timer[p] < MessageTimeout /\ timer'[p] = timer[p] + 1
    BY <1>0, <1>5, <2>1 DEF Tick
  <2>3. alive'[p] = alive[p] \/ alive'[p] = alive[p] + 1
    BY <1>5 DEF Tick
  <2>. QED BY <1>0, <2>2, <2>3 DEF InHandTimed, TypeOK
<1>6. ASSUME UNCHANGED vars
      PROVE  InHandTimed'
  BY <1>6 DEF InHandTimed, vars, member
<1>. QED BY <1>1, <1>2, <1>3, <1>4, <1>5, <1>6 DEF Next, Advance

\* /ready never blames a stats consumer that has a message in hand, whatever the
\* health of the process's other consumer, the timeout of a message, the backoff and
\* the maximal age, if only the age is not below the timeout (5 s and 60 s in the
\* code; BusyNeverStale: ready, ConsumerHealth, consume_answer_graded).
THEOREM BusyConsumersReady == Spec => []BusyNeverStale
<1>1. Init => InHandTimed
  BY DEF Init, InHandTimed, InHand
<1>2. TypeOK /\ InHandTimed => BusyNeverStale
  <2>. SUFFICES ASSUME TypeOK, InHandTimed, NEW p \in Partition, loop[p] \in InHand,
                       NEW other \in BOOLEAN
                PROVE  ready(p, other) # "answer_graded_stats_consumer_stale"
    BY DEF BusyNeverStale
  <2>1. alive[p] <= timer[p] /\ timer[p] <= MessageTimeout /\ alive[p] \in Nat
        /\ timer[p] \in Nat
    BY DEF InHandTimed, TypeOK
  <2>2. MessageTimeout \in Nat /\ MaxAge \in Nat /\ MessageTimeout <= MaxAge
    BY ConsumerConstants
  <2>3. ~(alive[p] > MaxAge)
    BY <2>1, <2>2
  <2>. QED BY <2>3 DEF ready, is_stale
<1>. QED BY <1>1, <1>2, InHandTimedStep, ConsumersTyping, PTL DEF Spec

-----------------------------------------------------------------------------
(* No message is passed over without a fault.                              *)

\* What has become of the i-th message of a partition.
Accounted(p, i) ==
  \/ log[p][i] = Malformed
  \/ <<p, i>> \in missed
  \/ loop[p] \in InHand /\ i = position[p]
  \/ \E r \in tallies : r.part = p /\ r.at = i

LEMMA PassedStep ==
  ASSUME TypeOK, PassedAreCounted, [Next]_vars
  PROVE  PassedAreCounted'
<1>. SUFFICES ASSUME NEW q \in Partition, NEW i \in 1..position'[q]
              PROVE  Accounted(q, i)'
  BY DEF PassedAreCounted, Accounted
<1>1. i \in 1..position[q] => Accounted(q, i)
  BY DEF PassedAreCounted, Accounted
<1>2. /\ position[q] \in Nat /\ Len(log[q]) \in Nat /\ position[q] <= Len(log[q])
      /\ i \in Int /\ i >= 1
  BY DEF TypeOK
<1>3. ASSUME NEW p \in Partition, NEW m \in Message, Produce(p, m)
      PROVE  Accounted(q, i)'
  <2>1. UNCHANGED <<position, loop, tallies, missed>>
    BY <1>3 DEF Produce, member, history
  <2>2. log'[q][i] = log[q][i]
    BY <1>2, <1>3, <2>1, LogGrows, SMTT(30) DEF TypeOK
  <2>. QED BY <1>1, <2>1, <2>2 DEF Accounted
<1>4. ASSUME NEW p \in Partition, Start(p)
      PROVE  Accounted(q, i)'
  <2>1. /\ log' = log /\ tallies' = tallies /\ missed \subseteq missed'
        /\ loop[p] = "down" /\ loop[p] \notin InHand
    BY <1>4 DEF Start, Enter, group, InHand
  <2>2. CASE q # p
    <3>1. position'[q] = position[q] /\ loop'[q] = loop[q]
      BY <1>4, <2>2, HandsEmptied
    <3>. QED BY <1>1, <2>1, <3>1 DEF Accounted
  <2>3. CASE q = p /\ offset[p] = NoOffset
    <3>1. position'[p] = Len(log[p]) /\ (i \in 1..Len(log[p]) => <<p, i>> \in missed')
      BY <1>4, <2>3 DEF Start, TypeOK
    <3>. QED BY <2>3, <3>1 DEF Accounted
  <2>4. CASE q = p /\ offset[p] # NoOffset
    <3>1. position'[p] = offset[p] /\ offset[p] \in Nat /\ offset[p] <= position[p]
      BY <1>4, <2>4 DEF Start, TypeOK
    <3>2. i \in 1..position[q]
      BY <1>2, <2>4, <3>1
    <3>. QED BY <1>1, <2>1, <2>4, <3>2 DEF Accounted
  <2>. QED BY <2>2, <2>3, <2>4
<1>5. ASSUME NEW p \in Partition, Receive(p)
      PROVE  Accounted(q, i)'
  <2>1. /\ UNCHANGED <<log, tallies, missed>>
        /\ loop[p] = "waiting" /\ loop[p] \notin InHand
        /\ position' = [position EXCEPT ![p] = position[p] + 1]
        /\ loop' = [loop EXCEPT ![p] = IF log[p][position[p] + 1] = Malformed
                                       THEN "waiting" ELSE "recording"]
    BY <1>5 DEF Receive, Enter, group, history, InHand
  <2>2. CASE q # p
    <3>1. position'[q] = position[q] /\ loop'[q] = loop[q]
      BY <2>1, <2>2 DEF TypeOK
    <3>. QED BY <1>1, <2>1, <3>1 DEF Accounted
  <2>3. CASE q = p
    <3>1. position'[p] = position[p] + 1
      BY <2>1 DEF TypeOK
    <3>2. CASE i \in 1..position[p]
      BY <1>1, <2>1, <2>3, <3>2 DEF Accounted
    <3>3. CASE i = position[p] + 1
      <4>1. log[p][i] = Malformed \/ loop'[p] = "recording"
        BY <2>1, <3>3 DEF TypeOK
      <4>. QED BY <2>1, <2>3, <3>1, <3>3, <4>1 DEF InHand, Accounted
    <3>. QED BY <1>2, <2>3, <3>1, <3>2, <3>3
  <2>. QED BY <2>2, <2>3
<1>6. ASSUME NEW p \in Partition, Record(p)
      PROVE  Accounted(q, i)'
  <2>1. loop[q] \in InHand => loop'[q] \in InHand
    BY <1>6 DEF Record, InHand, TypeOK
  <2>2. UNCHANGED <<log, position, tallies, missed>>
    BY <1>6 DEF Record, group, history
  <2>. QED BY <1>1, <2>1, <2>2 DEF Accounted
<1>7. ASSUME NEW p \in Partition,
             Commit(p) \/ GiveUp(p) \/ Fail(p) \/ Resume(p) \/ Shutdown(p) \/ Crash(p)
      PROVE  Accounted(q, i)'
  <2>1. log' = log /\ position' = position /\ missed \subseteq missed'
    BY <1>7 DEF Commit, GiveUp, Fail, Resume, Shutdown, Crash, CutShort, group, history
  <2>2. tallies \subseteq tallies'
    BY <1>7 DEF Commit, GiveUp, Fail, Resume, Shutdown, Crash, CutShort, CommitTally, history
  <2>3. loop[p] \in InHand =>
          \/ <<p, position[p]>> \in missed'
          \/ \E r \in tallies' : r.part = p /\ r.at = position[p]
    <3>1. Commit(p) => [part |-> p, at |-> position[p], incarnation |-> incarnation[p]] \in tallies'
      BY DEF Commit, CommitTally
    <3>2. GiveUp(p) \/ Fail(p) \/ Shutdown(p) \/ Crash(p) =>
            (loop[p] \in InHand => <<p, position[p]>> \in missed')
      BY DEF GiveUp, Fail, Shutdown, Crash, CutShort
    <3>3. Resume(p) => loop[p] \notin InHand
      BY DEF Resume, Enter, InHand
    <3>. QED BY <1>7, <3>1, <3>2, <3>3
  <2>4. CASE q # p
    <3>1. loop'[q] = loop[q]
      BY <1>7, <2>4, HandsEmptied
    <3>. QED BY <1>1, <2>1, <2>2, <3>1 DEF Accounted
  <2>5. CASE q = p
    <3>1. Accounted(q, i)
      BY <1>1, <2>1
    <3>2. CASE loop[q] \in InHand /\ i = position[q]
      BY <2>1, <2>3, <2>5, <3>2 DEF Accounted
    <3>3. CASE ~(loop[q] \in InHand /\ i = position[q])
      BY <2>1, <2>2, <3>1, <3>3 DEF Accounted
    <3>. QED BY <3>2, <3>3
  <2>. QED BY <2>4, <2>5
<1>8. ASSUME Tick \/ UNCHANGED vars
      PROVE  Accounted(q, i)'
  <2>1. UNCHANGED <<log, position, loop, tallies, missed>>
    BY <1>8 DEF Tick, vars, group, member, history
  <2>. QED BY <1>1, <2>1 DEF Accounted
<1>. QED BY <1>3, <1>4, <1>5, <1>6, <1>7, <1>8 DEF Next, Advance

\* Whatever a member has passed has been counted, made no sense, came before the
\* group's first offset, or met a fault while in hand: nothing else is lost, for any
\* number of members, restarts and messages (PassedAreCounted;
\* consume_answer_graded, _supervise).
THEOREM NothingPassedOver == Spec => []PassedAreCounted
<1>1. Init => PassedAreCounted
  <2>. SUFFICES ASSUME Init, NEW p \in Partition, NEW i \in 1..position[p] PROVE FALSE
    BY DEF PassedAreCounted
  <2>. QED BY DEF Init
<1>. QED BY <1>1, PassedStep, ConsumersTyping, PTL DEF Spec

-----------------------------------------------------------------------------
(* The counters are exact.                                                 *)

\* A member commits a tally only of messages it was given, and in one incarnation it
\* never returns to one it has committed.
TalliedGiven ==
  \A r \in tallies :
    /\ r.at \in 1..Len(log[r.part])
    /\ r.incarnation <= incarnation[r.part]
    /\ r.incarnation = incarnation[r.part] =>
         /\ r.at <= position[r.part]
         /\ loop[r.part] \in InHand => r.at < position[r.part]

\* No two open transactions hold the row of one term.
RowsHeld ==
  \A p, o \in Partition :
    loop[p] = "recorded" /\ loop[o] = "recorded" /\ p # o =>
      InHandOf(p).term_id # InHandOf(o).term_id

\* What an open transaction has written is still the next value of the counter.
PendingIsNext ==
  \A p \in Partition : loop[p] = "recorded" =>
    pending[p] = term_stats[InHandOf(p).term_id][InHandOf(p).verdict] + 1

TallyInv ==
  /\ IsFiniteSet(tallies)
  /\ TalliedGiven
  /\ RowsHeld
  /\ PendingIsNext
  /\ CountsAreExact

\* The tallies that count for one counter.
TalliesOf(t, v) == {r \in tallies : MessageOf(r) = [term_id |-> t, verdict |-> v]}

LEMMA CountsOfTallies ==
  CountsAreExact <=>
    \A t \in TermId, v \in Verdict : term_stats[t][v] = Cardinality(TalliesOf(t, v))
BY DEF CountsAreExact, TalliesOf

\* A step that neither gives a message nor commits a tally, and opens no transaction.
LEMMA NothingTallied ==
  ASSUME TypeOK, TallyInv,
         UNCHANGED <<term_stats, tallies>>,
         \A q \in Partition : \A i \in 1..Len(log[q]) : log'[q][i] = log[q][i],
         \A q \in Partition : Len(log[q]) \in Nat /\ Len(log'[q]) \in Nat /\ Len(log[q]) <= Len(log'[q]),
         \A q \in Partition :
           /\ \/ incarnation'[q] = incarnation[q] /\ position'[q] = position[q]
              \/ incarnation'[q] = incarnation[q] + 1
              \/ /\ incarnation'[q] = incarnation[q]
                 /\ position'[q] = position[q] + 1
                 /\ loop'[q] # "recorded"
           /\ loop'[q] \in InHand /\ incarnation'[q] = incarnation[q] =>
                \/ position'[q] = position[q] + 1
                \/ loop[q] \in InHand
           /\ loop'[q] = "recorded" =>
                loop[q] = "recorded" /\ position'[q] = position[q] /\ pending'[q] = pending[q]
  PROVE  TallyInv'
<1>1. \A r \in tallies : /\ r.part \in Partition /\ r.at \in Nat /\ r.incarnation \in Nat
                         /\ r.at \in 1..Len(log[r.part])
                         /\ position[r.part] \in Nat /\ incarnation[r.part] \in Nat
  BY DEF TypeOK, Tally, TallyInv, TalliedGiven
<1>2. \A q \in Partition : loop'[q] = "recorded" => InHandOf(q)' = InHandOf(q)
  <2>. SUFFICES ASSUME NEW q \in Partition, loop'[q] = "recorded"
                PROVE  InHandOf(q)' = InHandOf(q)
    OBVIOUS
  <2>1. loop[q] = "recorded" /\ position'[q] = position[q]
    OBVIOUS
  <2>2. position[q] \in 1..Len(log[q])
    BY <2>1, InHandIsGraded DEF InHand
  <2>. QED BY <2>1, <2>2 DEF InHandOf
<1>3. IsFiniteSet(tallies)'
  BY DEF TallyInv
<1>4. TalliedGiven'
  <2>. SUFFICES ASSUME NEW r \in tallies
                PROVE  /\ r.at \in 1..Len(log'[r.part])
                       /\ r.incarnation <= incarnation'[r.part]
                       /\ r.incarnation = incarnation'[r.part] =>
                            /\ r.at <= position'[r.part]
                            /\ loop'[r.part] \in InHand => r.at < position'[r.part]
    BY DEF TalliedGiven
  <2>1. /\ r.incarnation <= incarnation[r.part]
        /\ r.incarnation = incarnation[r.part] =>
             /\ r.at <= position[r.part]
             /\ loop[r.part] \in InHand => r.at < position[r.part]
    BY DEF TallyInv, TalliedGiven
  <2>2. r.at \in 1..Len(log'[r.part])
    BY <1>1
  <2>. QED BY <1>1, <2>1, <2>2
<1>5. RowsHeld'
  BY <1>2 DEF TallyInv, RowsHeld
<1>6. PendingIsNext'
  BY <1>2 DEF TallyInv, PendingIsNext
<1>7. \A r \in tallies : MessageOf(r)' = MessageOf(r)
  BY <1>1 DEF MessageOf
<1>8. CountsAreExact'
  <2>. SUFFICES ASSUME NEW t \in TermId, NEW v \in Verdict
                PROVE  term_stats'[t][v] = Cardinality(TalliesOf(t, v)')
    BY DEF CountsAreExact, TalliesOf
  <2>1. TalliesOf(t, v)' = TalliesOf(t, v)
    BY <1>7 DEF TalliesOf
  <2>. QED BY <2>1, CountsOfTallies DEF TallyInv
<1>. QED BY <1>3, <1>4, <1>5, <1>6, <1>8 DEF TallyInv

\* A step that commits what a member's transaction has written.
LEMMA OneTallied ==
  ASSUME TypeOK, TallyInv,
         NEW p \in Partition, loop[p] = "recorded", CommitTally(p),
         UNCHANGED <<log, position, incarnation>>,
         loop'[p] \notin InHand,
         \A q \in Partition \ {p} : loop'[q] = loop[q] /\ pending'[q] = pending[q]
  PROVE  TallyInv'
<1>. DEFINE new == [part |-> p, at |-> position[p], incarnation |-> incarnation[p]]
            t0  == InHandOf(p).term_id
            v0  == InHandOf(p).verdict
<1>1. /\ t0 \in TermId /\ v0 \in Verdict
      /\ position[p] \in 1..Len(log[p])
      /\ InHandOf(p) = [term_id |-> t0, verdict |-> v0]
  BY InHandIsGraded DEF InHand
<1>2. tallies' = tallies \cup {new} /\ new \notin tallies
  <2>1. loop[p] \in InHand /\ position[p] \in Nat
    BY DEF InHand, TypeOK
  <2>. QED BY <2>1 DEF CommitTally, TallyInv, TalliedGiven
<1>3. \A t \in TermId, v \in Verdict :
        term_stats'[t][v] = IF t = t0 /\ v = v0 THEN pending[p] ELSE term_stats[t][v]
  BY <1>1 DEF CommitTally, TypeOK, TermStats
<1>4. pending[p] = term_stats[t0][v0] + 1 /\ term_stats[t0][v0] \in Nat
  BY <1>1 DEF TallyInv, PendingIsNext, TypeOK, TermStats
<1>5. IsFiniteSet(tallies)'
  BY <1>2, FS_AddElement DEF TallyInv
<1>6. TalliedGiven'
  <2>. SUFFICES ASSUME NEW r \in tallies'
                PROVE  /\ r.at \in 1..Len(log[r.part])
                       /\ r.incarnation <= incarnation[r.part]
                       /\ r.incarnation = incarnation[r.part] =>
                            /\ r.at <= position[r.part]
                            /\ loop'[r.part] \in InHand => r.at < position[r.part]
    BY DEF TalliedGiven
  <2>1. CASE r = new
    BY <1>1, <2>1 DEF TypeOK
  <2>2. CASE r \in tallies
    <3>1. r.part \in Partition
      BY <2>2 DEF TypeOK, Tally
    <3>2. loop'[r.part] \in InHand => loop[r.part] \in InHand
      BY <3>1
    <3>. QED BY <2>2, <3>2 DEF TallyInv, TalliedGiven
  <2>. QED BY <1>2, <2>1, <2>2
<1>7. \A q \in Partition : loop'[q] = "recorded" =>
        /\ q # p /\ loop[q] = "recorded" /\ pending'[q] = pending[q]
        /\ InHandOf(q)' = InHandOf(q)
  BY DEF InHand, InHandOf
<1>8. RowsHeld'
  BY <1>7 DEF TallyInv, RowsHeld
<1>9. PendingIsNext'
  <2>. SUFFICES ASSUME NEW q \in Partition, loop'[q] = "recorded"
                PROVE  pending[q] = term_stats'[InHandOf(q).term_id][InHandOf(q).verdict] + 1
    BY <1>7 DEF PendingIsNext
  <2>1. q # p /\ loop[q] = "recorded"
    BY <1>7
  <2>2. InHandOf(q).term_id # t0
    BY <2>1 DEF TallyInv, RowsHeld
  <2>3. InHandOf(q).term_id \in TermId /\ InHandOf(q).verdict \in Verdict
    BY <2>1, InHandIsGraded DEF InHand
  <2>4. term_stats'[InHandOf(q).term_id][InHandOf(q).verdict]
          = term_stats[InHandOf(q).term_id][InHandOf(q).verdict]
    BY <1>3, <2>2, <2>3
  <2>. QED BY <2>1, <2>4 DEF TallyInv, PendingIsNext
<1>10. CountsAreExact'
  <2>. SUFFICES ASSUME NEW t \in TermId, NEW v \in Verdict
                PROVE  term_stats'[t][v] = Cardinality(TalliesOf(t, v)')
    BY DEF CountsAreExact, TalliesOf
  <2>1. \A r : MessageOf(r)' = MessageOf(r)
    BY DEF MessageOf
  <2>2. MessageOf(new) = [term_id |-> t0, verdict |-> v0]
    BY <1>1 DEF MessageOf, InHandOf
  <2>3. IsFiniteSet(TalliesOf(t, v)) /\ term_stats[t][v] = Cardinality(TalliesOf(t, v))
    <3>1. TalliesOf(t, v) \in SUBSET tallies
      BY DEF TalliesOf
    <3>. QED BY <3>1, FS_Subset, CountsOfTallies DEF TallyInv
  <2>4. CASE t = t0 /\ v = v0
    <3>1. TalliesOf(t, v)' = TalliesOf(t, v) \cup {new} /\ new \notin TalliesOf(t, v)
      BY <1>2, <2>1, <2>2, <2>4 DEF TalliesOf
    <3>2. ASSUME NEW S, IsFiniteSet(S), new \notin S
          PROVE  Cardinality(S \cup {new}) = Cardinality(S) + 1
      BY <3>2, FS_AddElement
    <3>3. Cardinality(TalliesOf(t, v)') = Cardinality(TalliesOf(t, v)) + 1
      BY <2>3, <3>1, <3>2
    <3>. QED BY <1>3, <1>4, <2>3, <2>4, <3>3
  <2>5. CASE ~(t = t0 /\ v = v0)
    <3>1. MessageOf(new) # [term_id |-> t, verdict |-> v]
      <4>1. [term_id |-> t, verdict |-> v].term_id = t /\ [term_id |-> t, verdict |-> v].verdict = v
        OBVIOUS
      <4>2. [term_id |-> t0, verdict |-> v0].term_id = t0 /\ [term_id |-> t0, verdict |-> v0].verdict = v0
        OBVIOUS
      <4>. QED BY <2>2, <2>5, <4>1, <4>2
    <3>2. TalliesOf(t, v)' = TalliesOf(t, v)
      BY <1>2, <2>1, <3>1 DEF TalliesOf
    <3>. QED BY <1>3, <2>3, <2>5, <3>2
  <2>. QED BY <2>4, <2>5
<1>. QED BY <1>5, <1>6, <1>8, <1>9, <1>10 DEF TallyInv

LEMMA TallyStep ==
  ASSUME TypeOK, TallyInv, [Next]_vars
  PROVE  TallyInv'
<1>0. \A q \in Partition : /\ position[q] \in Nat /\ incarnation[q] \in Nat
                           /\ Len(log[q]) \in Nat
  BY DEF TypeOK
<1>1. ASSUME NEW p \in Partition, NEW m \in Message, Produce(p, m)
      PROVE  TallyInv'
  <2>1. UNCHANGED <<term_stats, tallies, position, loop, pending, incarnation>>
    BY <1>1 DEF Produce, member, history
  <2>2. /\ log' \in [Partition -> Seq(Message)]
        /\ \A q \in Partition : Len(log[q]) <= Len(log'[q])
        /\ \A q \in Partition : \A i \in 1..Len(log[q]) : log'[q][i] = log[q][i]
    BY <1>1, LogGrows DEF TypeOK
  <2>3. \A q \in Partition : Len(log'[q]) \in Nat
    BY <2>2
  <2>. QED BY <1>0, <2>1, <2>2, <2>3, NothingTallied
<1>2. ASSUME NEW p \in Partition, Start(p)
      PROVE  TallyInv'
  <2>1. UNCHANGED <<log, term_stats, tallies>>
    BY <1>2 DEF Start, group
  <2>2. incarnation'[p] = incarnation[p] + 1 /\ loop'[p] = "waiting"
    BY <1>2 DEF Start, Enter, TypeOK
  <2>. QED BY <1>0, <1>2, <2>1, <2>2, HandsEmptied, NothingTallied
<1>3. ASSUME NEW p \in Partition, Receive(p)
      PROVE  TallyInv'
  <2>1. UNCHANGED <<log, term_stats, tallies, incarnation>>
    BY <1>3 DEF Receive, group, history
  <2>2. position'[p] = position[p] + 1 /\ loop'[p] # "recorded"
    BY <1>3 DEF Receive, Enter, TypeOK
  <2>3. \A q \in Partition \ {p} :
          loop'[q] = loop[q] /\ position'[q] = position[q] /\ pending'[q] = pending[q]
    BY <1>3 DEF Receive, Enter, TypeOK
  <2>. QED BY <1>0, <2>1, <2>2, <2>3, NothingTallied
<1>4. ASSUME NEW p \in Partition, Record(p)
      PROVE  TallyInv'
  <2>1. UNCHANGED <<log, position, incarnation, term_stats, tallies>>
    BY <1>4 DEF Record, group, history
  <2>2. /\ loop[p] = "recording" /\ loop'[p] = "recorded"
        /\ pending'[p] = term_stats[InHandOf(p).term_id][InHandOf(p).verdict] + 1
        /\ \A q \in Partition \ {p} : loop'[q] = loop[q] /\ pending'[q] = pending[q]
    BY <1>4 DEF Record, TypeOK
  <2>3. /\ \A q \in Partition : InHandOf(q)' = InHandOf(q)
        /\ \A r : MessageOf(r)' = MessageOf(r)
    BY <2>1 DEF InHandOf, MessageOf
  <2>4. TalliedGiven'
    <3>1. \A r \in tallies : r.part \in Partition
      BY DEF TypeOK, Tally
    <3>2. \A q \in Partition : loop'[q] \in InHand => loop[q] \in InHand
      BY <2>2 DEF InHand
    <3>. QED BY <2>1, <3>1, <3>2 DEF TallyInv, TalliedGiven
  <2>5. RowsHeld'
    <3>1. \A q \in Partition : loop[q] = "recorded" => InHandOf(q).term_id # InHandOf(p).term_id
      BY <1>4 DEF Record, RowLocked
    <3>. QED BY <2>2, <2>3, <3>1 DEF TallyInv, RowsHeld
  <2>6. PendingIsNext'
    BY <2>1, <2>2, <2>3 DEF TallyInv, PendingIsNext
  <2>7. CountsAreExact'
    BY <2>1, <2>3 DEF TallyInv, CountsAreExact
  <2>. QED BY <2>1, <2>4, <2>5, <2>6, <2>7 DEF TallyInv
<1>5. ASSUME NEW p \in Partition,
             Commit(p) \/ GiveUp(p) \/ Fail(p) \/ Resume(p) \/ Shutdown(p) \/ Crash(p)
      PROVE  TallyInv'
  <2>1. UNCHANGED <<log, position, incarnation>>
    BY <1>5 DEF Commit, GiveUp, Fail, Resume, Shutdown, Crash, group
  <2>2. /\ loop'[p] \notin InHand /\ loop'[p] # "recorded"
        /\ \A q \in Partition \ {p} : loop'[q] = loop[q] /\ pending'[q] = pending[q]
    BY <1>5, HandsEmptied DEF InHand
  <2>3. \/ loop[p] = "recorded" /\ CommitTally(p)
        \/ UNCHANGED <<term_stats, tallies>>
    BY <1>5 DEF Commit, GiveUp, Fail, Resume, Shutdown, Crash, CutShort, Enter, history
  <2>4. CASE loop[p] = "recorded" /\ CommitTally(p)
    BY <2>1, <2>2, <2>4, OneTallied
  <2>5. CASE UNCHANGED <<term_stats, tallies>>
    BY <1>0, <2>1, <2>2, <2>5, NothingTallied
  <2>. QED BY <2>3, <2>4, <2>5
<1>6. ASSUME Tick \/ UNCHANGED vars
      PROVE  TallyInv'
  <2>1. UNCHANGED <<log, position, loop, pending, incarnation, term_stats, tallies>>
    BY <1>6 DEF Tick, vars, group, member, history
  <2>. QED BY <1>0, <2>1, NothingTallied
<1>. QED BY <1>1, <1>2, <1>3, <1>4, <1>5, <1>6 DEF Next, Advance

\* Every counter of term_stats is the number of committed tallies: no increment
\* overwrites another, and no member counts a message twice in one incarnation,
\* however many members meet on a row and wherever they are cut short
\* (CountsAreExact; SQLTermStatsRepository.record, consume_answer_graded).
THEOREM CountersExact == Spec => []CountsAreExact
<1>1. Init => TallyInv
  <2>. SUFFICES ASSUME Init PROVE TallyInv
    OBVIOUS
  <2>1. tallies = {} /\ IsFiniteSet(tallies)
    BY FS_EmptySet DEF Init
  <2>2. CountsAreExact
    <3>. SUFFICES ASSUME NEW t \in TermId, NEW v \in Verdict
                  PROVE  term_stats[t][v] = Cardinality(TalliesOf(t, v))
      BY CountsOfTallies
    <3>1. TalliesOf(t, v) = {}
      BY <2>1 DEF TalliesOf
    <3>. QED BY <3>1, FS_EmptySet DEF Init
  <2>. QED BY <2>1, <2>2 DEF Init, TallyInv, TalliedGiven, RowsHeld, PendingIsNext
<1>2. TallyInv => CountsAreExact
  BY DEF TallyInv
<1>. QED BY <1>1, <1>2, TallyStep, ConsumersTyping, PTL DEF Spec
=============================================================================
