------------------------- MODULE TermDeliveryProofs -------------------------
(***************************************************************************)
(* Proofs about TermBank: types, what becomes of reviewers' decisions, the *)
(* order of events, that the bank is a ReviewLedger, and that requests never *)
(* wait for each other in a circle; and about TermDelivery, whose bank takes *)
(* the same steps: types, and the bound on how stale an answer of by_id can *)
(* be.                                                                     *)
(***************************************************************************)
EXTENDS TermDelivery, TLAPS

-----------------------------------------------------------------------------
(* The bank.                                                               *)

\* Appending to a sequence: its type, and the elements it then has.
LEMMA AppendIsTyped ==
  ASSUME NEW S, NEW s \in Seq(S), NEW e \in S
  PROVE  Append(s, e) \in Seq(S)
OBVIOUS

LEMMA AppendElements ==
  ASSUME NEW S, NEW s \in Seq(S), NEW e \in S
  PROVE  {Append(s, e)[i] : i \in DOMAIN Append(s, e)} =
           {s[i] : i \in DOMAIN s} \cup {e}
<1>1. /\ DOMAIN Append(s, e) = 1..(Len(s) + 1)
      /\ DOMAIN s = 1..Len(s)
      /\ \A i \in 1..Len(s) : Append(s, e)[i] = s[i]
      /\ Append(s, e)[Len(s) + 1] = e
      /\ Len(s) \in Nat
  OBVIOUS
<1>2. \A i \in 1..(Len(s) + 1) : i \in 1..Len(s) \/ i = Len(s) + 1
  BY <1>1
<1>3. 1..Len(s) \subseteq 1..(Len(s) + 1) /\ Len(s) + 1 \in 1..(Len(s) + 1)
  BY <1>1
<1>. QED BY <1>1, <1>2, <1>3

\* A request that has arrived as a review is of some candidate.
LEMMA ReviewHasCandidate ==
  ASSUME BankTypeOK, NEW q \in Req, phase[q] # "idle", Reviews(q)
  PROVE  job[q].cand \in Candidate
<1>1. job[q] \in Publication \cup Review
  BY TermBankConstants DEF BankTypeOK
<1>2. job[q] \notin Publication
  BY DEF Reviews, Publication
<1>. QED BY <1>1, <1>2 DEF Review

\* A request that has arrived aims at some term.
LEMMA TargetIsTerm ==
  ASSUME BankTypeOK, NEW q \in Req, phase[q] # "idle"
  PROVE  Target(q) \in TermId
<1>1. CASE Reviews(q)
  BY <1>1, ReviewHasCandidate, TermBankConstants DEF Target
<1>2. CASE ~Reviews(q)
  <2>1. job[q] \in Publication \cup Review
    BY TermBankConstants DEF BankTypeOK
  <2>2. job[q] \notin Review
    BY <1>2 DEF Reviews, Review
  <2>. QED BY <1>2, <2>1, <2>2 DEF Target, Publication
<1>. QED BY <1>1, <1>2

LEMMA TypingStep ==
  ASSUME BankTypeOK, [BankNext]_bank
  PROVE  BankTypeOK'
<1>. USE DEF BankTypeOK, Phase, Ended, Active, Checked, ReviewStatus
<1>1. ASSUME NEW c \in Candidate, SubmitReviewCandidate(c)
      PROVE  BankTypeOK'
  BY <1>1 DEF SubmitReviewCandidate, history
<1>2. ASSUME NEW q \in Req, NEW j \in Jobs, Open(q, j)
      PROVE  BankTypeOK'
  BY <1>2 DEF Open, Move, history, store
<1>3. ASSUME NEW q \in Req, Check(q)
      PROVE  BankTypeOK'
  BY <1>3 DEF Check, Move, history, store
<1>4. ASSUME NEW q \in Req, Refuse(q)
      PROVE  BankTypeOK'
  BY <1>4 DEF Refuse, Move, history, store
<1>5. ASSUME NEW q \in Req, Upsert(q)
      PROVE  BankTypeOK'
  <2>1. phase[q] # "idle"
    BY <1>5 DEF Upsert, Move
  <2>. QED BY <1>5, <2>1 DEF Upsert, Move, history, store
<1>6. ASSUME NEW q \in Req, SetStatus(q)
       PROVE  BankTypeOK'
  <2>1. phase[q] # "idle" /\ phase' = [phase EXCEPT ![q] = "decided"]
    BY <1>6 DEF SetStatus, Move
  <2>. QED BY <1>6, <2>1 DEF SetStatus, history, store
<1>7. ASSUME NEW q \in Req, Announce(q)
      PROVE  BankTypeOK'
  <2>0. phase[q] # "idle" /\ phase' = [phase EXCEPT ![q] = "announced"]
    BY <1>7 DEF Announce, Move
  <2>1. Target(q) \in TermId
    BY <2>0, TargetIsTerm
  <2>2. topic' \in Seq(Event)
    <3>1. [term_id |-> Target(q), by |-> q] \in Event
      BY <2>1 DEF Event
    <3>2. Append(topic, [term_id |-> Target(q), by |-> q]) \in Seq(Event)
      BY <3>1, AppendIsTyped, Zenon
    <3>. QED BY <1>7, <3>2, Zenon DEF Announce
  <2>. QED BY <1>7, <2>0, <2>2 DEF Announce, history, store
<1>8. ASSUME NEW q \in Req, Flush(q)
      PROVE  BankTypeOK'
  <2>1. phase[q] # "idle"
    BY <1>8 DEF Flush, Move
  <2>. QED BY <1>8, <2>1 DEF Flush, Move, history, store
<1>9. ASSUME NEW q \in Req, Commit(q)
      PROVE  BankTypeOK'
  <2>1. phase[q] # "idle" /\ phase' = [phase EXCEPT ![q] = "committed"]
    BY <1>9 DEF Commit, Move
  <2>2. terms' \in [TermId -> Req \cup {NoTerm}]
    BY <1>9 DEF Commit
  <2>3. queue' \in [Candidate -> ReviewStatus \cup {"absent"}]
    BY <1>9 DEF Commit, Decision
  <2>4. committed' \in Seq(Req)
    BY <1>9 DEF Commit
  <2>5. rivals' \in [Req -> SUBSET Req]
    BY <1>9 DEF Commit
  <2>. QED BY <1>9, <2>1, <2>2, <2>3, <2>4, <2>5 DEF Commit
<1>10. ASSUME NEW q \in Req, Abort(q)
      PROVE  BankTypeOK'
  BY <1>10 DEF Abort, Move, history, store
<1>11. ASSUME UNCHANGED bank
       PROVE  BankTypeOK'
  BY <1>11 DEF bank, store, history
<1>. QED BY <1>1, <1>2, <1>3, <1>4, <1>5, <1>6, <1>7, <1>8, <1>9, <1>10, <1>11
         DEF BankNext, Advance

\* Types are right in every reachable state, for any terms, candidates and
\* requests, whatever overlaps, fails or is rolled back.
THEOREM BankTyping == BankSpec => []BankTypeOK
<1>1. BankInit => BankTypeOK
  BY DEF BankInit, BankTypeOK, Phase
<1>. QED BY <1>1, TypingStep, PTL DEF BankSpec
-----------------------------------------------------------------------------
(* Decisions.  The check of a candidate's status and the change of it are  *)
(* not one step.  What holds in between: a candidate that is not pending   *)
(* any more has what some committed reviewer decided; whoever is past the  *)
(* check is a rival of every decision that has committed, as is a reviewer *)
(* who commits; and a status that will not be written is there already.    *)

Same(p, q) == Reviews(p) /\ Reviews(q) /\ job[p].cand = job[q].cand

Decided(c) == queue[c] \in {"approved", "rejected"}

CommittedHaveEnded == \A q \in Committed : q \in Req /\ phase[q] = "committed"

OthersAreRivals ==
  \A q \in Committed, p \in Req :
    phase[p] \in Checked /\ Same(p, q) => p \in rivals[q]

AllOverlapped ==
  \A p, q \in Committed : Same(p, q) /\ p # q => Overlapped(p, q)

CommittedDecided == \A q \in Committed : Reviews(q) => Decided(job[q].cand)

SomebodyDecided ==
  \A c \in Candidate : Decided(c) =>
    \E p \in Committed : Reviews(p) /\ job[p].cand = c /\ queue[c] = Decision(p)

UnchangedIsDecided ==
  \A q \in Req :
    (phase[q] \in {"decided", "announced", "flushed"} /\ Reviews(q)
      /\ q \notin changed) => Decided(job[q].cand)

ChangedAreReviews == \A q \in changed : phase[q] # "idle" /\ Reviews(q)

DecisionInv ==
  /\ BankTypeOK
  /\ CommittedHaveEnded
  /\ OthersAreRivals
  /\ AllOverlapped
  /\ CommittedDecided
  /\ SomebodyDecided
  /\ UnchangedIsDecided
  /\ ChangedAreReviews

\* What the invariant says of decisions.
LEMMA InvImpliesStand == DecisionInv => DecisionsStand
<1>. SUFFICES ASSUME DecisionInv, NEW q \in Committed, Reviews(q),
                     queue[job[q].cand] # Decision(q)
              PROVE  \E p \in Committed : /\ Overlapped(p, q)
                                          /\ queue[job[q].cand] = Decision(p)
  BY DEF DecisionsStand
<1>1. job[q].cand \in Candidate
  BY ReviewHasCandidate DEF DecisionInv, CommittedHaveEnded
<1>2. PICK p \in Committed :
        Reviews(p) /\ job[p].cand = job[q].cand /\ queue[job[q].cand] = Decision(p)
  BY <1>1 DEF DecisionInv, CommittedDecided, SomebodyDecided
<1>3. Overlapped(p, q)
  BY <1>2 DEF DecisionInv, AllOverlapped, Same
<1>. QED BY <1>2, <1>3

\* A step that leaves the queue, the history and all that has been asked for
\* alone, and takes no reviewer past the check or over the decision, keeps
\* the decisions.
Undisturbed ==
  /\ UNCHANGED <<queue, changed, committed, rivals>>
  /\ \A q \in Req : phase[q] # "idle" => job'[q] = job[q]
  /\ \A q \in Req : phase'[q] \in Checked /\ Reviews(q)' => phase[q] \in Checked
  /\ \A q \in Req :
       phase'[q] \in {"decided", "announced", "flushed"} /\ Reviews(q)'
         => phase[q] \in {"decided", "announced", "flushed"}
  /\ \A q \in Req : phase[q] = "committed" => phase'[q] = "committed"
  /\ \A q \in Req : phase[q] # "idle" => phase'[q] # "idle"

LEMMA UndisturbedKeeps ==
  ASSUME DecisionInv, Undisturbed, BankTypeOK'
  PROVE  DecisionInv'
<1>. USE DEF DecisionInv
<1>1. Committed' = Committed
  BY DEF Undisturbed, Committed
<1>2. \A q \in Req : phase[q] # "idle" =>
        (/\ job'[q] = job[q]
         /\ Reviews(q)' = Reviews(q)
         /\ Decision(q)' = Decision(q))
  BY DEF Undisturbed, Reviews, Decision
<1>3. \A c : Decided(c)' = Decided(c)
  BY DEF Undisturbed, Decided
<1>4. CommittedHaveEnded'
  BY <1>1 DEF CommittedHaveEnded, Undisturbed
<1>5. OthersAreRivals'
  BY <1>1, <1>2 DEF OthersAreRivals, Undisturbed, CommittedHaveEnded, Checked, Same
<1>6. AllOverlapped'
  BY <1>1, <1>2 DEF AllOverlapped, Undisturbed, CommittedHaveEnded, Same, Overlapped
<1>7. CommittedDecided'
  BY <1>1, <1>2, <1>3 DEF CommittedDecided, CommittedHaveEnded
<1>8. SomebodyDecided'
  BY <1>1, <1>2, <1>3 DEF SomebodyDecided, Undisturbed, CommittedHaveEnded
<1>9. UnchangedIsDecided'
  BY <1>2, <1>3 DEF UnchangedIsDecided, Undisturbed
<1>10. ChangedAreReviews'
  BY <1>2 DEF ChangedAreReviews, Undisturbed, BankTypeOK
<1>. QED BY <1>4, <1>5, <1>6, <1>7, <1>8, <1>9, <1>10

\* What stays the same when nothing new is asked for.
LEMMA SameJobs ==
  ASSUME UNCHANGED job
  PROVE  /\ \A p : Reviews(p)' = Reviews(p)
         /\ \A p : Decision(p)' = Decision(p)
         /\ \A p, q : Same(p, q)' = Same(p, q)
BY DEF Reviews, Decision, Same

\* Past the check: nobody has decided about the candidate yet.
LEMMA CheckKeeps ==
  ASSUME DecisionInv, BankTypeOK', NEW q \in Req, Check(q)
  PROVE  DecisionInv'
<1>. USE DEF DecisionInv
<1>1. /\ phase[q] = "opened" /\ phase' = [phase EXCEPT ![q] = "checked"]
      /\ Reviews(q) /\ queue[job[q].cand] = "pending"
      /\ UNCHANGED <<queue, job, changed, committed, rivals>>
  BY DEF Check, Move, store, history
<1>2. /\ Committed' = Committed
      /\ \A c : Decided(c)' = Decided(c)
      /\ \A p, r : Overlapped(p, r)' = Overlapped(p, r)
  BY <1>1 DEF Committed, Decided, Overlapped
<1>3. /\ \A p : Reviews(p)' = Reviews(p)
      /\ \A p : Decision(p)' = Decision(p)
      /\ \A p, r : Same(p, r)' = Same(p, r)
  BY <1>1, SameJobs
<1>4. /\ \A p \in Req : p # q => phase'[p] = phase[p]
      /\ phase'[q] = "checked"
  BY <1>1 DEF BankTypeOK
<1>5. \A p \in Committed : ~Same(q, p)
  BY <1>1 DEF CommittedDecided, Decided, Same
<1>6. CommittedHaveEnded'
  BY <1>1, <1>2, <1>4 DEF CommittedHaveEnded
<1>7. OthersAreRivals'
  BY <1>1, <1>2, <1>3, <1>4, <1>5 DEF OthersAreRivals
<1>8. AllOverlapped' /\ CommittedDecided'
  BY <1>1, <1>2, <1>3 DEF AllOverlapped, CommittedDecided
<1>9. SomebodyDecided'
  BY <1>1, <1>2, <1>3 DEF SomebodyDecided
<1>10. UnchangedIsDecided'
  BY <1>1, <1>2, <1>3, <1>4 DEF UnchangedIsDecided
<1>11. ChangedAreReviews'
  BY <1>1, <1>3, <1>4 DEF ChangedAreReviews, BankTypeOK
<1>. QED BY <1>6, <1>7, <1>8, <1>9, <1>10, <1>11

\* A status that need not be written has been decided by somebody.
LEMMA SetStatusKeeps ==
  ASSUME DecisionInv, BankTypeOK', NEW q \in Req, SetStatus(q)
  PROVE  DecisionInv'
<1>. USE DEF DecisionInv
<1>1. /\ phase[q] \in Checked /\ phase' = [phase EXCEPT ![q] = "decided"]
      /\ Reviews(q)
      /\ changed \subseteq changed' /\ changed' \subseteq changed \cup {q}
      /\ q \notin changed' => queue[job[q].cand] = Decision(q)
      /\ UNCHANGED <<queue, job, committed, rivals>>
  BY DEF SetStatus, Move, store, history, Checked
<1>2. /\ Committed' = Committed
      /\ \A c : Decided(c)' = Decided(c)
      /\ \A p, r : Overlapped(p, r)' = Overlapped(p, r)
  BY <1>1 DEF Committed, Decided, Overlapped
<1>3. /\ \A p : Reviews(p)' = Reviews(p)
      /\ \A p : Decision(p)' = Decision(p)
      /\ \A p, r : Same(p, r)' = Same(p, r)
  BY <1>1, SameJobs
<1>4. /\ \A p \in Req : p # q => phase'[p] = phase[p]
      /\ phase'[q] = "decided"
  BY <1>1 DEF BankTypeOK
<1>5. CommittedHaveEnded'
  BY <1>1, <1>2, <1>4 DEF CommittedHaveEnded, Checked
<1>6. OthersAreRivals'
  BY <1>1, <1>2, <1>3, <1>4 DEF OthersAreRivals
<1>7. AllOverlapped' /\ CommittedDecided'
  BY <1>1, <1>2, <1>3 DEF AllOverlapped, CommittedDecided
<1>8. SomebodyDecided'
  BY <1>1, <1>2, <1>3 DEF SomebodyDecided
<1>9. UnchangedIsDecided'
  <2>1. q \notin changed' => Decided(job[q].cand)
    BY <1>1 DEF Decided, Decision
  <2>. QED BY <1>1, <1>2, <1>3, <1>4, <2>1 DEF UnchangedIsDecided
<1>10. ChangedAreReviews'
  BY <1>1, <1>3, <1>4 DEF ChangedAreReviews, BankTypeOK
<1>. QED BY <1>5, <1>6, <1>7, <1>8, <1>9, <1>10

\* A new candidate has no decision to lose.
LEMMA SubmitKeeps ==
  ASSUME DecisionInv, BankTypeOK', NEW c \in Candidate, SubmitReviewCandidate(c)
  PROVE  DecisionInv'
<1>. USE DEF DecisionInv
<1>1. /\ queue[c] = "absent" /\ queue' = [queue EXCEPT ![c] = "pending"]
      /\ UNCHANGED <<phase, job, changed, committed, rivals>>
  BY DEF SubmitReviewCandidate, history
<1>2. /\ Committed' = Committed
      /\ \A p, r : Overlapped(p, r)' = Overlapped(p, r)
  BY <1>1 DEF Committed, Overlapped
<1>3. /\ \A p : Reviews(p)' = Reviews(p)
      /\ \A p : Decision(p)' = Decision(p)
      /\ \A p, r : Same(p, r)' = Same(p, r)
  BY <1>1, SameJobs
<1>4. \A d \in Candidate : /\ Decided(d)' = Decided(d)
                           /\ Decided(d) => queue'[d] = queue[d]
  BY <1>1 DEF Decided, BankTypeOK
<1>5. \A p \in Req : phase[p] # "idle" /\ Reviews(p) => job[p].cand \in Candidate
  BY ReviewHasCandidate
<1>6. CommittedHaveEnded' /\ OthersAreRivals' /\ AllOverlapped'
  BY <1>1, <1>2, <1>3 DEF CommittedHaveEnded, OthersAreRivals, AllOverlapped
<1>7. CommittedDecided'
  BY <1>1, <1>2, <1>3, <1>4, <1>5 DEF CommittedDecided, CommittedHaveEnded
<1>8. SomebodyDecided'
  BY <1>1, <1>2, <1>3, <1>4 DEF SomebodyDecided
<1>9. UnchangedIsDecided'
  BY <1>1, <1>3, <1>4, <1>5 DEF UnchangedIsDecided
<1>10. ChangedAreReviews'
  BY <1>1, <1>3 DEF ChangedAreReviews
<1>. QED BY <1>6, <1>7, <1>8, <1>9, <1>10

\* A commit decides, or agrees with the decision that is there.
LEMMA CommitKeeps ==
  ASSUME DecisionInv, BankTypeOK', NEW q \in Req, Commit(q)
  PROVE  DecisionInv'
<1>. USE DEF DecisionInv
<1>1. /\ phase[q] \in {"flushed", "announced"}
      /\ Reviews(q) => phase[q] = "flushed"
      /\ phase' = [phase EXCEPT ![q] = "committed"]
      /\ UNCHANGED <<job, changed>>
  BY DEF Commit, Move
<1>2. Committed' = Committed \cup {q}
  <2>1. committed \in Seq(Req) /\ committed' = Append(committed, q)
    BY DEF Commit, BankTypeOK
  <2>. QED BY <2>1, AppendElements DEF Committed
<1>3. \A p \in Committed : p \in Req /\ p # q
  BY <1>1 DEF CommittedHaveEnded
<1>4. /\ \A p : Reviews(p)' = Reviews(p)
      /\ \A p : Decision(p)' = Decision(p)
      /\ \A p, r : Same(p, r)' = Same(p, r)
  BY <1>1, SameJobs
<1>5. /\ \A p \in Req : p # q => phase'[p] = phase[p] /\ rivals'[p] = rivals[p]
      /\ phase'[q] = "committed"
      /\ \A p \in Req : p # q /\ phase[p] \in Checked /\ Same(p, q)
                          => p \in rivals'[q]
  BY <1>1 DEF Commit, BankTypeOK, Same
<1>6. \A p \in Req : phase'[p] \in Checked => p # q /\ phase[p] \in Checked
  BY <1>5 DEF Checked
<1>7. CommittedHaveEnded'
  BY <1>2, <1>5 DEF CommittedHaveEnded
<1>8. OthersAreRivals'
  BY <1>2, <1>3, <1>4, <1>5, <1>6 DEF OthersAreRivals
<1>9. AllOverlapped'
  <2>1. ASSUME NEW p \in Committed, Same(p, q) \/ Same(q, p)
        PROVE  q \in rivals'[p]
    BY <1>1, <1>3, <1>5, <2>1 DEF OthersAreRivals, Same, Checked
  <2>2. ASSUME NEW p \in Committed, NEW r \in Committed, Same(p, r), p # r
        PROVE  Overlapped(p, r)'
    BY <1>3, <1>5, <2>2 DEF AllOverlapped, Overlapped
  <2>. QED BY <1>2, <1>4, <2>1, <2>2 DEF AllOverlapped, Overlapped
<1>10. ChangedAreReviews'
  BY <1>1, <1>4, <1>5 DEF ChangedAreReviews, BankTypeOK
<1>11. CASE q \notin changed
  <2>1. queue' = queue
    BY <1>11 DEF Commit
  <2>2. \A c : Decided(c)' = Decided(c)
    BY <2>1 DEF Decided
  <2>3. CommittedDecided'
    BY <1>1, <1>2, <1>4, <1>11, <2>2
       DEF CommittedDecided, UnchangedIsDecided
  <2>4. SomebodyDecided'
    BY <1>1, <1>2, <1>4, <2>1, <2>2 DEF SomebodyDecided
  <2>5. UnchangedIsDecided'
    BY <1>1, <1>4, <1>5, <2>2 DEF UnchangedIsDecided
  <2>. QED BY <1>7, <1>8, <1>9, <1>10, <2>3, <2>4, <2>5
<1>12. CASE q \in changed
  <2>0. Reviews(q)
    BY <1>12 DEF ChangedAreReviews
  <2>1. /\ queue' = [queue EXCEPT ![job[q].cand] = Decision(q)]
        /\ job[q].cand \in Candidate
    BY <1>1, <1>12, <2>0, ReviewHasCandidate DEF Commit
  <2>2. /\ queue'[job[q].cand] = Decision(q)
        /\ \A c \in Candidate : c # job[q].cand => queue'[c] = queue[c]
    BY <2>1 DEF BankTypeOK
  <2>3. /\ Decided(job[q].cand)'
        /\ \A c \in Candidate : Decided(c) => Decided(c)'
        /\ \A c \in Candidate : c # job[q].cand => Decided(c)' = Decided(c)
    BY <1>1, <2>2 DEF Decided, Decision
  <2>4. \A p \in Req : phase[p] # "idle" /\ Reviews(p) => job[p].cand \in Candidate
    BY ReviewHasCandidate
  <2>5. CommittedDecided'
    BY <1>1, <1>2, <1>4, <2>3, <2>4 DEF CommittedDecided, CommittedHaveEnded
  <2>6. SomebodyDecided'
    BY <1>1, <1>2, <1>4, <2>0, <2>2, <2>3 DEF SomebodyDecided
  <2>7. UnchangedIsDecided'
    BY <1>1, <1>4, <1>5, <2>3, <2>4 DEF UnchangedIsDecided
  <2>. QED BY <1>7, <1>8, <1>9, <1>10, <2>5, <2>6, <2>7
<1>. QED BY <1>11, <1>12

LEMMA UndisturbedSteps ==
  ASSUME BankTypeOK
  PROVE  /\ \A q \in Req, j \in Jobs : Open(q, j) => Undisturbed
         /\ \A q \in Req : (\/ Refuse(q) \/ Upsert(q) \/ Announce(q)
                            \/ Flush(q) \/ Abort(q)) => Undisturbed
         /\ UNCHANGED bank => Undisturbed
<1>. USE DEF BankTypeOK, Undisturbed, Move, store, history, Checked, Reviews
<1>1. ASSUME NEW q \in Req, NEW j \in Jobs, Open(q, j)
      PROVE  Undisturbed
  BY <1>1 DEF Open
<1>2. ASSUME NEW q \in Req, Refuse(q)
      PROVE  Undisturbed
  BY <1>2 DEF Refuse
<1>3. ASSUME NEW q \in Req, Upsert(q)
      PROVE  Undisturbed
  BY <1>3 DEF Upsert
<1>4. ASSUME NEW q \in Req, Announce(q)
      PROVE  Undisturbed
  BY <1>4 DEF Announce
<1>5. ASSUME NEW q \in Req, Flush(q)
      PROVE  Undisturbed
  BY <1>5 DEF Flush, Publishes
<1>6. ASSUME NEW q \in Req, Abort(q)
      PROVE  Undisturbed
  BY <1>6 DEF Abort, Active
<1>7. ASSUME UNCHANGED bank
      PROVE  Undisturbed
  BY <1>7 DEF bank
<1>. HIDE DEF Undisturbed
<1>. QED BY <1>1, <1>2, <1>3, <1>4, <1>5, <1>6, <1>7

LEMMA DecisionStep ==
  ASSUME DecisionInv, [BankNext]_bank
  PROVE  DecisionInv'
<1>1. BankTypeOK /\ BankTypeOK'
  BY TypingStep DEF DecisionInv
<1>2. CASE \/ \E q \in Req, j \in Jobs : Open(q, j)
           \/ \E q \in Req : \/ Refuse(q) \/ Upsert(q) \/ Announce(q)
                             \/ Flush(q) \/ Abort(q)
           \/ UNCHANGED bank
  BY <1>1, <1>2, UndisturbedSteps, UndisturbedKeeps
<1>3. ASSUME NEW c \in Candidate, SubmitReviewCandidate(c)
      PROVE  DecisionInv'
  BY <1>1, <1>3, SubmitKeeps
<1>4. ASSUME NEW q \in Req, Check(q)
      PROVE  DecisionInv'
  BY <1>1, <1>4, CheckKeeps
<1>5. ASSUME NEW q \in Req, SetStatus(q)
      PROVE  DecisionInv'
  BY <1>1, <1>5, SetStatusKeeps
<1>6. ASSUME NEW q \in Req, Commit(q)
      PROVE  DecisionInv'
  BY <1>1, <1>6, CommitKeeps
<1>. QED BY <1>2, <1>3, <1>4, <1>5, <1>6 DEF BankNext, Advance

\* A decision that has committed is only ever overruled by a reviewer who
\* found the candidate pending just as this one did, before either committed.
THEOREM DecisionsAlwaysStand == BankSpec => []DecisionsStand
<1>1. BankInit => DecisionInv
  BY DEF BankInit, DecisionInv, BankTypeOK, Phase, Committed, CommittedHaveEnded,
         OthersAreRivals, AllOverlapped, CommittedDecided, SomebodyDecided, Decided,
         UnchangedIsDecided, ChangedAreReviews
<1>. QED BY <1>1, InvImpliesStand, DecisionStep, PTL DEF BankSpec
-----------------------------------------------------------------------------
(* The order of events.  A request announces a term while it holds the     *)
(* lock of the term's row, which only one request does at a time; so its   *)
(* event comes after those of all versions that are live by then, and it   *)
(* goes live itself before the next one can be announced.                  *)

Holds(q) ==
  /\ phase[q] \in {"upserted", "decided", "announced", "flushed"}
  /\ Publishes(q)

Sent == {"announced", "flushed", "committed", "aborted"}

HoldersApart ==
  \A p, q \in Req : Holds(p) /\ Holds(q) /\ Target(p) = Target(q) => p = q

EventsAreOfSenders ==
  \A n \in DOMAIN topic :
    /\ topic[n].by \in Req
    /\ phase[topic[n].by] \in Sent
    /\ topic[n].term_id = Target(topic[n].by)
    /\ Publishes(topic[n].by)

HolderIsLast ==
  \A m, n \in DOMAIN topic :
    (/\ topic[m].by \in Committed
     /\ Holds(topic[n].by)
     /\ topic[m].term_id = topic[n].term_id) => m < n

OrderInv ==
  /\ BankTypeOK
  /\ CommittedHaveEnded
  /\ HoldersApart
  /\ EventsAreOfSenders
  /\ HolderIsLast
  /\ AnnouncedInOrder

\* A step that neither announces nor commits and takes no lock keeps the order.
Quiet ==
  /\ UNCHANGED <<topic, committed>>
  /\ \A q \in Req : phase[q] # "idle" => job'[q] = job[q]
  /\ \A q \in Req : Holds(q)' => Holds(q)
  /\ \A q \in Req : phase[q] \in Sent => phase'[q] \in Sent
  /\ \A q \in Req : phase[q] = "committed" => phase'[q] = "committed"

LEMMA QuietKeeps ==
  ASSUME OrderInv, Quiet, BankTypeOK'
  PROVE  OrderInv'
<1>. USE DEF OrderInv
<1>1. Committed' = Committed
  BY DEF Quiet, Committed
<1>2. \A q \in Req : phase[q] # "idle" =>
        Target(q)' = Target(q) /\ Publishes(q)' = Publishes(q)
  BY DEF Quiet, Target, Publishes, Reviews
<1>3. CommittedHaveEnded'
  BY <1>1 DEF CommittedHaveEnded, Quiet
<1>4. HoldersApart'
  BY <1>2 DEF HoldersApart, Quiet, Holds
<1>5. EventsAreOfSenders'
  BY <1>2 DEF EventsAreOfSenders, Quiet, Sent
<1>6. HolderIsLast'
  BY <1>1 DEF HolderIsLast, EventsAreOfSenders, Quiet
<1>7. AnnouncedInOrder'
  BY DEF AnnouncedInOrder, Quiet
<1>. QED BY <1>3, <1>4, <1>5, <1>6, <1>7

LEMMA SameTargets ==
  ASSUME UNCHANGED job
  PROVE  \A p : Target(p)' = Target(p) /\ Publishes(p)' = Publishes(p)
BY DEF Target, Publishes, Reviews

\* The lock is free, and nothing has been announced yet.
LEMMA UpsertKeeps ==
  ASSUME OrderInv, BankTypeOK', NEW q \in Req, Upsert(q)
  PROVE  OrderInv'
<1>. USE DEF OrderInv
<1>1. /\ phase[q] \in {"opened", "checked"}
      /\ phase' = [phase EXCEPT ![q] = "upserted"]
      /\ Publishes(q) /\ ~TermLocked(Target(q))
      /\ UNCHANGED <<topic, job, committed>>
  BY DEF Upsert, Move, history
<1>2. Committed' = Committed
  BY <1>1 DEF Committed
<1>3. \A p : Target(p)' = Target(p) /\ Publishes(p)' = Publishes(p)
  BY <1>1, SameTargets
<1>4. /\ \A p \in Req : p # q => phase'[p] = phase[p]
      /\ phase'[q] = "upserted"
  BY <1>1 DEF BankTypeOK
<1>5. \A p \in Req : p # q => Holds(p)' = Holds(p)
  BY <1>3, <1>4 DEF Holds
<1>6. \A p \in Req : Holds(p) => Target(p) # Target(q)
  BY <1>1 DEF Holds, TermLocked
<1>7. \A n \in DOMAIN topic : topic[n].by # q
  BY <1>1 DEF EventsAreOfSenders, Sent
<1>8. CommittedHaveEnded'
  BY <1>1, <1>2, <1>4 DEF CommittedHaveEnded
<1>9. HoldersApart'
  BY <1>3, <1>5, <1>6 DEF HoldersApart
<1>10. EventsAreOfSenders'
  BY <1>1, <1>3, <1>4, <1>7 DEF EventsAreOfSenders
<1>11. HolderIsLast'
  BY <1>1, <1>2, <1>5, <1>7 DEF HolderIsLast, EventsAreOfSenders
<1>12. AnnouncedInOrder'
  BY <1>1 DEF AnnouncedInOrder
<1>. QED BY <1>8, <1>9, <1>10, <1>11, <1>12

\* The new event is the last one.
LEMMA AnnounceKeeps ==
  ASSUME OrderInv, BankTypeOK', NEW q \in Req, Announce(q)
  PROVE  OrderInv'
<1>. USE DEF OrderInv
<1>. DEFINE e == [term_id |-> Target(q), by |-> q]
<1>1. /\ phase[q] \in {"upserted", "decided"}
      /\ phase' = [phase EXCEPT ![q] = "announced"]
      /\ Publishes(q)
      /\ UNCHANGED <<job, committed>>
  BY DEF Announce, Move, history
<1>2. Committed' = Committed
  BY <1>1 DEF Committed
<1>3. \A p : Target(p)' = Target(p) /\ Publishes(p)' = Publishes(p)
  BY <1>1, SameTargets
<1>4. /\ \A p \in Req : p # q => phase'[p] = phase[p]
      /\ phase'[q] = "announced"
  BY <1>1 DEF BankTypeOK
<1>5. \A p \in Req : Holds(p)' = Holds(p)
  BY <1>1, <1>3, <1>4 DEF Holds
<1>6. q \notin Committed
  BY <1>1 DEF CommittedHaveEnded
<1>7. CommittedHaveEnded'
  BY <1>1, <1>2, <1>4 DEF CommittedHaveEnded
<1>8. HoldersApart'
  BY <1>3, <1>5 DEF HoldersApart
<1>9. CASE topic' = topic
  <2>1. EventsAreOfSenders'
    BY <1>1, <1>3, <1>4, <1>9 DEF EventsAreOfSenders, Sent
  <2>2. HolderIsLast'
    BY <1>2, <1>5, <1>9 DEF HolderIsLast, EventsAreOfSenders
  <2>3. AnnouncedInOrder'
    BY <1>1, <1>9 DEF AnnouncedInOrder
  <2>. QED BY <1>7, <1>8, <2>1, <2>2, <2>3
<1>10. CASE topic' = Append(topic, e)
  <2>1. /\ Len(topic) \in Nat
        /\ DOMAIN topic = 1..Len(topic)
        /\ DOMAIN topic' = 1..(Len(topic) + 1)
        /\ \A n \in 1..Len(topic) : topic'[n] = topic[n]
        /\ topic'[Len(topic) + 1] = e
    <3>1. topic \in Seq(Event)
      BY DEF BankTypeOK
    <3>. QED BY <1>10, <3>1
  <2>2. \A n \in DOMAIN topic' : n \in DOMAIN topic \/ n = Len(topic) + 1
    BY <2>1
  <2>3. e.by = q /\ e.term_id = Target(q)
    OBVIOUS
  <2>. HIDE DEF e
  <2>4. EventsAreOfSenders'
    <3>1. ASSUME NEW n \in DOMAIN topic
          PROVE  phase'[topic[n].by] \in Sent
      BY <1>1, <1>4 DEF EventsAreOfSenders, Sent
    <3>. QED BY <1>1, <1>3, <1>4, <2>1, <2>2, <2>3, <3>1
             DEF EventsAreOfSenders, Sent
  <2>5. HolderIsLast'
    <3>1. SUFFICES ASSUME NEW m \in DOMAIN topic', NEW n \in DOMAIN topic',
                          topic'[m].by \in Committed, Holds(topic[n].by)',
                          topic'[m].term_id = topic'[n].term_id
                   PROVE  m < n
      BY <1>2 DEF HolderIsLast
    <3>2. m # Len(topic) + 1
      BY <1>6, <2>1, <2>3, <3>1
    <3>3. CASE n = Len(topic) + 1
      BY <2>1, <2>2, <3>2, <3>3
    <3>4. CASE n \in DOMAIN topic
      <4>1. m \in DOMAIN topic /\ topic[n].by \in Req
        BY <2>2, <3>2, <3>4 DEF EventsAreOfSenders
      <4>2. topic'[m] = topic[m] /\ topic'[n] = topic[n]
        BY <2>1, <3>4, <4>1
      <4>. QED BY <1>5, <3>1, <3>4, <4>1, <4>2 DEF HolderIsLast
    <3>. QED BY <2>2, <3>3, <3>4
  <2>6. AnnouncedInOrder'
    <3>1. \A i \in DOMAIN committed : committed[i] # q
      BY <1>6 DEF Committed
    <3>. QED BY <1>1, <2>1, <2>2, <2>3, <3>1 DEF AnnouncedInOrder
  <2>. QED BY <1>7, <1>8, <2>4, <2>5, <2>6
<1>. QED BY <1>9, <1>10 DEF Announce

\* The version that goes live was announced after all that were live before.
LEMMA CommitInOrder ==
  ASSUME OrderInv, BankTypeOK', NEW q \in Req, Commit(q)
  PROVE  OrderInv'
<1>. USE DEF OrderInv
<1>1. /\ phase[q] \in {"flushed", "announced"}
      /\ phase' = [phase EXCEPT ![q] = "committed"]
      /\ UNCHANGED <<topic, job>>
      /\ committed' = Append(committed, q)
  BY DEF Commit, Move
<1>2. Committed' = Committed \cup {q}
  <2>1. committed \in Seq(Req)
    BY DEF BankTypeOK
  <2>. QED BY <1>1, <2>1, AppendElements DEF Committed
<1>3. \A p : Target(p)' = Target(p) /\ Publishes(p)' = Publishes(p)
  BY <1>1, SameTargets
<1>4. /\ \A p \in Req : p # q => phase'[p] = phase[p]
      /\ phase'[q] = "committed"
  BY <1>1 DEF BankTypeOK
<1>5. /\ \A p \in Req : Holds(p)' => Holds(p) /\ p # q
      /\ Publishes(q) => Holds(q)
  BY <1>1, <1>3, <1>4 DEF Holds
<1>6. CommittedHaveEnded'
  BY <1>2, <1>4 DEF CommittedHaveEnded
<1>7. HoldersApart'
  BY <1>3, <1>5 DEF HoldersApart
<1>8. EventsAreOfSenders'
  BY <1>1, <1>3, <1>4 DEF EventsAreOfSenders, Sent
<1>9. HolderIsLast'
  <2>1. SUFFICES ASSUME NEW m \in DOMAIN topic', NEW n \in DOMAIN topic',
                        topic'[m].by \in Committed', Holds(topic[n].by)',
                        topic'[m].term_id = topic'[n].term_id
                 PROVE  m < n
    BY DEF HolderIsLast
  <2>2. Holds(topic[n].by) /\ topic[n].by # q /\ topic[n].by \in Req
    BY <1>1, <1>5, <2>1 DEF EventsAreOfSenders
  <2>3. topic[m].by # q
    <3>1. SUFFICES ASSUME topic[m].by = q
                   PROVE  FALSE
      OBVIOUS
    <3>2. Holds(q) /\ Target(q) = Target(topic[n].by)
      BY <1>1, <1>5, <2>1, <3>1 DEF EventsAreOfSenders
    <3>. QED BY <2>2, <3>2 DEF HoldersApart
  <2>. QED BY <1>1, <1>2, <2>1, <2>2, <2>3 DEF HolderIsLast
<1>10. AnnouncedInOrder'
  <2>1. SUFFICES ASSUME NEW i \in DOMAIN committed', NEW j \in DOMAIN committed',
                        NEW m \in DOMAIN topic, NEW n \in DOMAIN topic,
                        i < j,
                        topic[m].by = committed'[i], topic[n].by = committed'[j],
                        topic[m].term_id = topic[n].term_id
                 PROVE  m < n
    BY <1>1 DEF AnnouncedInOrder
  <2>2. /\ Len(committed) \in Nat
        /\ DOMAIN committed = 1..Len(committed)
        /\ DOMAIN committed' = 1..(Len(committed) + 1)
        /\ \A k \in 1..Len(committed) : committed'[k] = committed[k]
        /\ committed'[Len(committed) + 1] = q
    <3>1. committed \in Seq(Req)
      BY DEF BankTypeOK
    <3>. QED BY <1>1, <3>1
  <2>3. i \in DOMAIN committed
    BY <2>1, <2>2
  <2>4. CASE j \in DOMAIN committed
    BY <2>1, <2>2, <2>3, <2>4 DEF AnnouncedInOrder
  <2>5. CASE j = Len(committed) + 1
    <3>1. topic[n].by = q /\ Holds(q)
      BY <1>5, <2>1, <2>2, <2>5 DEF EventsAreOfSenders
    <3>2. topic[m].by \in Committed
      BY <2>1, <2>2, <2>3 DEF Committed
    <3>. QED BY <2>1, <3>1, <3>2 DEF HolderIsLast
  <2>. QED BY <2>2, <2>4, <2>5
<1>. QED BY <1>6, <1>7, <1>8, <1>9, <1>10

LEMMA OrderStep ==
  ASSUME OrderInv, [BankNext]_bank
  PROVE  OrderInv'
<1>1. BankTypeOK'
  BY TypingStep DEF OrderInv
<1>. USE DEF OrderInv, BankTypeOK, Quiet, Move, store, history, Holds, Sent, Publishes
<1>2. ASSUME NEW c \in Candidate, SubmitReviewCandidate(c)
      PROVE  Quiet
  BY <1>2 DEF SubmitReviewCandidate
<1>3. ASSUME NEW q \in Req, NEW j \in Jobs, Open(q, j)
      PROVE  Quiet
  BY <1>3 DEF Open
<1>4. ASSUME NEW q \in Req, Check(q)
      PROVE  Quiet
  BY <1>4 DEF Check
<1>5. ASSUME NEW q \in Req, Refuse(q)
      PROVE  Quiet
  BY <1>5 DEF Refuse
<1>6. ASSUME NEW q \in Req, Upsert(q)
      PROVE  OrderInv'
  BY <1>1, <1>6, UpsertKeeps
<1>7. ASSUME NEW q \in Req, SetStatus(q)
      PROVE  Quiet
  BY <1>7 DEF SetStatus
<1>8. ASSUME NEW q \in Req, Announce(q)
      PROVE  OrderInv'
  BY <1>1, <1>8, AnnounceKeeps
<1>9. ASSUME NEW q \in Req, Flush(q)
      PROVE  Quiet
  BY <1>9 DEF Flush
<1>10. ASSUME NEW q \in Req, Commit(q)
       PROVE  OrderInv'
  BY <1>1, <1>10, CommitInOrder
<1>11. ASSUME NEW q \in Req, Abort(q)
       PROVE  Quiet
  BY <1>11 DEF Abort, Active, Checked
<1>12. ASSUME UNCHANGED bank
       PROVE  Quiet
  BY <1>12 DEF bank
<1>. QED BY <1>1, <1>2, <1>3, <1>4, <1>5, <1>6, <1>7, <1>8, <1>9, <1>10, <1>11,
            <1>12, QuietKeeps DEF BankNext, Advance

\* For any number of authors and reviewers, whatever is rolled back and
\* whatever the broker drops, the versions of a term are announced in the
\* order they go live.
THEOREM AlwaysAnnouncedInOrder == BankSpec => []AnnouncedInOrder
<1>1. BankInit => OrderInv
  BY DEF BankInit, OrderInv, BankTypeOK, Phase, Committed, CommittedHaveEnded,
         HoldersApart, Holds, EventsAreOfSenders, HolderIsLast, AnnouncedInOrder
<1>2. OrderInv => AnnouncedInOrder
  BY DEF OrderInv
<1>. QED BY <1>1, <1>2, OrderStep, PTL DEF BankSpec
-----------------------------------------------------------------------------
(* The bank is a ledger.  Whatever is live was written by a request that   *)
(* has committed, so that what it was asked does not change any more.      *)

WrittenByCommitted ==
  \A t \in TermId : terms[t] # NoTerm => phase[terms[t]] = "committed"

LedgerInv ==
  /\ DecisionInv
  /\ WrittenByCommitted

LEMMA LedgerInvStep ==
  ASSUME LedgerInv, [BankNext]_bank
  PROVE  LedgerInv'
<1>1. DecisionInv'
  BY DecisionStep DEF LedgerInv
<1>. USE DEF LedgerInv, DecisionInv, BankTypeOK
<1>2. ASSUME NEW q \in Req, Commit(q)
      PROVE  WrittenByCommitted'
  <2>1. /\ phase' = [phase EXCEPT ![q] = "committed"]
        /\ \A t \in TermId : terms'[t] = q \/ terms'[t] = terms[t]
    BY <1>2 DEF Commit, Move
  <2>. QED BY <2>1 DEF WrittenByCommitted
<1>3. ASSUME UNCHANGED terms, Undisturbed
      PROVE  WrittenByCommitted'
  BY <1>3 DEF Undisturbed, WrittenByCommitted
<1>4. ASSUME NEW q \in Req, Check(q) \/ SetStatus(q)
      PROVE  WrittenByCommitted'
  BY <1>4 DEF Check, SetStatus, Move, store, WrittenByCommitted
<1>5. ASSUME NEW c \in Candidate, SubmitReviewCandidate(c)
      PROVE  WrittenByCommitted'
  BY <1>5 DEF SubmitReviewCandidate, WrittenByCommitted
<1>6. CASE \/ \E q \in Req, j \in Jobs : Open(q, j)
           \/ \E q \in Req : \/ Refuse(q) \/ Upsert(q) \/ Announce(q)
                             \/ Flush(q) \/ Abort(q)
           \/ UNCHANGED bank
  <2>1. UNCHANGED <<terms, queue>> /\ Undisturbed
    BY <1>6, UndisturbedSteps DEF Open, Refuse, Upsert, Announce, Flush, Abort, store,
       bank
  <2>. QED BY <1>1, <1>3, <2>1
<1>. QED BY <1>1, <1>2, <1>4, <1>5, <1>6 DEF BankNext, Advance

\* Who is past the check changes with the phase of one request.
LEMMA OthersPastCheck ==
  ASSUME LedgerInv, NEW q \in Req,
         \A p \in Req : p # q => phase'[p] = phase[p],
         UNCHANGED job
  PROVE  \A x \in Req \X Candidate : x[1] # q => (x \in PastCheck <=> x \in PastCheck')
BY DEF PastCheck, Reviews

\* Only a commit changes the ledger, except for new candidates.
LEMMA LedgerCommit ==
  ASSUME LedgerInv, NEW q \in Req, Commit(q)
  PROVE  Ledger!Next \/ UNCHANGED <<queue, LiveContent, PastCheck>>
<1>. USE DEF LedgerInv, DecisionInv
<1>1. /\ phase[q] \in {"flushed", "announced"}
      /\ Reviews(q) => phase[q] = "flushed"
      /\ phase' = [phase EXCEPT ![q] = "committed"]
      /\ UNCHANGED job
      /\ terms' = IF Publishes(q) THEN [terms EXCEPT ![Target(q)] = q] ELSE terms
      /\ queue' = IF q \in changed THEN [queue EXCEPT ![job[q].cand] = Decision(q)]
                                   ELSE queue
  BY DEF Commit, Move
<1>2. \A p : Content(p)' = Content(p)
  BY <1>1 DEF Content, Reviews
<1>3. Target(q) \in TermId /\ q # NoTerm
  BY <1>1, TargetIsTerm, TermBankConstants
<1>4. Publishes(q) => LiveContent' = [LiveContent EXCEPT ![Target(q)] = Content(q)]
  <2>. SUFFICES ASSUME Publishes(q)
                PROVE  LiveContent' = [LiveContent EXCEPT ![Target(q)] = Content(q)]
    OBVIOUS
  <2>1. terms' = [terms EXCEPT ![Target(q)] = q]
    BY <1>1
  <2>. QED BY <1>2, <1>3, <2>1 DEF LiveContent, BankTypeOK
<1>5. ~Publishes(q) => LiveContent' = LiveContent
  BY <1>1, <1>2 DEF LiveContent
<1>6. /\ phase'[q] = "committed"
      /\ \A p \in Req : p # q => phase'[p] = phase[p]
  BY <1>1 DEF BankTypeOK
<1>7. \A x \in Req \X Candidate : x[1] # q => (x \in PastCheck <=> x \in PastCheck')
  BY <1>1, <1>6, OthersPastCheck
<1>8. \A x \in PastCheck' : x[1] # q
  BY <1>6 DEF PastCheck, Checked
<1>9. CASE ~Reviews(q)
  <2>1. /\ Publishes(q) /\ Content(q) = q
        /\ queue' = queue
    <3>1. job[q] \in Publication \cup Review
      BY <1>1, TermBankConstants DEF BankTypeOK
    <3>2. job[q].op = "publish"
      BY <1>9, <3>1 DEF Reviews, Publication, Review
    <3>. QED BY <1>1, <1>9, <3>2 DEF Publishes, Content, ChangedAreReviews
  <2>2. PICK t \in TermId : t = Target(q)
    BY <1>3
  <2>3. \A x \in PastCheck : x[1] # q
    BY <1>9 DEF PastCheck
  <2>4. PastCheck' = PastCheck
    <3>1. PastCheck \subseteq Req \X Candidate /\ PastCheck' \subseteq Req \X Candidate
      BY DEF PastCheck
    <3>. QED BY <1>7, <1>8, <2>3, <3>1
  <2>5. Ledger!Author(t)
    BY <1>4, <2>1, <2>2, <2>4 DEF Ledger!Author
  <2>. QED BY <2>5 DEF Ledger!Next
<1>10. CASE Reviews(q)
  <2>0. PICK c \in Candidate : c = job[q].cand
    BY <1>1, <1>10, ReviewHasCandidate
  <2>1. Target(q) = TermOf[c] /\ Content(q) = c
    BY <1>10, <2>0 DEF Target, Content
  <2>2. <<q, c>> \in PastCheck
    BY <1>1, <1>10, <2>0 DEF PastCheck, Checked
  <2>3. PastCheck' = PastCheck \ {<<q, c>>}
    <3>1. PastCheck \subseteq Req \X Candidate /\ PastCheck' \subseteq Req \X Candidate
      BY DEF PastCheck
    <3>2. \A x \in PastCheck : x[1] = q => x = <<q, c>>
      BY <2>0 DEF PastCheck
    <3>. QED BY <1>7, <1>8, <2>2, <3>1, <3>2
  <2>4. \/ queue' = [queue EXCEPT ![c] = Decision(q)]
        \/ queue[c] \in {"approved", "rejected"} /\ queue' = queue
    BY <1>1, <1>10, <2>0 DEF UnchangedIsDecided, Decided
  <2>5. Ledger!Decide(q, c, Decision(q))
    BY <2>2, <2>3, <2>4 DEF Ledger!Decide
  <2>6. CASE job[q].op = "approve"
    <3>1. Ledger!Approve(q, c)
      BY <1>4, <2>1, <2>5, <2>6 DEF Ledger!Approve, Decision, Publishes
    <3>. QED BY <3>1 DEF Ledger!Next
  <2>7. CASE job[q].op = "reject"
    <3>1. Ledger!Reject(q, c)
      BY <1>5, <2>5, <2>7 DEF Ledger!Reject, Decision, Publishes
    <3>. QED BY <3>1 DEF Ledger!Next
  <2>. QED BY <1>10, <2>6, <2>7 DEF Reviews
<1>. QED BY <1>9, <1>10

\* A review is taken up by the check of a candidate that is pending.
LEMMA LedgerCheck ==
  ASSUME LedgerInv, NEW q \in Req, Check(q)
  PROVE  Ledger!Next
<1>. USE DEF LedgerInv, DecisionInv
<1>1. /\ phase' = [phase EXCEPT ![q] = "checked"]
      /\ phase[q] = "opened" /\ Reviews(q)
      /\ queue[job[q].cand] = "pending"
      /\ UNCHANGED <<terms, queue, job>>
  BY DEF Check, Move, store
<1>2. PICK c \in Candidate : c = job[q].cand
  BY <1>1, ReviewHasCandidate
<1>3. /\ phase'[q] = "checked" /\ Reviews(q)'
      /\ \A p \in Req : p # q => phase'[p] = phase[p]
  BY <1>1 DEF BankTypeOK, Reviews
<1>4. \A x \in Req \X Candidate : x[1] # q => (x \in PastCheck <=> x \in PastCheck')
  BY <1>1, <1>3, OthersPastCheck
<1>5. PastCheck' = PastCheck \cup {<<q, c>>}
  <2>1. PastCheck \subseteq Req \X Candidate /\ PastCheck' \subseteq Req \X Candidate
    BY DEF PastCheck
  <2>2. \A x \in PastCheck : x[1] # q
    BY <1>1 DEF PastCheck, Checked
  <2>3. <<q, c>> \in PastCheck'
    BY <1>1, <1>2, <1>3 DEF PastCheck, Checked
  <2>4. \A x \in PastCheck' : x[1] = q => x = <<q, c>>
    BY <1>1, <1>2 DEF PastCheck
  <2>. QED BY <1>4, <2>1, <2>2, <2>3, <2>4
<1>6. LiveContent' = LiveContent
  BY <1>1 DEF LiveContent, Content, Reviews
<1>7. Ledger!TakeUp(q, c)
  BY <1>1, <1>2, <1>5, <1>6 DEF Ledger!TakeUp
<1>. QED BY <1>7 DEF Ledger!Next

\* A transaction that is rolled back puts the candidate back, if it had one.
LEMMA LedgerAbort ==
  ASSUME LedgerInv, NEW q \in Req, Abort(q)
  PROVE  Ledger!Next \/ UNCHANGED <<queue, LiveContent, PastCheck>>
<1>. USE DEF LedgerInv, DecisionInv
<1>1. /\ phase' = [phase EXCEPT ![q] = "aborted"]
      /\ UNCHANGED <<terms, queue, job>>
  BY DEF Abort, Move, store
<1>2. /\ phase'[q] = "aborted"
      /\ \A p \in Req : p # q => phase'[p] = phase[p]
  BY <1>1 DEF BankTypeOK
<1>3. \A x \in Req \X Candidate : x[1] # q => (x \in PastCheck <=> x \in PastCheck')
  BY <1>1, <1>2, OthersPastCheck
<1>4. \A x \in PastCheck' : x[1] # q
  BY <1>2 DEF PastCheck, Checked
<1>5. PastCheck \subseteq Req \X Candidate /\ PastCheck' \subseteq Req \X Candidate
  BY DEF PastCheck
<1>6. LiveContent' = LiveContent
  BY <1>1 DEF LiveContent, Content, Reviews
<1>7. CASE \E c \in Candidate : <<q, c>> \in PastCheck
  <2>1. PICK c \in Candidate : <<q, c>> \in PastCheck
    BY <1>7
  <2>2. \A x \in PastCheck : x[1] = q => x = <<q, c>>
    BY <2>1 DEF PastCheck
  <2>3. PastCheck' = PastCheck \ {<<q, c>>}
    BY <1>3, <1>4, <1>5, <2>1, <2>2
  <2>4. Ledger!PutBack(q, c)
    BY <1>1, <1>6, <2>3 DEF Ledger!PutBack
  <2>. QED BY <2>4 DEF Ledger!Next
<1>8. CASE ~\E c \in Candidate : <<q, c>> \in PastCheck
  <2>1. \A x \in PastCheck : x[1] # q
    BY <1>5, <1>8
  <2>. QED BY <1>1, <1>3, <1>4, <1>5, <1>6, <2>1
<1>. QED BY <1>7, <1>8

\* All other steps leave it alone: a review that is under way stays so.
LEMMA LedgerStep ==
  ASSUME LedgerInv, [BankNext]_bank
  PROVE  [Ledger!Next]_<<queue, LiveContent, PastCheck>>
<1>. USE DEF LedgerInv, DecisionInv
<1>1. CASE \E q \in Req : Commit(q) \/ Check(q) \/ Abort(q)
  BY <1>1, LedgerCommit, LedgerCheck, LedgerAbort
<1>2. ASSUME NEW c \in Candidate, SubmitReviewCandidate(c)
      PROVE  Ledger!Next
  <2>1. UNCHANGED <<terms, job, phase>> /\ queue' = [queue EXCEPT ![c] = "pending"]
    BY <1>2 DEF SubmitReviewCandidate
  <2>2. LiveContent' = LiveContent /\ PastCheck' = PastCheck
    BY <2>1 DEF LiveContent, PastCheck, Content, Reviews
  <2>3. Ledger!QueueFor(c)
    BY <1>2, <2>1, <2>2 DEF Ledger!QueueFor, SubmitReviewCandidate
  <2>. QED BY <2>3 DEF Ledger!Next
<1>3. ASSUME NEW q \in Req, NEW j \in Jobs, Open(q, j)
      PROVE  UNCHANGED <<queue, LiveContent, PastCheck>>
  <2>1. /\ phase[q] = "idle" /\ phase' = [phase EXCEPT ![q] = "opened"]
        /\ job' = [job EXCEPT ![q] = j]
        /\ UNCHANGED <<terms, queue>>
    BY <1>3 DEF Open, Move, store
  <2>2. /\ \A p \in Req : p # q => phase'[p] = phase[p] /\ job'[p] = job[p]
        /\ phase'[q] = "opened"
    BY <2>1 DEF BankTypeOK
  <2>3. \A p \in Req : phase[p] \in Checked => phase'[p] \in Checked /\ job'[p] = job[p]
    BY <2>1, <2>2 DEF Checked
  <2>4. \A p \in Req : phase'[p] \in Checked => phase[p] \in Checked
    BY <2>1, <2>2 DEF Checked
  <2>5. PastCheck' = PastCheck
    BY <2>3, <2>4 DEF PastCheck, Reviews
  <2>6. \A p \in Req : phase[p] = "committed" => job'[p] = job[p]
    BY <2>1, <2>2
  <2>7. \A t \in TermId : terms[t] # NoTerm => Content(terms[t])' = Content(terms[t])
    BY <2>1, <2>6 DEF WrittenByCommitted, BankTypeOK, Content, Reviews
  <2>. QED BY <2>1, <2>5, <2>7 DEF LiveContent
<1>4. ASSUME NEW q \in Req, Refuse(q) \/ Upsert(q) \/ SetStatus(q) \/ Announce(q) \/ Flush(q)
      PROVE  UNCHANGED <<queue, LiveContent, PastCheck>>
  <2>1. UNCHANGED <<terms, queue, job>>
    BY <1>4 DEF Refuse, Upsert, SetStatus, Announce, Flush, store
  <2>2. /\ \A p \in Req : p # q => phase'[p] = phase[p]
        /\ Reviews(q) => (phase'[q] \in Checked <=> phase[q] \in Checked)
    BY <1>4 DEF Refuse, Upsert, SetStatus, Announce, Flush, Move, Checked, BankTypeOK
  <2>3. PastCheck' = PastCheck
    BY <2>1, <2>2 DEF PastCheck, Reviews
  <2>. QED BY <2>1, <2>3 DEF LiveContent, Content, Reviews
<1>5. CASE UNCHANGED bank
  BY <1>5 DEF bank, store, LiveContent, PastCheck, Content, Reviews
<1>. QED BY <1>1, <1>2, <1>3, <1>4, <1>5 DEF BankNext, Advance

\* Concurrent transactions, locks and events implement the ledger: a candidate is
\* decided about only by reviewers who found it pending, its content goes live
\* exactly with an approval, and nobody who looks later can overrule
\* (ApproveReviewCandidate, RejectReviewCandidate, PublishTerm).
THEOREM BankIsLedger == BankSpec => LedgerSpec
<1>1. BankInit => LedgerInv
  BY TermBankConstants
     DEF BankInit, LedgerInv, DecisionInv, BankTypeOK, Phase, Committed,
         CommittedHaveEnded, OthersAreRivals, AllOverlapped, CommittedDecided,
         SomebodyDecided, Decided, UnchangedIsDecided, ChangedAreReviews,
         WrittenByCommitted
<1>2. BankInit => Ledger!Init
  BY DEF BankInit, Ledger!Init, LiveContent, PastCheck, Checked
<1>3. LedgerInv /\ [BankNext]_bank => LedgerInv'
  BY LedgerInvStep
<1>4. LedgerInv /\ [BankNext]_bank => [Ledger!Next]_<<queue, LiveContent, PastCheck>>
  BY LedgerStep
<1>. QED BY <1>1, <1>2, <1>3, <1>4, PTL DEF BankSpec, LedgerSpec, Ledger!Spec

-----------------------------------------------------------------------------
(* Waits.  EveryRequestEnds is beyond these provers; the facts it rests on *)
(* are not: each step of a request brings it nearer to its end, of which   *)
(* it has seven at most, and however many wait for locks, one need not.    *)

Place(at) ==
  CASE at = "idle"      -> 0
    [] at = "opened"    -> 1
    [] at = "checked"   -> 2
    [] at = "upserted"  -> 3
    [] at = "decided"   -> 4
    [] at = "announced" -> 5
    [] at = "flushed"   -> 6
    [] OTHER            -> 7

OnlyForward ==
  \A q \in Req : phase'[q] = phase[q] \/ Place(phase'[q]) > Place(phase[q])

\* The guards of Advance: a request that is under way need not wait to go on.
CanAdvance(q) ==
  \/ Reviews(q) /\ phase[q] = "opened"
  \/ /\ Publishes(q) /\ phase[q] = IF Reviews(q) THEN "checked" ELSE "opened"
     /\ ~TermLocked(Target(q))
  \/ Reviews(q) /\ phase[q] = IF Publishes(q) THEN "upserted" ELSE "checked"
  \/ Publishes(q) /\ phase[q] = IF Reviews(q) THEN "decided" ELSE "upserted"
  \/ /\ Reviews(q) /\ phase[q] = IF Publishes(q) THEN "announced" ELSE "decided"
     /\ q \in changed => ~CandidateLocked(job[q].cand)
  \/ phase[q] = IF Reviews(q) THEN "flushed" ELSE "announced"

SomebodyCanGo ==
  (\E q \in Req : phase[q] \in Active) => \E q \in Req : phase[q] \in Active /\ CanAdvance(q)

\* No request is where requests of its kind have no next step.
PhasesFit ==
  \A q \in Req :
    /\ phase[q] \in {"checked", "decided", "flushed"} => Reviews(q)
    /\ phase[q] \in {"upserted", "announced"} => Publishes(q)

\* A request moves on from where it is, and keeps what it was asked.
LEMMA MovesOn ==
  ASSUME BankTypeOK, PhasesFit, NEW q \in Req, Advance(q) \/ Abort(q)
  PROVE  /\ job' = job /\ \A p \in Req : p # q => phase'[p] = phase[p]
         /\ Place(phase'[q]) > Place(phase[q])
         /\ phase'[q] \in {"checked", "decided", "flushed"} => Reviews(q)
         /\ phase'[q] \in {"upserted", "announced"} => Publishes(q)
<1>1. phase \in [Req -> Phase]
  BY DEF BankTypeOK
<1>2. CASE Check(q) \/ Refuse(q)
  BY <1>1, <1>2 DEF Check, Refuse, Move, Place
<1>3. CASE Upsert(q)
  BY <1>1, <1>3 DEF Upsert, Move, Place
<1>4. CASE SetStatus(q)
  BY <1>1, <1>4 DEF SetStatus, Move, Place
<1>5. CASE Announce(q)
  BY <1>1, <1>5 DEF Announce, Move, Place
<1>6. CASE Flush(q)
  BY <1>1, <1>6 DEF Flush, Move, Place
<1>7. CASE Commit(q)
  BY <1>1, <1>7 DEF Commit, Move, Place
<1>8. CASE Abort(q)
  BY <1>1, <1>8 DEF Abort, Move, Place, Active, Checked
<1>9. QED
  BY <1>2, <1>3, <1>4, <1>5, <1>6, <1>7, <1>8 DEF Advance

\* Every step of the bank keeps the requests where they belong.
LEMMA WindDownStep ==
  ASSUME BankTypeOK, PhasesFit, [BankNext]_bank
  PROVE  PhasesFit' /\ OnlyForward
<1>1. phase \in [Req -> Phase]
  BY DEF BankTypeOK
<1>2. CASE phase' = phase /\ job' = job
  BY <1>2 DEF PhasesFit, OnlyForward, Reviews, Publishes
<1>3. ASSUME NEW q \in Req, NEW j \in Jobs, Open(q, j) PROVE PhasesFit' /\ OnlyForward
  <2>1. /\ phase[q] = "idle" /\ phase'[q] = "opened"
        /\ \A p \in Req : p # q => phase'[p] = phase[p] /\ job'[p] = job[p]
    BY <1>1, <1>3 DEF Open, Move, BankTypeOK
  <2>2. OnlyForward
    BY <2>1 DEF OnlyForward, Place
  <2>3. PhasesFit'
    BY <2>1 DEF PhasesFit, Reviews, Publishes
  <2>4. QED
    BY <2>2, <2>3
<1>4. ASSUME NEW q \in Req, Advance(q) \/ Abort(q) PROVE PhasesFit' /\ OnlyForward
  <2>1. /\ job' = job /\ \A p \in Req : p # q => phase'[p] = phase[p]
        /\ Place(phase'[q]) > Place(phase[q])
        /\ phase'[q] \in {"checked", "decided", "flushed"} => Reviews(q)
        /\ phase'[q] \in {"upserted", "announced"} => Publishes(q)
    BY <1>4, MovesOn
  <2>2. QED
    BY <2>1 DEF PhasesFit, OnlyForward, Reviews, Publishes
<1>5. ASSUME NEW c \in Candidate, SubmitReviewCandidate(c) PROVE phase' = phase /\ job' = job
  BY <1>5 DEF SubmitReviewCandidate
<1>6. QED
  BY <1>2, <1>3, <1>4, <1>5 DEF BankNext, bank

\* Whoever has come furthest does not wait: the locks of the bank are taken
\* in one order, the term's first, and what follows the last needs none.
LEMMA FurthestCanGo ==
  ASSUME BankTypeOK, PhasesFit
  PROVE  SomebodyCanGo
<1>1. CASE \E q \in Req : phase[q] = "flushed"
  BY <1>1 DEF SomebodyCanGo, CanAdvance, PhasesFit, Active, Checked
<1>2. CASE ~\E q \in Req : phase[q] = "flushed"
  <2>1. \A c \in Candidate : ~CandidateLocked(c)
    <3>1. ASSUME NEW c \in Candidate, CandidateLocked(c) PROVE FALSE
      BY <1>2, <3>1 DEF CandidateLocked, BankTypeOK
    <3>2. QED
      BY <3>1
  <2>2. ASSUME NEW q \in Req, phase[q] \in {"upserted", "decided", "announced"}
        PROVE  SomebodyCanGo
    <3>1. Reviews(q) => ~CandidateLocked(job[q].cand)
      BY <2>1, <2>2, ReviewHasCandidate
    <3>2. CanAdvance(q)
      BY <2>2, <3>1 DEF CanAdvance, PhasesFit, Publishes, Reviews
    <3>3. QED
      BY <2>2, <3>2 DEF SomebodyCanGo, Active, Checked
  <2>3. CASE ~\E q \in Req : phase[q] \in {"upserted", "decided", "announced"}
    <3>1. \A t : ~TermLocked(t)
      BY <1>2, <2>3 DEF TermLocked
    <3>2. ASSUME NEW q \in Req, phase[q] \in Active PROVE CanAdvance(q)
      <4>1. phase[q] \in {"opened", "checked"}
        BY <1>2, <2>3, <3>2 DEF Active, Checked
      <4>2. job[q] \in Publication \cup Review
        BY <4>1, TermBankConstants DEF BankTypeOK
      <4>3. job[q].op \in {"publish", "approve", "reject"}
        BY <4>2 DEF Publication, Review
      <4>4. QED
        BY <3>1, <4>1, <4>3 DEF CanAdvance, PhasesFit, Publishes, Reviews
    <3>3. QED
      BY <3>2 DEF SomebodyCanGo
  <2>4. QED
    BY <2>2, <2>3
<1>3. QED
  BY <1>1, <1>2

\* Every step of a request is one towards its end, and while any is under way
\* some request need not wait for a lock: authors and reviewers never wait in a
\* circle, for any number of them (SQLTermRepository.upsert, set_status).
THEOREM RequestsWindDown == BankSpec => []SomebodyCanGo /\ [][OnlyForward]_bank
<1>1. BankInit => PhasesFit
  BY DEF BankInit, PhasesFit
<1>2. BankTypeOK /\ PhasesFit /\ [BankNext]_bank => PhasesFit' /\ OnlyForward
  BY WindDownStep
<1>3. BankTypeOK /\ PhasesFit => SomebodyCanGo
  BY FurthestCanGo
<1>4. QED
  BY <1>1, <1>2, <1>3, BankTyping, PTL DEF BankSpec

-----------------------------------------------------------------------------
(* Delivery.  The bound is carried from hand to hand: a version is live    *)
(* when the server selects it, so a part of a reply has been gone for at   *)
(* most the ticks the call has taken; the reply is then an entry of age    *)
(* zero, which ages with the clock until it is no longer fresh.            *)

Steps == {"idle", "called", "row", "sent", "done"}

\* What a lookup has of the server's answer, by where it stands.
RepliesKept ==
  \A l \in Lookup :
    /\ step[l] \in {"idle", "called", "done"} => reply[l] = Nothing
    /\ step[l] = "row" => /\ reply[l].row # NoTerm /\ reply[l].children = NoTerm
                          /\ terms[wanted[l]] # NoTerm

\* The clock of a version runs from when it was replaced.
GoneAreReplaced == \A q \in Req : gone[q] > 0 => q \in Committed /\ ~Live(q)

RepliesRecent == \A l \in Lookup : \A v \in Parts(reply[l]) : gone[v] <= lag[l]

EntriesAged ==
  \A t \in TermId : entries[t].age < TTL =>
    \A v \in Parts(entries[t].term) : gone[v] <= entries[t].age + RpcTicks

DeliveryInv ==
  /\ DecisionInv
  /\ TypeOK
  /\ RepliesKept
  /\ GoneAreReplaced
  /\ RepliesRecent
  /\ EntriesAged

-----------------------------------------------------------------------------
(* What the bank and the parts of a lookup may do.                         *)

LEMMA Bounds ==
  /\ TTL \in Nat /\ TTL > 0 /\ RpcTicks \in Nat
  /\ MaxFailures \in Nat /\ MaxRestarts \in Nat
  /\ Forgotten \in Nat
BY TermDeliveryConstants DEF Forgotten

LEMMA CopyParts ==
  ASSUME NEW copy \in Copy
  PROVE  /\ Parts(copy) \subseteq Req
         /\ copy = [row |-> copy.row, children |-> copy.children]
         /\ copy.row \in Version /\ copy.children \in Version
BY DEF Copy, Parts, Version

LEMMA NothingIsCopy ==
  /\ Nothing \in Copy /\ Parts(Nothing) = {}
  /\ Nothing.row = NoTerm /\ Nothing.children = NoTerm
  /\ NoEntry \in Entry /\ NoEntry.term = Nothing /\ NoAnswer \in Answer
BY Bounds DEF Nothing, Whole, Copy, Version, Parts, NoEntry, Entry, NoAnswer, Answer, Via

\* The bank only ever puts a request's version in place of another while the
\* request has not committed, and it forgets neither a commit nor an event.
LEMMA BankMoves ==
  ASSUME DecisionInv, [BankNext]_bank
  PROVE  /\ DecisionInv' /\ BankTypeOK'
         /\ Len(topic) \in Nat /\ Len(topic') \in Nat /\ Len(topic) <= Len(topic')
         /\ Committed \subseteq Committed'
         /\ \A t \in TermId : terms'[t] = terms[t] \/ terms'[t] \in Req \ Committed
<1>1. DecisionInv' /\ BankTypeOK' /\ BankTypeOK
  BY DecisionStep DEF DecisionInv
<1>2. topic' = topic \/ \E e \in Event : topic' = Append(topic, e)
  <2>1. ASSUME NEW q \in Req, Announce(q)
        PROVE  topic' = topic \/ \E e \in Event : topic' = Append(topic, e)
    <3>1. phase[q] # "idle"
      BY <2>1 DEF Announce, Move
    <3>2. [term_id |-> Target(q), by |-> q] \in Event
      BY <1>1, <3>1, TargetIsTerm DEF Event
    <3>. QED BY <2>1, <3>2 DEF Announce
  <2>2. CASE UNCHANGED topic
    BY <2>2
  <2>3. UNCHANGED topic \/ \E q \in Req : Announce(q)
    BY DEF BankNext, Advance, Open, Check, Refuse, Upsert, SetStatus, Flush, Commit,
           Abort, SubmitReviewCandidate, bank
  <2>. QED BY <2>1, <2>2, <2>3
<1>3. Len(topic) \in Nat /\ Len(topic') \in Nat /\ Len(topic) <= Len(topic')
  BY <1>1, <1>2 DEF BankTypeOK
<1>4. CASE \E q \in Req : Commit(q)
  <2>1. PICK q \in Req : Commit(q)
    BY <1>4
  <2>2. phase[q] # "committed" /\ q \notin Committed
    BY <2>1 DEF Commit, Move, DecisionInv, CommittedHaveEnded
  <2>3. Committed' = Committed \cup {q}
    <3>1. committed' = Append(committed, q) /\ committed \in Seq(Req)
      BY <1>1, <2>1 DEF Commit, BankTypeOK
    <3>. QED BY <3>1, AppendElements DEF Committed
  <2>4. \A t \in TermId : terms'[t] = terms[t] \/ terms'[t] = q
    BY <1>1, <2>1 DEF Commit, BankTypeOK
  <2>. QED BY <1>1, <1>3, <2>2, <2>3, <2>4
<1>5. CASE ~ \E q \in Req : Commit(q)
  <2>1. UNCHANGED <<terms, committed>>
    BY <1>5 DEF BankNext, Advance, Open, Check, Refuse, Upsert, SetStatus, Announce,
                Flush, Abort, SubmitReviewCandidate, store, history, bank
  <2>. QED BY <1>1, <1>3, <2>1 DEF Committed
<1>. QED BY <1>4, <1>5

\* A lookup that moves on is the only one that does.
LEMMA GoMoves ==
  ASSUME TypeOK, NEW l \in Lookup, NEW from, NEW to \in Steps, Go(l, from, to)
  PROVE  /\ step[l] = from /\ step' \in [Lookup -> Steps] /\ step'[l] = to
         /\ \A k \in Lookup \ {l} : step'[k] = step[k]
BY DEF TypeOK, Go, Steps

LEMMA ReturnEnds ==
  ASSUME TypeOK, NEW l \in Lookup, NEW from, NEW term \in Copy, NEW via \in Via,
         Return(l, from, term, via)
  PROVE  /\ step[l] = from /\ step' \in [Lookup -> Steps] /\ step'[l] = "done"
         /\ answer' \in [Lookup -> Answer]
         /\ answer'[l] = [term |-> term, via |-> via]
         /\ cached' \in [Lookup -> Copy] /\ reply' \in [Lookup -> Copy]
         /\ lag' \in [Lookup -> 0..RpcTicks]
         /\ reply'[l] = Nothing
         /\ \A k \in Lookup \ {l} :
              step'[k] = step[k] /\ reply'[k] = reply[k] /\ lag'[k] = lag[k]
<1>1. /\ step[l] = from /\ step' \in [Lookup -> Steps] /\ step'[l] = "done"
      /\ \A k \in Lookup \ {l} : step'[k] = step[k]
  BY GoMoves DEF Return, Steps
<1>2. [term |-> term, via |-> via] \in Answer
  BY DEF Answer
<1>3. answer' \in [Lookup -> Answer] /\ answer'[l] = [term |-> term, via |-> via]
  BY <1>2 DEF Return, TypeOK
<1>4. cached' \in [Lookup -> Copy] /\ reply' \in [Lookup -> Copy] /\ reply'[l] = Nothing
  BY NothingIsCopy DEF Return, TypeOK
<1>5. lag' \in [Lookup -> 0..RpcTicks]
  BY Bounds DEF Return, TypeOK
<1>6. \A k \in Lookup \ {l} : reply'[k] = reply[k] /\ lag'[k] = lag[k]
  BY DEF Return, TypeOK
<1>. QED BY <1>1, <1>3, <1>4, <1>5, <1>6

\* Whatever leaves the bank alone leaves its invariant alone, and what is live.
LEMMA BankStill ==
  ASSUME DecisionInv, UNCHANGED bank
  PROVE  /\ DecisionInv' /\ BankTypeOK' /\ BankTypeOK
         /\ terms' = terms /\ topic' = topic
         /\ Committed' = Committed /\ \A q : Live(q)' = Live(q)
<1>1. DecisionInv' /\ BankTypeOK' /\ BankTypeOK
  BY DecisionStep DEF DecisionInv
<1>2. UNCHANGED <<terms, topic, committed>>
  BY DEF bank, store, history
<1>. QED BY <1>1, <1>2 DEF Committed, Live

-----------------------------------------------------------------------------
(* The steps.                                                              *)

LEMMA BankDelivers ==
  ASSUME DeliveryInv, BankNext, UNCHANGED <<cache, lookup, faults, gone>>
  PROVE  DeliveryInv'
<1>1. /\ DecisionInv' /\ BankTypeOK'
      /\ Len(topic) \in Nat /\ Len(topic') \in Nat /\ Len(topic) <= Len(topic')
      /\ Committed \subseteq Committed'
      /\ \A t \in TermId : terms'[t] = terms[t] \/ terms'[t] \in Req \ Committed
  BY BankMoves DEF DeliveryInv
<1>2. UNCHANGED <<entries, offset, step, wanted, cached, reply, lag, answer,
                  failures, restarts, gone>>
  BY DEF cache, lookup, faults
<1>3. offset' \in 0..Len(topic')
  BY <1>1, <1>2 DEF DeliveryInv, TypeOK
<1>4. TypeOK'
  BY <1>1, <1>2, <1>3 DEF DeliveryInv, TypeOK
<1>5. RepliesKept'
  <2>1. \A t \in TermId : terms[t] # NoTerm => terms'[t] # NoTerm
    BY <1>1, TermBankConstants
  <2>2. \A l \in Lookup : wanted[l] \in TermId
    BY DEF DeliveryInv, TypeOK
  <2>. QED BY <1>2, <2>1, <2>2 DEF DeliveryInv, RepliesKept
<1>6. GoneAreReplaced'
  <2>1. \A q \in Req : q \in Committed /\ ~Live(q) => q \in Committed' /\ ~Live(q)'
    BY <1>1 DEF Live
  <2>. QED BY <1>2, <2>1 DEF DeliveryInv, GoneAreReplaced
<1>7. RepliesRecent' /\ EntriesAged'
  BY <1>2 DEF DeliveryInv, RepliesRecent, EntriesAged
<1>. QED BY <1>1, <1>4, <1>5, <1>6, <1>7 DEF DeliveryInv

\* by_id answers: from the cache, from the reply, or with what it had cached.
LEMMA ReturnDelivers ==
  ASSUME DeliveryInv, UNCHANGED <<bank, offset, gone>>,
         NEW l \in Lookup, NEW from \in Steps, NEW term \in Copy, NEW via \in Via,
         Return(l, from, term, via),
         entries' \in [TermId -> Entry], EntriesAged',
         wanted' \in [Lookup -> TermId],
         \A k \in Lookup \ {l} : wanted'[k] = wanted[k],
         failures' \in 0..MaxFailures, restarts' = restarts
  PROVE  DeliveryInv'
<1>1. /\ DecisionInv' /\ BankTypeOK' /\ terms' = terms /\ topic' = topic
      /\ Committed' = Committed /\ \A q : Live(q)' = Live(q)
  BY BankStill DEF DeliveryInv
<1>2. /\ step' \in [Lookup -> Steps] /\ step'[l] = "done"
      /\ answer' \in [Lookup -> Answer]
      /\ cached' \in [Lookup -> Copy] /\ reply' \in [Lookup -> Copy]
      /\ lag' \in [Lookup -> 0..RpcTicks]
      /\ reply'[l] = Nothing
      /\ \A k \in Lookup \ {l} :
           step'[k] = step[k] /\ reply'[k] = reply[k] /\ lag'[k] = lag[k]
  BY ReturnEnds DEF DeliveryInv
<1>3. \A k \in Lookup : step'[k] = "sent" /\ reply'[k] # Nothing
                          => NoTerm \notin {reply'[k].row, reply'[k].children}
  BY <1>2 DEF DeliveryInv, TypeOK
<1>4. TypeOK'
  BY <1>1, <1>2, <1>3 DEF DeliveryInv, TypeOK, Steps
<1>5. RepliesKept'
  BY <1>1, <1>2 DEF DeliveryInv, RepliesKept
<1>6. GoneAreReplaced'
  BY <1>1 DEF DeliveryInv, GoneAreReplaced
<1>7. RepliesRecent'
  BY <1>2, NothingIsCopy DEF DeliveryInv, RepliesRecent
<1>. QED BY <1>1, <1>4, <1>5, <1>6, <1>7 DEF DeliveryInv

LEMMA HitDelivers ==
  ASSUME DeliveryInv, NEW l \in Lookup, NEW t \in TermId, Hit(l, t)
  PROVE  DeliveryInv'
<1>1. entries[t].term \in Copy
  BY DEF DeliveryInv, TypeOK, Entry
<1>2. /\ Return(l, "idle", entries[t].term, "cache")
      /\ wanted' = [wanted EXCEPT ![l] = t]
      /\ UNCHANGED <<bank, entries, offset, gone, failures, restarts>>
  BY DEF Hit, cache, faults
<1>3. EntriesAged'
  BY <1>2 DEF DeliveryInv, EntriesAged
<1>4. /\ wanted' \in [Lookup -> TermId]
      /\ \A k \in Lookup \ {l} : wanted'[k] = wanted[k]
      /\ entries' \in [TermId -> Entry]
      /\ failures' \in 0..MaxFailures
  BY <1>2 DEF DeliveryInv, TypeOK
<1>5. "idle" \in Steps /\ "cache" \in Via
  BY DEF Steps, Via
<1>. QED BY <1>1, <1>2, <1>3, <1>4, <1>5, ReturnDelivers

LEMMA ReceiveDelivers ==
  ASSUME DeliveryInv, NEW l \in Lookup, Receive(l)
  PROVE  DeliveryInv'
<1>1. /\ reply[l] \in Copy /\ wanted[l] \in TermId /\ entries \in [TermId -> Entry]
      /\ lag[l] \in 0..RpcTicks /\ gone \in [Req -> 0..Forgotten]
  BY DEF DeliveryInv, TypeOK
<1>2. /\ Return(l, "sent", reply[l], "reply")
      /\ UNCHANGED <<bank, offset, wanted, gone, failures, restarts>>
      /\ \/ entries' = entries
         \/ entries' = [entries EXCEPT ![wanted[l]] = [term |-> reply[l], age |-> 0]]
  BY DEF Receive, faults
<1>3. [term |-> reply[l], age |-> 0] \in Entry
  BY <1>1, Bounds DEF Entry
<1>4. entries' \in [TermId -> Entry]
  BY <1>1, <1>2, <1>3
<1>5. EntriesAged'
  <2>. SUFFICES ASSUME NEW t \in TermId, entries'[t].age < TTL,
                       NEW v \in Parts(entries'[t].term)
                PROVE  gone[v] <= entries'[t].age + RpcTicks
    BY <1>2 DEF EntriesAged
  <2>1. CASE entries'[t] = entries[t]
    BY <2>1 DEF DeliveryInv, EntriesAged
  <2>2. CASE entries'[t] = [term |-> reply[l], age |-> 0]
    <3>1. v \in Parts(reply[l]) /\ entries'[t].age = 0
      BY <2>2
    <3>2. gone[v] <= lag[l] /\ gone[v] \in Nat
      BY <1>1, <3>1, CopyParts DEF DeliveryInv, RepliesRecent
    <3>. QED BY <1>1, <3>1, <3>2, Bounds
  <2>. QED BY <1>1, <1>2, <2>1, <2>2
<1>6. wanted' \in [Lookup -> TermId] /\ failures' \in 0..MaxFailures
  BY <1>2 DEF DeliveryInv, TypeOK
<1>7. "sent" \in Steps /\ "reply" \in Via
  BY DEF Steps, Via
<1>. QED BY <1>1, <1>2, <1>4, <1>5, <1>6, <1>7, ReturnDelivers

LEMMA FailDelivers ==
  ASSUME DeliveryInv, NEW l \in Lookup, Fail(l)
  PROVE  DeliveryInv'
<1>1. cached[l] \in Copy
  BY DEF DeliveryInv, TypeOK
<1>2. PICK from \in {"called", "row", "sent"} : Return(l, from, cached[l], "fallback")
  BY DEF Fail
<1>3. UNCHANGED <<bank, entries, offset, wanted, gone, restarts>>
  BY DEF Fail, cache
<1>4. failures' \in 0..MaxFailures
  BY Bounds DEF Fail, DeliveryInv, TypeOK
<1>5. EntriesAged'
  BY <1>3 DEF DeliveryInv, EntriesAged
<1>6. wanted' \in [Lookup -> TermId] /\ entries' \in [TermId -> Entry]
  BY <1>3 DEF DeliveryInv, TypeOK
<1>7. from \in Steps /\ "fallback" \in Via
  BY DEF Steps, Via
<1>. QED BY <1>1, <1>2, <1>3, <1>4, <1>5, <1>6, <1>7, ReturnDelivers

\* What a step does that has no part of the bank or the cache.
LEMMA LookupDelivers ==
  ASSUME DeliveryInv, UNCHANGED <<bank, cache, faults, gone, lag>>,
         NEW l \in Lookup, NEW from \in Steps, NEW to \in Steps, Go(l, from, to),
         wanted' \in [Lookup -> TermId], cached' \in [Lookup -> Copy],
         answer' \in [Lookup -> Answer], reply' \in [Lookup -> Copy],
         \A k \in Lookup \ {l} : wanted'[k] = wanted[k] /\ reply'[k] = reply[k],
         to \in {"idle", "called", "done"} => reply'[l] = Nothing,
         to = "row" => /\ reply'[l].row # NoTerm /\ reply'[l].children = NoTerm
                       /\ terms[wanted'[l]] # NoTerm,
         to = "sent" /\ reply'[l] # Nothing
           => NoTerm \notin {reply'[l].row, reply'[l].children},
         \A v \in Parts(reply'[l]) : gone[v] <= lag[l]
  PROVE  DeliveryInv'
<1>1. /\ DecisionInv' /\ BankTypeOK' /\ terms' = terms /\ topic' = topic
      /\ Committed' = Committed /\ \A q : Live(q)' = Live(q)
  BY BankStill DEF DeliveryInv
<1>2. /\ step' \in [Lookup -> Steps] /\ step'[l] = to
      /\ \A k \in Lookup \ {l} : step'[k] = step[k]
  BY GoMoves DEF DeliveryInv
<1>3. UNCHANGED <<entries, offset, failures, restarts>>
  BY DEF cache, faults
<1>4. \A k \in Lookup : step'[k] = "sent" /\ reply'[k] # Nothing
                          => NoTerm \notin {reply'[k].row, reply'[k].children}
  BY <1>2 DEF DeliveryInv, TypeOK
<1>5. TypeOK'
  BY <1>1, <1>2, <1>3, <1>4 DEF DeliveryInv, TypeOK, Steps
<1>6. RepliesKept'
  BY <1>1, <1>2 DEF DeliveryInv, RepliesKept
<1>7. GoneAreReplaced'
  BY <1>1 DEF DeliveryInv, GoneAreReplaced
<1>8. RepliesRecent' /\ EntriesAged'
  BY <1>3 DEF DeliveryInv, RepliesRecent, EntriesAged
<1>. QED BY <1>1, <1>5, <1>6, <1>7, <1>8 DEF DeliveryInv

LEMMA MissDelivers ==
  ASSUME DeliveryInv, NEW l \in Lookup, NEW t \in TermId, Miss(l, t)
  PROVE  DeliveryInv'
<1>1. /\ Go(l, "idle", "called") /\ "idle" \in Steps /\ "called" \in Steps
      /\ wanted' = [wanted EXCEPT ![l] = t]
      /\ cached' = [cached EXCEPT ![l] = entries[t].term]
      /\ UNCHANGED <<bank, cache, faults, gone, lag, reply, answer>>
  BY DEF Miss, Steps
<1>2. entries[t].term \in Copy
  BY DEF DeliveryInv, TypeOK, Entry
<1>3. reply[l] = Nothing
  BY <1>1 DEF DeliveryInv, RepliesKept, Go
<1>4. wanted' \in [Lookup -> TermId] /\ cached' \in [Lookup -> Copy]
  BY <1>1, <1>2 DEF DeliveryInv, TypeOK
<1>5. \A k \in Lookup \ {l} : wanted'[k] = wanted[k]
  BY <1>1 DEF DeliveryInv, TypeOK
<1>6. answer' \in [Lookup -> Answer] /\ reply' \in [Lookup -> Copy]
  BY <1>1 DEF DeliveryInv, TypeOK
<1>7. Parts(reply'[l]) = {}
  BY <1>1, <1>3, NothingIsCopy
<1>. QED BY <1>1, <1>3, <1>4, <1>5, <1>6, <1>7, LookupDelivers

LEMMA SelectRowDelivers ==
  ASSUME DeliveryInv, NEW l \in Lookup, SelectRow(l)
  PROVE  DeliveryInv'
<1>. DEFINE to == IF terms[wanted[l]] = NoTerm THEN "sent" ELSE "row"
<1>1. /\ Go(l, "called", to) /\ "called" \in Steps /\ to \in Steps
      /\ reply' = [reply EXCEPT ![l].row = terms[wanted[l]]]
      /\ UNCHANGED <<bank, cache, faults, gone, lag, wanted, cached, answer>>
  BY DEF SelectRow, Steps
<1>2. reply[l] = Nothing /\ reply \in [Lookup -> Copy]
  BY <1>1 DEF DeliveryInv, RepliesKept, Go, TypeOK
<1>3. wanted[l] \in TermId /\ terms[wanted[l]] \in Version
  BY DEF DeliveryInv, TypeOK, BankTypeOK, Version
<1>4. /\ reply'[l] = [row |-> terms[wanted[l]], children |-> NoTerm]
      /\ \A k \in Lookup \ {l} : reply'[k] = reply[k]
  BY <1>1, <1>2 DEF Nothing, Whole
<1>5. reply'[l] \in Copy
  BY <1>3, <1>4 DEF Copy, Version
<1>6. reply' \in [Lookup -> Copy]
  BY <1>1, <1>2, <1>4, <1>5
<1>7. to = "sent" => reply'[l] = Nothing
  BY <1>4 DEF Nothing, Whole
<1>8. to = "row" => /\ reply'[l].row # NoTerm /\ reply'[l].children = NoTerm
                    /\ terms[wanted[l]] # NoTerm
  BY <1>4
<1>9. ASSUME NEW v \in Parts(reply'[l])
      PROVE  gone[v] <= lag[l]
  <2>1. v = terms[wanted[l]] /\ v \in Req
    BY <1>3, <1>4 DEF Parts, Version
  <2>2. Live(v)
    BY <1>3, <2>1 DEF Live
  <2>3. ~(gone[v] > 0) /\ gone[v] \in Nat /\ lag[l] \in Nat
    BY <2>1, <2>2, Bounds DEF DeliveryInv, GoneAreReplaced, TypeOK
  <2>. QED BY <2>3
<1>10. /\ wanted' \in [Lookup -> TermId] /\ cached' \in [Lookup -> Copy]
       /\ answer' \in [Lookup -> Answer] /\ wanted' = wanted
  BY <1>1 DEF DeliveryInv, TypeOK
<1>11. to \notin {"idle", "called", "done"}
  OBVIOUS
<1>. HIDE DEF to
<1>. QED BY <1>1, <1>4, <1>6, <1>7, <1>8, <1>9, <1>10, <1>11, LookupDelivers

LEMMA SelectChildrenDelivers ==
  ASSUME DeliveryInv, NEW l \in Lookup, SelectChildren(l)
  PROVE  DeliveryInv'
<1>1. /\ Go(l, "row", "sent") /\ "row" \in Steps /\ "sent" \in Steps
      /\ reply' = [reply EXCEPT ![l].children = terms[wanted[l]]]
      /\ UNCHANGED <<bank, cache, faults, gone, lag, wanted, cached, answer>>
  BY DEF SelectChildren, Steps
<1>2. /\ reply \in [Lookup -> Copy] /\ reply[l].row # NoTerm
      /\ terms[wanted[l]] # NoTerm
  BY <1>1 DEF DeliveryInv, RepliesKept, Go, TypeOK
<1>3. wanted[l] \in TermId /\ terms[wanted[l]] \in Version
  BY DEF DeliveryInv, TypeOK, BankTypeOK, Version
<1>4. /\ reply[l] = [row |-> reply[l].row, children |-> reply[l].children]
      /\ reply[l].row \in Version
  BY <1>2, CopyParts
<1>5. /\ reply'[l] = [row |-> reply[l].row, children |-> terms[wanted[l]]]
      /\ \A k \in Lookup \ {l} : reply'[k] = reply[k]
  <2>1. reply'[l] = [reply[l] EXCEPT !.children = terms[wanted[l]]]
    BY <1>1, <1>2
  <2>. QED BY <1>1, <1>2, <1>4, <2>1
<1>6. reply'[l] \in Copy
  BY <1>3, <1>4, <1>5 DEF Copy
<1>7. reply' \in [Lookup -> Copy]
  BY <1>1, <1>2, <1>5, <1>6
<1>8. NoTerm \notin {reply'[l].row, reply'[l].children}
  BY <1>2, <1>5
<1>9. ASSUME NEW v \in Parts(reply'[l])
      PROVE  gone[v] <= lag[l]
  <2>1. CASE v = terms[wanted[l]]
    <3>1. Live(v) /\ v \in Req
      BY <1>2, <1>3, <2>1 DEF Live, Version
    <3>2. ~(gone[v] > 0) /\ gone[v] \in Nat /\ lag[l] \in Nat
      BY <3>1, Bounds DEF DeliveryInv, GoneAreReplaced, TypeOK
    <3>. QED BY <3>2
  <2>2. CASE v = reply[l].row
    <3>1. v \in Parts(reply[l])
      BY <1>2, <2>2 DEF Parts
    <3>. QED BY <3>1 DEF DeliveryInv, RepliesRecent
  <2>. QED BY <1>5, <2>1, <2>2 DEF Parts
<1>10. /\ wanted' \in [Lookup -> TermId] /\ cached' \in [Lookup -> Copy]
       /\ answer' \in [Lookup -> Answer] /\ wanted' = wanted
  BY <1>1 DEF DeliveryInv, TypeOK
<1>. QED BY <1>1, <1>5, <1>7, <1>8, <1>9, <1>10, LookupDelivers

LEMMA FinishDelivers ==
  ASSUME DeliveryInv, NEW l \in Lookup, Finish(l)
  PROVE  DeliveryInv'
<1>1. /\ Go(l, "done", "idle") /\ "done" \in Steps /\ "idle" \in Steps
      /\ answer' = [answer EXCEPT ![l] = NoAnswer]
      /\ UNCHANGED <<bank, cache, faults, gone, lag, wanted, cached, reply>>
  BY DEF Finish, Steps
<1>2. reply[l] = Nothing
  BY <1>1 DEF DeliveryInv, RepliesKept, Go
<1>3. Parts(reply'[l]) = {}
  BY <1>1, <1>2, NothingIsCopy
<1>4. /\ wanted' \in [Lookup -> TermId] /\ cached' \in [Lookup -> Copy]
      /\ answer' \in [Lookup -> Answer] /\ reply' \in [Lookup -> Copy]
  BY <1>1, NothingIsCopy DEF DeliveryInv, TypeOK
<1>. QED BY <1>1, <1>2, <1>3, <1>4, LookupDelivers

LEMMA InvalidateDelivers ==
  ASSUME DeliveryInv, Invalidate
  PROVE  DeliveryInv'
<1>1. /\ DecisionInv' /\ BankTypeOK' /\ BankTypeOK /\ terms' = terms /\ topic' = topic
      /\ Committed' = Committed /\ \A q : Live(q)' = Live(q)
  BY BankStill DEF Invalidate, DeliveryInv
<1>2. /\ offset < Len(topic) /\ offset' = offset + 1
      /\ entries' = [entries EXCEPT ![topic[offset + 1].term_id] = NoEntry]
      /\ UNCHANGED <<step, wanted, cached, reply, lag, answer, failures, restarts, gone>>
  BY DEF Invalidate, lookup, faults
<1>3. offset \in 0..Len(topic) /\ Len(topic) \in Nat
  BY <1>1 DEF DeliveryInv, TypeOK, BankTypeOK
<1>4. offset' \in 0..Len(topic)
  BY <1>2, <1>3
<1>5. /\ entries' \in [TermId -> Entry]
      /\ \A t \in TermId : entries'[t] = entries[t] \/ entries'[t] = NoEntry
  BY <1>2, NothingIsCopy DEF DeliveryInv, TypeOK
<1>6. TypeOK'
  BY <1>1, <1>2, <1>4, <1>5 DEF DeliveryInv, TypeOK
<1>7. RepliesKept' /\ RepliesRecent'
  BY <1>1, <1>2 DEF DeliveryInv, RepliesKept, RepliesRecent
<1>8. GoneAreReplaced'
  BY <1>1, <1>2 DEF DeliveryInv, GoneAreReplaced
<1>9. EntriesAged'
  BY <1>2, <1>5, NothingIsCopy DEF DeliveryInv, EntriesAged
<1>. QED BY <1>1, <1>6, <1>7, <1>8, <1>9 DEF DeliveryInv

LEMMA OlderGrows ==
  ASSUME NEW max \in Nat, NEW n \in 0..max
  PROVE  /\ Older(n, max) \in 0..max
         /\ Older(n, max) <= n + 1
         /\ Older(n, max) < max => Older(n, max) = n + 1
BY DEF Older

LEMMA TickDelivers ==
  ASSUME DeliveryInv, Tick
  PROVE  DeliveryInv'
<1>1. /\ DecisionInv' /\ BankTypeOK' /\ terms' = terms /\ topic' = topic
      /\ Committed' = Committed /\ \A q : Live(q)' = Live(q)
  BY BankStill DEF Tick, DeliveryInv
<1>2. UNCHANGED <<offset, step, wanted, cached, reply, answer, failures, restarts>>
  BY DEF Tick, faults
<1>3. /\ gone \in [Req -> 0..Forgotten] /\ lag \in [Lookup -> 0..RpcTicks]
      /\ entries \in [TermId -> Entry]
  BY DEF DeliveryInv, TypeOK
<1>4. \A q \in Req :
        /\ gone'[q] \in 0..Forgotten /\ gone'[q] <= gone[q] + 1
        /\ \/ gone'[q] = gone[q]
           \/ q \in Committed /\ ~Live(q)
  <2>. SUFFICES ASSUME NEW q \in Req
                PROVE  /\ gone'[q] \in 0..Forgotten /\ gone'[q] <= gone[q] + 1
                       /\ \/ gone'[q] = gone[q]
                          \/ q \in Committed /\ ~Live(q)
    OBVIOUS
  <2>1. \/ gone'[q] = gone[q]
        \/ gone'[q] = Older(gone[q], Forgotten) /\ q \in Committed /\ ~Live(q)
    BY DEF Tick
  <2>2. gone[q] \in 0..Forgotten
    BY <1>3
  <2>. QED BY <2>1, <2>2, Bounds DEF Older
<1>5. gone' \in [Req -> 0..Forgotten]
  <2>1. gone' = [q \in Req |-> gone'[q]]
    BY DEF Tick
  <2>. QED BY <1>4, <2>1
<1>6. \A l \in Lookup : IF InFlight(l) THEN lag[l] < RpcTicks /\ lag'[l] = lag[l] + 1
                                       ELSE lag'[l] = lag[l]
  BY DEF Tick
<1>7. lag' \in [Lookup -> 0..RpcTicks]
  BY <1>3, Bounds DEF Tick
<1>8. \A t \in TermId :
        /\ entries'[t] \in Entry
        /\ \/ Parts(entries'[t].term) = {}
           \/ /\ entries'[t].term = entries[t].term
              /\ entries[t].age \in 0..TTL
              /\ entries'[t].age < TTL => entries'[t].age = entries[t].age + 1
  <2>. SUFFICES ASSUME NEW t \in TermId
                PROVE  /\ entries'[t] \in Entry
                       /\ \/ Parts(entries'[t].term) = {}
                          \/ /\ entries'[t].term = entries[t].term
                             /\ entries[t].age \in 0..TTL
                             /\ entries'[t].age < TTL => entries'[t].age = entries[t].age + 1
    OBVIOUS
  <2>1. CASE entries[t].term = Nothing
    <3>1. entries'[t] = NoEntry
      BY <2>1 DEF Tick
    <3>. QED BY <3>1, NothingIsCopy
  <2>2. CASE entries[t].term # Nothing
    <3>1. entries[t] \in Entry
      BY <1>3
    <3>2. entries'[t] = [entries[t] EXCEPT !.age = Older(entries[t].age, TTL)]
      BY <2>2 DEF Tick
    <3>3. entries[t].term \in Copy /\ entries[t].age \in 0..TTL
      BY <3>1 DEF Entry
    <3>4. entries'[t] = [term |-> entries[t].term, age |-> Older(entries[t].age, TTL)]
      BY <3>1, <3>2 DEF Entry
    <3>5. Older(entries[t].age, TTL) \in 0..TTL
      BY <3>3, OlderGrows, Bounds
    <3>6. entries'[t] \in Entry
      BY <3>3, <3>4, <3>5 DEF Entry
    <3>7. entries'[t].age < TTL => entries'[t].age = entries[t].age + 1
      BY <3>3, <3>4, Bounds DEF Older
    <3>. QED BY <3>3, <3>4, <3>6, <3>7
  <2>. QED BY <2>1, <2>2
<1>9. entries' \in [TermId -> Entry]
  <2>1. entries' = [t \in TermId |-> entries'[t]]
    BY DEF Tick
  <2>. QED BY <1>8, <2>1
<1>10. TypeOK'
  BY <1>1, <1>2, <1>5, <1>7, <1>9 DEF DeliveryInv, TypeOK
<1>11. RepliesKept'
  BY <1>1, <1>2 DEF DeliveryInv, RepliesKept
<1>12. GoneAreReplaced'
  BY <1>1, <1>4 DEF DeliveryInv, GoneAreReplaced
<1>13. RepliesRecent'
  <2>. SUFFICES ASSUME NEW l \in Lookup, NEW v \in Parts(reply[l])
                PROVE  gone'[v] <= lag'[l]
    BY <1>2 DEF RepliesRecent
  <2>1. reply[l] \in Copy /\ v \in Req
    BY CopyParts DEF DeliveryInv, TypeOK
  <2>2. InFlight(l)
    <3>1. reply[l] # Nothing
      BY NothingIsCopy
    <3>. QED BY <3>1 DEF DeliveryInv, RepliesKept, TypeOK, InFlight
  <2>3. gone[v] <= lag[l]
    BY DEF DeliveryInv, RepliesRecent
  <2>4. gone'[v] <= gone[v] + 1 /\ gone'[v] \in Nat /\ gone[v] \in Nat /\ lag[l] \in Nat
    BY <1>3, <1>4, <2>1, Bounds
  <2>. QED BY <1>6, <2>2, <2>3, <2>4
<1>14. EntriesAged'
  <2>. SUFFICES ASSUME NEW t \in TermId, entries'[t].age < TTL,
                       NEW v \in Parts(entries'[t].term)
                PROVE  gone'[v] <= entries'[t].age + RpcTicks
    BY DEF EntriesAged
  <2>1. /\ entries'[t].term = entries[t].term /\ entries[t].age \in 0..TTL
        /\ entries'[t].age = entries[t].age + 1
    BY <1>8
  <2>2. entries[t].age < TTL
    BY <2>1, Bounds
  <2>3. gone[v] <= entries[t].age + RpcTicks
    BY <2>1, <2>2 DEF DeliveryInv, EntriesAged
  <2>4. v \in Req
    BY <1>3, <2>1, CopyParts DEF Entry
  <2>5. gone'[v] <= gone[v] + 1 /\ gone'[v] \in Nat /\ gone[v] \in Nat
    BY <1>3, <1>4, <2>4, Bounds
  <2>. QED BY <2>1, <2>3, <2>5, Bounds
<1>. QED BY <1>1, <1>10, <1>11, <1>12, <1>13, <1>14 DEF DeliveryInv

LEMMA RestartDelivers ==
  ASSUME DeliveryInv, Restart
  PROVE  DeliveryInv'
<1>1. /\ DecisionInv' /\ BankTypeOK' /\ BankTypeOK /\ terms' = terms /\ topic' = topic
      /\ Committed' = Committed /\ \A q : Live(q)' = Live(q)
  BY BankStill DEF Restart, DeliveryInv
<1>2. offset' \in 0..Len(topic)
  <2>1. offset \in 0..Len(topic) /\ Len(topic) \in Nat
    BY <1>1 DEF DeliveryInv, TypeOK, BankTypeOK
  <2>2. offset' \in 0..offset \cup {Len(topic)}
    BY DEF Restart
  <2>. QED BY <2>1, <2>2
<1>3. /\ entries' = [t \in TermId |-> NoEntry]
      /\ step' = [l \in Lookup |-> "idle"]
      /\ cached' = [l \in Lookup |-> Nothing] /\ reply' = [l \in Lookup |-> Nothing]
      /\ lag' = [l \in Lookup |-> 0] /\ answer' = [l \in Lookup |-> NoAnswer]
      /\ UNCHANGED <<wanted, failures, gone>>
      /\ restarts < MaxRestarts /\ restarts' = restarts + 1
  BY DEF Restart
<1>4. restarts' \in 0..MaxRestarts
  BY <1>3, Bounds DEF DeliveryInv, TypeOK
<1>5. lag' \in [Lookup -> 0..RpcTicks]
  BY <1>3, Bounds
<1>6. /\ wanted' \in [Lookup -> TermId] /\ failures' \in 0..MaxFailures
      /\ gone' \in [Req -> 0..Forgotten]
  BY <1>3 DEF DeliveryInv, TypeOK
<1>7. TypeOK'
  BY <1>1, <1>2, <1>3, <1>4, <1>5, <1>6, NothingIsCopy DEF TypeOK
<1>8. RepliesKept' /\ RepliesRecent' /\ EntriesAged'
  BY <1>3, NothingIsCopy DEF RepliesKept, RepliesRecent, EntriesAged
<1>9. GoneAreReplaced'
  BY <1>1, <1>3 DEF DeliveryInv, GoneAreReplaced
<1>. QED BY <1>1, <1>7, <1>8, <1>9 DEF DeliveryInv

LEMMA DeliveryStep ==
  ASSUME DeliveryInv, [Next]_vars
  PROVE  DeliveryInv'
<1>1. CASE UNCHANGED vars
  <2>1. UNCHANGED <<bank, entries, offset, step, wanted, cached, reply, lag, answer,
                    failures, restarts, gone>>
    BY <1>1 DEF vars, cache, lookup, faults
  <2>2. /\ DecisionInv' /\ BankTypeOK' /\ terms' = terms /\ topic' = topic
        /\ Committed' = Committed /\ \A q : Live(q)' = Live(q)
    BY <2>1, BankStill DEF DeliveryInv
  <2>3. TypeOK'
    BY <2>1, <2>2 DEF DeliveryInv, TypeOK
  <2>4. RepliesKept' /\ RepliesRecent' /\ EntriesAged'
    BY <2>1, <2>2 DEF DeliveryInv, RepliesKept, RepliesRecent, EntriesAged
  <2>5. GoneAreReplaced'
    BY <2>1, <2>2 DEF DeliveryInv, GoneAreReplaced
  <2>. QED BY <2>2, <2>3, <2>4, <2>5 DEF DeliveryInv
<1>. QED BY <1>1, BankDelivers, HitDelivers, MissDelivers, SelectRowDelivers,
            SelectChildrenDelivers, ReceiveDelivers, FailDelivers, FinishDelivers,
            InvalidateDelivers, TickDelivers, RestartDelivers
         DEF Next, Serve

LEMMA DeliveryInit == Init => DeliveryInv
<1>. SUFFICES ASSUME Init PROVE DeliveryInv
  OBVIOUS
<1>1. DecisionInv
  BY DEF Init, BankInit, DecisionInv, BankTypeOK, Phase, Committed, CommittedHaveEnded,
         OthersAreRivals, AllOverlapped, CommittedDecided, SomebodyDecided, Decided,
         UnchangedIsDecided, ChangedAreReviews
<1>2. topic = << >> /\ Len(topic) = 0 /\ BankTypeOK
  BY <1>1 DEF Init, BankInit, DecisionInv
<1>3. TypeOK
  BY <1>2, NothingIsCopy, Bounds DEF Init, TypeOK
<1>4. RepliesKept /\ RepliesRecent /\ EntriesAged /\ GoneAreReplaced
  BY NothingIsCopy DEF Init, RepliesKept, RepliesRecent, EntriesAged, GoneAreReplaced
<1>. QED BY <1>1, <1>3, <1>4 DEF DeliveryInv

\* Types are right in every reachable state, for any number of lookups, terms and
\* versions, and a reply that has been read is whole or empty.
THEOREM DeliveryTyping == Spec => []TypeOK
<1>1. DeliveryInv => TypeOK
  BY DEF DeliveryInv
<1>. QED BY <1>1, DeliveryInit, DeliveryStep, PTL DEF Spec

-----------------------------------------------------------------------------
(* How stale an answer can be.                                             *)

\* A lookup returns in Hit, Receive and Fail, and nowhere else.
LEMMA WhoReturns ==
  ASSUME DeliveryInv, Next, NEW l \in Lookup, Returns(l)
  PROVE  \/ \E t \in TermId : Hit(l, t)
         \/ Receive(l)
         \/ Fail(l)
<1>. DEFINE Done == (\E t \in TermId : Hit(l, t)) \/ Receive(l) \/ Fail(l)
<1>0. TypeOK /\ step[l] # "done" /\ step'[l] = "done"
  BY DEF Returns, DeliveryInv
<1>1. CASE step' = step \/ Restart
  BY <1>0, <1>1 DEF Restart
<1>2. ASSUME NEW k \in Lookup, NEW t \in TermId, Hit(k, t)
      PROVE  Done
  <2>1. \A j \in Lookup \ {k} : step'[j] = step[j]
    BY <1>0, <1>2 DEF Hit, Return, Go, TypeOK
  <2>. QED BY <1>0, <1>2, <2>1
<1>3. ASSUME NEW k \in Lookup, Receive(k)
      PROVE  Done
  <2>1. \A j \in Lookup \ {k} : step'[j] = step[j]
    BY <1>0, <1>3 DEF Receive, Return, Go, TypeOK
  <2>. QED BY <1>0, <1>3, <2>1
<1>4. ASSUME NEW k \in Lookup, Fail(k)
      PROVE  Done
  <2>1. \A j \in Lookup \ {k} : step'[j] = step[j]
    BY <1>0, <1>4 DEF Fail, Return, Go, TypeOK
  <2>. QED BY <1>0, <1>4, <2>1
<1>5. ASSUME NEW k \in Lookup, NEW t \in TermId,
             SelectRow(k) \/ SelectChildren(k) \/ Finish(k) \/ Miss(k, t)
      PROVE  FALSE
  <2>1. PICK to \in Steps \ {"done"} : step' = [step EXCEPT ![k] = to]
    BY <1>5 DEF SelectRow, SelectChildren, Finish, Miss, Go, Steps
  <2>. QED BY <1>0, <2>1 DEF TypeOK
<1>6. CASE BankNext /\ UNCHANGED <<cache, lookup, faults, gone>>
  BY <1>1, <1>6 DEF lookup
<1>7. CASE Invalidate \/ Tick
  BY <1>1, <1>7 DEF Invalidate, Tick, lookup
<1>8. ASSUME NEW k \in Lookup, SelectRow(k) \/ SelectChildren(k) \/ Finish(k)
      PROVE  FALSE
  <2>1. PICK to \in Steps \ {"done"} : step' = [step EXCEPT ![k] = to]
    BY <1>8 DEF SelectRow, SelectChildren, Finish, Go, Steps
  <2>. QED BY <1>0, <2>1 DEF TypeOK
<1>. QED BY <1>1, <1>2, <1>3, <1>4, <1>5, <1>6, <1>7, <1>8 DEF Next, Serve

LEMMA ReturnsInBound ==
  ASSUME DeliveryInv, Next, NEW l \in Lookup, Returns(l), answer'[l].via # "fallback",
         NEW v \in Parts(answer'[l].term)
  PROVE  gone[v] < TTL + RpcTicks
<1>0. /\ TypeOK /\ gone \in [Req -> 0..Forgotten] /\ entries \in [TermId -> Entry]
      /\ reply[l] \in Copy /\ cached[l] \in Copy /\ lag[l] \in 0..RpcTicks
  BY DEF DeliveryInv, TypeOK
<1>1. ASSUME NEW t \in TermId, Hit(l, t)
      PROVE  gone[v] < TTL + RpcTicks
  <2>1. entries[t].term \in Copy /\ entries[t].age \in Nat /\ entries[t].age < TTL
    BY <1>0, <1>1, Bounds DEF Entry, Hit, Fresh
  <2>2. v \in Parts(entries[t].term)
    <3>1. Return(l, "idle", entries[t].term, "cache") /\ "cache" \in Via
      BY <1>1 DEF Hit, Via
    <3>2. answer'[l] = [term |-> entries[t].term, via |-> "cache"]
      BY <1>0, <3>1 DEF Return, TypeOK
    <3>. QED BY <3>2
  <2>3. v \in Req /\ gone[v] \in Nat
    BY <1>0, <2>1, <2>2, CopyParts, Bounds
  <2>4. gone[v] <= entries[t].age + RpcTicks
    BY <2>1, <2>2 DEF DeliveryInv, EntriesAged
  <2>. QED BY <2>1, <2>3, <2>4, Bounds
<1>2. CASE Receive(l)
  <2>1. v \in Parts(reply[l])
    <3>1. Return(l, "sent", reply[l], "reply") /\ "reply" \in Via
      BY <1>2 DEF Receive, Via
    <3>2. reply[l] \in Copy
      BY <1>0 DEF TypeOK
    <3>3. answer'[l] = [term |-> reply[l], via |-> "reply"]
      BY <1>0, <3>1, <3>2, ReturnEnds, ZenonT(30)
    <3>. QED BY <3>3
  <2>2. v \in Req /\ gone[v] \in Nat
    BY <1>0, <2>1, CopyParts, Bounds
  <2>3. gone[v] <= lag[l]
    BY <2>1 DEF DeliveryInv, RepliesRecent
  <2>. QED BY <1>0, <2>2, <2>3, Bounds
<1>3. CASE Fail(l)
  <2>1. PICK from \in {"called", "row", "sent"} : Return(l, from, cached[l], "fallback")
    BY <1>3 DEF Fail
  <2>2. answer'[l].via = "fallback"
    <3>1. "fallback" \in Via
      BY DEF Via
    <3>2. answer'[l] = [term |-> cached[l], via |-> "fallback"]
      BY <1>0, <2>1, <3>1, ReturnEnds, ZenonT(30)
    <3>. QED BY <3>2
  <2>. QED BY <2>2
<1>. QED BY <1>1, <1>2, <1>3, WhoReturns

\* No part of an answer was replaced longer ago than an RPC takes plus the TTL,
\* unless the RPC failed: for any TTL, any bound on the RPC, any number of lookups
\* that share the cache, and whatever becomes of the events that should evict
\* (StaleBounded; GrpcTermRepository.by_id, "correctness backstop" of ADR-0011).
THEOREM AnswersNeverStaler == Spec => StaleBounded
<1>1. DeliveryInv /\ [Next]_vars =>
        [\A l \in Lookup : (Returns(l) /\ answer'[l].via # "fallback") =>
           \A v \in Parts(answer'[l].term) : gone[v] < TTL + RpcTicks]_vars
  BY ReturnsInBound
<1>. QED BY <1>1, DeliveryInit, DeliveryStep, PTL DEF Spec, StaleBounded
=============================================================================
