----------------------- MODULE AnswerSubmissionProofs -----------------------
(***************************************************************************)
(* Proofs about AnswerSubmission, for every number of submissions, rounds, *)
(* keys, crashes and clock ticks and for every value of the game's         *)
(* constants.                                                              *)
(***************************************************************************)
EXTENDS AnswerSubmission, GameRoundProofs, FiniteSetTheorems, TLAPS

-----------------------------------------------------------------------------
(* What a submission records.                                              *)

\* What a submission records once it has graded.
LEMMA EntryType ==
  ASSUME TypeOK, NEW q \in Req, phase[q] = "recording"
  PROVE  /\ Entry(q) \in SubmittedAnswer
         /\ Base(q) \in Round
BY ImplicitType, SubmissionConstants
   DEF TypeOK, Entry, Base, SubmittedAnswer, GradeOutcome, Job, Phase, Active, Holding, Ended
-----------------------------------------------------------------------------
(* Types.                                                                  *)

\* Every reachable state is well typed: in particular a submission that is
\* past grading has an outcome in hand and one that is past record() a round.
THEOREM Typing == Spec => []TypeOK
<1> USE DEF Phase, Active, Holding, Ended
<1>1. Init => TypeOK
  BY SubmissionConstants DEF Init, TypeOK
<1>2. TypeOK /\ [Next]_vars => TypeOK'
  <2> SUFFICES ASSUME TypeOK, [Next]_vars PROVE TypeOK'
    OBVIOUS
  <2> USE SubmissionConstants DEF TypeOK, Move, Leave, shared, request, locals, history
  <2>1. CASE UNCHANGED vars
    BY <2>1 DEF vars
  <2>2. CASE Tick
    BY <2>2 DEF Tick
  <2>3. CASE Crash
    BY <2>3 DEF Crash
  <2>4. ASSUME NEW r \in RoundId, CreateGameRound(r) PROVE TypeOK'
    BY <2>4, StartType DEF CreateGameRound
  <2>5. ASSUME NEW q \in Req, NEW j \in Jobs, Submit(q, j) PROVE TypeOK'
    BY <2>5 DEF Submit
  <2>6. ASSUME NEW q \in Req, Abort(q) PROVE TypeOK'
    BY <2>6 DEF Abort
  <2>7. ASSUME NEW q \in Req, LoseResponse(q) PROVE TypeOK'
    BY <2>7 DEF LoseResponse
  <2>8. ASSUME NEW q \in Req, Advance(q) PROVE TypeOK'
    <3>1. CASE ReadRound(q)
      BY <3>1 DEF ReadRound, Job
    <3>2. CASE CacheHit(q)
      BY <3>2 DEF CacheHit, Job
    <3>3. CASE CacheMiss(q)
      BY <3>3 DEF CacheMiss
    <3>4. CASE TermNotFound(q)
      BY <3>4 DEF TermNotFound
    <3>5. CASE Grade(q)
      BY <3>5 DEF Grade, Job
    <3>6. CASE JudgeAnswers(q)
      BY <3>6 DEF JudgeAnswers
    <3>7. CASE JudgeFails(q)
      BY <3>7 DEF JudgeFails
    <3>8. CASE CachePut(q)
      BY <3>8 DEF CachePut, Job
    <3>9. CASE Publish(q)
      BY <3>9 DEF Publish
    <3>10. CASE Record(q)
      BY <3>10, EntryType, RecordType DEF Record
    <3>11. CASE RecordRefused(q)
      BY <3>11 DEF RecordRefused
    <3>12. CASE Save(q)
      BY <3>12 DEF Save
    <3>13. CASE EmitGraded(q)
      BY <3>13 DEF EmitGraded
    <3>14. CASE Commit(q)
      BY <3>14 DEF Commit, Job
    <3>15. CASE Respond(q)
      BY <3>15 DEF Respond
    <3>16. QED
      BY <2>8, <3>1, <3>2, <3>3, <3>4, <3>5, <3>6, <3>7, <3>8, <3>9, <3>10,
         <3>11, <3>12, <3>13, <3>14, <3>15 DEF Advance
  <2>9. QED
    BY <2>1, <2>2, <2>3, <2>4, <2>5, <2>6, <2>7, <2>8 DEF Next
<1>3. QED
  BY <1>1, <1>2, PTL DEF Spec
-----------------------------------------------------------------------------
(* Where rows come from.                                                   *)

\* Only a creation and a commit write a row.
LEMMA RowChange ==
  ASSUME [Next]_vars
  PROVE  \/ rounds' = rounds
         \/ \E r \in RoundId : CreateGameRound(r)
         \/ \E q \in Req : Commit(q)
BY DEF Next, Advance, vars, shared, Tick, Crash, Submit, ReadRound, CacheHit, CacheMiss,
       TermNotFound, Grade, JudgeAnswers, JudgeFails, CachePut, Publish, Record,
       RecordRefused, Save, EmitGraded, Respond, Abort, LoseResponse

\* A submission's round_ is what it read, then what it recorded, then gone.
LEMMA LocalChange ==
  ASSUME TypeOK, [Next]_vars, NEW q \in Req
  PROVE  \/ round_'[q] = round_[q]
         \/ round_'[q] = NoRound
         \/ ReadRound(q)
         \/ Record(q)
<1> SUFFICES ASSUME ~ReadRound(q), ~Record(q)
             PROVE  round_'[q] = round_[q] \/ round_'[q] = NoRound
  OBVIOUS
<1> USE DEF TypeOK, request, locals, Move, Leave
<1>1. CASE UNCHANGED vars \/ Tick \/ Crash \/ \E r \in RoundId : CreateGameRound(r)
  BY <1>1 DEF vars, Tick, Crash, CreateGameRound
<1>2. ASSUME NEW p \in Req, Abort(p) \/ LoseResponse(p) \/ \E j \in Jobs : Submit(p, j)
      PROVE  round_'[q] = round_[q] \/ round_'[q] = NoRound
  BY <1>2 DEF Abort, LoseResponse, Submit
<1>3. ASSUME NEW p \in Req, Advance(p)
      PROVE  round_'[q] = round_[q] \/ round_'[q] = NoRound
  <2>1. CASE ReadRound(p) \/ Record(p)
    BY <2>1 DEF ReadRound, Record
  <2>2. CASE ~(ReadRound(p) \/ Record(p))
    BY <1>3, <2>2
       DEF Advance, CacheHit, CacheMiss, TermNotFound, Grade, JudgeAnswers, JudgeFails,
           CachePut, Publish, RecordRefused, Save, EmitGraded, Commit, Respond
  <2>3. QED
    BY <2>1, <2>2
<1>4. QED
  BY <1>1, <1>2, <1>3 DEF Next

-----------------------------------------------------------------------------
(* Rounds stay within their mode's limits.                                 *)

\* The strengthening: not only the committed rows, every copy a submission
\* holds is legal.  A stale copy is as good as a fresh one here, because the
\* upsert replaces the whole row.
LegalRow(rd) == rd # NoRound => LegalRound(rd)

CopiesLegal ==
  /\ \A r \in RoundId : LegalRow(rounds[r])
  /\ \A q \in Req : LegalRow(round_[q])

LEMMA CopiesAlwaysLegal == Spec => []CopiesLegal
<1>1. Init => CopiesLegal
  BY DEF Init, CopiesLegal, LegalRow
<1>2. TypeOK /\ CopiesLegal /\ [Next]_vars => CopiesLegal'
  <2> SUFFICES ASSUME TypeOK, CopiesLegal, [Next]_vars PROVE CopiesLegal'
    OBVIOUS
  <2>1. ASSUME NEW r \in RoundId PROVE LegalRow(rounds'[r])
    <3>1. CASE rounds' = rounds
      BY <3>1 DEF CopiesLegal
    <3>2. ASSUME NEW s \in RoundId, CreateGameRound(s) PROVE LegalRow(rounds'[r])
      BY <3>2, StartType, EmptyLegal DEF CreateGameRound, CopiesLegal, LegalRow, TypeOK
    <3>3. ASSUME NEW q \in Req, Commit(q) PROVE LegalRow(rounds'[r])
      BY <3>3 DEF Commit, CopiesLegal, TypeOK
    <3>4. QED
      BY <3>1, <3>2, <3>3, RowChange
  <2>2. ASSUME NEW q \in Req PROVE LegalRow(round_'[q])
    <3>1. CASE round_'[q] = round_[q] \/ round_'[q] = NoRound
      BY <3>1 DEF CopiesLegal, LegalRow
    <3>2. CASE ReadRound(q)
      <4>1. job[q].round \in RoundId
        BY <3>2, SubmissionConstants DEF ReadRound, Move, TypeOK, Job
      <4>2. QED
        BY <3>2, <4>1 DEF ReadRound, CopiesLegal, LegalRow, TypeOK
    <3>3. CASE Record(q)
      <4>1. /\ Entry(q) \in SubmittedAnswer /\ Entry(q).submitted_at = clock
            /\ Base(q) \in Round /\ clock \in Nat
        BY <3>3, EntryType DEF Record, Move, Entry, TypeOK
      <4>2. LegalRound(Base(q))
        <5>1. job[q].round \in RoundId
          BY <3>3, SubmissionConstants DEF Record, Move, TypeOK, Job
        <5>2. QED
          BY <5>1, ImplicitType, EmptyLegal DEF Base, CopiesLegal, LegalRow
      <4>3. LegalRound(record(Base(q), Entry(q)))
        BY <3>3, <4>1, <4>2, RecordLegal DEF Record
      <4>4. QED
        BY <3>3, <4>3 DEF Record, LegalRow, TypeOK
    <3>4. QED
      BY <3>1, <3>2, <3>3, LocalChange
  <2>3. QED
    BY <2>1, <2>2 DEF CopiesLegal
<1>3. QED
  BY <1>1, <1>2, Typing, PTL DEF Spec

\* No interleaving of submissions, crashes and rollbacks commits a round with
\* more answers, more lost lives or later answers than its mode allows.
THEOREM RoundsAlwaysLegal == Spec => []RoundsLegal
<1>1. CopiesLegal => RoundsLegal
  BY DEF CopiesLegal, LegalRow, RoundsLegal
<1>2. QED
  BY <1>1, CopiesAlwaysLegal, PTL
-----------------------------------------------------------------------------
(* Answers are lost to rivals only.                                        *)

\* The strengthening speaks of the snapshots: whoever still holds a copy of a
\* round either has a committed answer in that copy or was a rival when the
\* answer was committed, unless a rival has already overwritten it.
Settled == {"committed", "done", "unanswered"}

Holds(p, q) == round_[p] # NoRound /\ Records(round_[p], q)

KeptInv ==
  /\ \A q \in committed : phase[q] \in Settled
  /\ \A q \in Req : phase[q] = "committed" => q \in committed
  /\ \A q \in shown : ~job[q].stream => q \in committed
  /\ \A q \in shown : phase[q] # "idle"
  /\ \A p \in Req : phase[p] \in {"saving", "saved"} => Holds(p, p)
  /\ \A q \in committed : Recorded(q) \/ Overwritten(q)
  /\ \A p \in Req, q \in committed :
       phase[p] \in Holding /\ job[p].round = job[q].round =>
         Holds(p, q) \/ p \in rivals[q] \/ Overwritten(q)

\* record() keeps every entry of the log it extends and adds the new one.
LEMMA RecordRecords ==
  ASSUME NEW rd \in Round, NEW a \in SubmittedAnswer
  PROVE  /\ Records(record(rd, a), a.by)
         /\ \A q : Records(rd, q) => Records(record(rd, a), q)
<1> DEFINE new == record(rd, a)
<1>1. /\ rd.answers \in Seq(SubmittedAnswer)
      /\ new.answers = Append(rd.answers, a)
  BY RecordType DEF Round
<1>2. /\ Len(rd.answers) + 1 \in DOMAIN new.answers
      /\ new.answers[Len(rd.answers) + 1] = a
      /\ \A i \in DOMAIN rd.answers :
           i \in DOMAIN new.answers /\ new.answers[i] = rd.answers[i]
  BY <1>1
<1>3. QED
  BY <1>2 DEF Records

\* What a step that neither reads, records, commits nor opens anything leaves
\* alone: rows, history and every copy still held.
Undisturbed ==
  /\ UNCHANGED <<rounds, job, committed, rivals>>
  /\ \A q \in shown' : q \in shown \/ (phase[q] # "idle" /\ (job[q].stream \/ q \in committed))
  /\ \A p \in Req :
       /\ phase[p] # "idle" => phase'[p] # "idle"
       /\ phase[p] \in Settled => phase'[p] \in Settled
       /\ phase'[p] = "committed" => phase[p] = "committed"
       /\ phase'[p] \in Holding => phase[p] \in Holding /\ round_'[p] = round_[p]
       /\ phase'[p] \in {"saving", "saved"} => phase[p] \in {"saving", "saved"}

LEMMA UndisturbedKept ==
  ASSUME TypeOK, TypeOK', KeptInv, Undisturbed
  PROVE  KeptInv'
<1> USE DEF Undisturbed, Settled
<1>1. \A q \in committed : q \in Req
  BY DEF TypeOK
<1>2. \A q \in committed' : phase'[q] \in Settled
  BY <1>1 DEF KeptInv
<1>3. \A q \in Req : phase'[q] = "committed" => q \in committed'
  BY DEF KeptInv
<1>4. \A q \in shown' : ~job'[q].stream => q \in committed'
  BY DEF KeptInv
<1>5. \A q \in shown' : phase'[q] # "idle"
  BY DEF KeptInv, TypeOK
<1>6. \A p \in Req : phase'[p] \in {"saving", "saved"} => Holds(p, p)'
  BY DEF KeptInv, Holds, Records, Holding
<1>7. \A q \in committed' : (Recorded(q) \/ Overwritten(q))'
  BY DEF KeptInv, Recorded, Records, Overwritten
<1>8. ASSUME NEW p \in Req, NEW q \in committed', phase'[p] \in Holding,
             job'[p].round = job'[q].round
      PROVE  Holds(p, q)' \/ p \in rivals'[q] \/ Overwritten(q)'
  BY <1>8 DEF KeptInv, Holds, Records, Overwritten
<1>9. QED
  BY <1>2, <1>3, <1>4, <1>5, <1>6, <1>7, <1>8 DEF KeptInv

\* Most steps are such.
LEMMA UndisturbedSteps ==
  ASSUME TypeOK, KeptInv, NEW q \in Req,
         \/ CacheHit(q) \/ CacheMiss(q) \/ TermNotFound(q) \/ Grade(q)
         \/ JudgeAnswers(q) \/ JudgeFails(q) \/ CachePut(q) \/ Publish(q)
         \/ RecordRefused(q) \/ Save(q) \/ EmitGraded(q) \/ Respond(q)
         \/ Abort(q) \/ LoseResponse(q)
  PROVE  Undisturbed
<1> USE DEF Move, Leave, request, locals, history, shared
<1>1. UNCHANGED <<rounds, job, committed, rivals>>
  BY DEF CacheHit, CacheMiss, TermNotFound, Grade, JudgeAnswers, JudgeFails, CachePut,
         Publish, RecordRefused, Save, EmitGraded, Respond, Abort, LoseResponse
<1>2. \A p \in shown' : p \in shown \/ (phase[p] # "idle" /\ (job[p].stream \/ p \in committed))
  <2>1. shown' = shown \/ EmitGraded(q) \/ Respond(q)
    BY DEF CacheHit, CacheMiss, TermNotFound, Grade, JudgeAnswers, JudgeFails, CachePut,
           Publish, RecordRefused, Save, Abort, LoseResponse
  <2>2. QED
    BY <2>1 DEF EmitGraded, Respond, KeptInv
<1>3. /\ phase \in [Req -> Phase]
      /\ round_ \in [Req -> Round \cup {NoRound}]
  BY DEF TypeOK
<1>4. ASSUME NEW p \in Req
      PROVE  /\ phase[p] # "idle" => phase'[p] # "idle"
             /\ phase[p] \in Settled => phase'[p] \in Settled
             /\ phase'[p] = "committed" => phase[p] = "committed"
             /\ phase'[p] \in Holding => phase[p] \in Holding
             /\ phase'[p] \in {"saving", "saved"} => phase[p] \in {"saving", "saved"}
  BY <1>3 DEF CacheHit, CacheMiss, TermNotFound, Grade, JudgeAnswers, JudgeFails,
              CachePut, Publish, RecordRefused, Save, EmitGraded, Respond, Abort,
              LoseResponse, Settled, Holding, Active
<1>5. ASSUME NEW p \in Req, phase'[p] \in Holding
      PROVE  round_'[p] = round_[p]
  BY <1>3, <1>5 DEF CacheHit, CacheMiss, TermNotFound, Grade, JudgeAnswers, JudgeFails,
              CachePut, Publish, RecordRefused, Save, EmitGraded, Respond, Abort,
              LoseResponse, Holding, Active
<1>6. QED
  BY <1>1, <1>2, <1>4, <1>5 DEF Undisturbed

\* A copy that is read has every committed answer, or a rival's overwriting.
LEMMA ReadKept ==
  ASSUME TypeOK, KeptInv, NEW q \in Req, ReadRound(q)
  PROVE  KeptInv'
<1>1. /\ phase[q] = "opened" /\ phase'[q] = "read"
      /\ round_'[q] = rounds[job[q].round]
      /\ UNCHANGED <<rounds, job, shown, committed, rivals>>
      /\ \A p \in Req : p # q => phase'[p] = phase[p] /\ round_'[p] = round_[p]
  BY DEF ReadRound, Move, shared, history, TypeOK
<1>2. q \notin committed /\ \A o \in committed \cup shown : o \in Req
  BY <1>1 DEF KeptInv, Settled, TypeOK
<1>3. \A o \in committed : (Recorded(o) \/ Overwritten(o))'
  BY <1>1 DEF KeptInv, Recorded, Records, Overwritten
<1>4. \A p \in Req, o \in Req : p # q => (Holds(p, o)' <=> Holds(p, o))
  BY <1>1 DEF Holds, Records
<1>5. ASSUME NEW p \in Req, NEW o \in committed, phase'[p] \in Holding,
             job'[p].round = job'[o].round
      PROVE  Holds(p, o)' \/ p \in rivals'[o] \/ Overwritten(o)'
  <2>1. CASE p = q
    <3>1. Recorded(o)' \/ Overwritten(o)'
      BY <1>3
    <3>2. Recorded(o)' => Holds(p, o)'
      BY <1>1, <1>5, <2>1 DEF Recorded, Holds, Records
    <3>3. QED
      BY <3>1, <3>2
  <2>2. CASE p # q
    BY <1>1, <1>2, <1>4, <1>5, <2>2 DEF KeptInv, Overwritten
  <2>3. QED
    BY <2>1, <2>2
<1>6. \A p \in Req : phase'[p] \in {"saving", "saved"} => Holds(p, p)'
  BY <1>1, <1>4 DEF KeptInv
<1>7. /\ \A o \in committed' : phase'[o] \in Settled
      /\ \A o \in Req : phase'[o] = "committed" => o \in committed'
      /\ \A o \in shown' : ~job'[o].stream => o \in committed'
      /\ \A o \in shown' : phase'[o] # "idle"
  BY <1>1, <1>2 DEF KeptInv
<1>8. QED
  BY <1>1, <1>3, <1>5, <1>6, <1>7 DEF KeptInv

\* record() extends the copy, or what a second read found, or nothing at all.
LEMMA RecordKept ==
  ASSUME TypeOK, KeptInv, NEW q \in Req, Record(q)
  PROVE  KeptInv'
<1>1. /\ phase[q] = "recording" /\ phase'[q] = "saving"
      /\ round_'[q] = record(Base(q), Entry(q))
      /\ UNCHANGED <<rounds, job, shown, committed, rivals>>
      /\ \A p \in Req : p # q => phase'[p] = phase[p] /\ round_'[p] = round_[p]
  BY DEF Record, Move, shared, history, TypeOK
<1>2. q \notin committed /\ \A o \in committed \cup shown : o \in Req
  BY <1>1 DEF KeptInv, Settled, TypeOK
<1>3. \A o \in committed : (Recorded(o) \/ Overwritten(o))'
  BY <1>1 DEF KeptInv, Recorded, Records, Overwritten
<1>4. \A p \in Req, o \in Req : p # q => (Holds(p, o)' <=> Holds(p, o))
  BY <1>1 DEF Holds, Records
<1>5. /\ Entry(q) \in SubmittedAnswer /\ Base(q) \in Round
      /\ Entry(q).by = q
  BY <1>1, EntryType DEF Entry
<1>6. /\ round_'[q] # NoRound
      /\ Records(round_'[q], q)
      /\ \A o : Records(Base(q), o) => Records(round_'[q], o)
  <2>1. round_'[q] \in Round
    BY <1>1, <1>5, RecordType
  <2>2. QED
    BY <1>1, <1>5, <2>1, RecordRecords, SubmissionConstants
<1>7. ASSUME NEW p \in Req, NEW o \in committed, phase'[p] \in Holding,
             job'[p].round = job'[o].round
      PROVE  Holds(p, o)' \/ p \in rivals'[o] \/ Overwritten(o)'
  <2>1. CASE p = q
    <3>1. CASE round_[q] # NoRound
      <4>1. Holds(q, o) \/ q \in rivals[o] \/ Overwritten(o)
        BY <1>1, <1>7, <2>1 DEF KeptInv, Holding
      <4>2. Holds(q, o) => Holds(q, o)'
        BY <1>6, <3>1 DEF Holds, Base, Records
      <4>3. QED
        BY <1>1, <2>1, <4>1, <4>2 DEF Overwritten
    <3>2. CASE round_[q] = NoRound
      <4>1. Recorded(o) \/ Overwritten(o)
        BY DEF KeptInv
      <4>2. Recorded(o) => Records(Base(q), o)
        BY <1>1, <1>7, <2>1, <3>2 DEF Recorded, Base
      <4>3. Records(Base(q), o) => Holds(q, o)'
        BY <1>6 DEF Holds, Records
      <4>4. QED
        BY <1>1, <2>1, <4>1, <4>2, <4>3 DEF Overwritten
    <3>3. QED
      BY <3>1, <3>2
  <2>2. CASE p # q
    BY <1>1, <1>2, <1>4, <1>7, <2>2 DEF KeptInv, Overwritten
  <2>3. QED
    BY <2>1, <2>2
<1>8. \A p \in Req : phase'[p] \in {"saving", "saved"} => Holds(p, p)'
  <2>1. Holds(q, q)'
    BY <1>6 DEF Holds, Records
  <2>2. QED
    BY <1>1, <1>4, <2>1 DEF KeptInv
<1>9. /\ \A o \in committed' : phase'[o] \in Settled
      /\ \A o \in Req : phase'[o] = "committed" => o \in committed'
      /\ \A o \in shown' : ~job'[o].stream => o \in committed'
      /\ \A o \in shown' : phase'[o] # "idle"
  BY <1>1, <1>2 DEF KeptInv
<1>10. QED
  BY <1>1, <1>3, <1>7, <1>8, <1>9 DEF KeptInv

\* The row written is the copy of the committer: what is not in it was lost to
\* the committer, its rival, and whoever else still holds a copy is a rival.
LEMMA CommitKept ==
  ASSUME TypeOK, KeptInv, NEW q \in Req, Commit(q)
  PROVE  KeptInv'
<1>1. /\ phase[q] = "saved" /\ phase'[q] = "committed"
      /\ committed' = committed \cup {q}
      /\ UNCHANGED <<job, shown>>
      /\ \A p \in Req : p # q => /\ phase'[p] = phase[p] /\ round_'[p] = round_[p]
                                /\ rivals'[p] = rivals[p]
      /\ rivals'[q] = {p \in Req \ {q} : phase[p] \in Holding /\ job[p].round = job[q].round}
  BY DEF Commit, Leave, Move, history, TypeOK
<1>2. /\ job[q] \in Job /\ job[q].round \in RoundId
      /\ rounds' = [rounds EXCEPT ![job[q].round] = round_[q]]
  BY <1>1, SubmissionConstants DEF Commit, TypeOK, Job
<1>3. q \notin committed /\ \A o \in committed \cup shown : o \in Req
  BY <1>1 DEF KeptInv, Settled, TypeOK
<1>4. \A o \in committed : Overwritten(o) => Overwritten(o)'
  BY <1>1, <1>3 DEF Overwritten
<1>5. \A p \in Req, o \in Req : p # q => (Holds(p, o)' <=> Holds(p, o))
  BY <1>1 DEF Holds, Records
<1>6. Recorded(q)'
  <2>1. Holds(q, q)
    BY <1>1 DEF KeptInv
  <2>2. rounds'[job'[q].round] = round_[q]
    BY <1>1, <1>2 DEF TypeOK
  <2>3. QED
    BY <2>1, <2>2 DEF Holds, Recorded, Records
<1>7. ASSUME NEW o \in committed PROVE (Recorded(o) \/ Overwritten(o))'
  <2>1. o \in Req /\ o # q
    BY <1>3
  <2>2. job[o] \in Job /\ job[o].round \in RoundId
    BY <2>1, SubmissionConstants DEF KeptInv, Settled, TypeOK, Job
  <2>3. CASE job[o].round # job[q].round
    <3>1. rounds'[job'[o].round] = rounds[job[o].round]
      BY <1>1, <1>2, <2>2, <2>3 DEF TypeOK
    <3>2. Recorded(o) => Recorded(o)'
      BY <3>1 DEF Recorded, Records
    <3>3. QED
      BY <1>4, <3>2 DEF KeptInv
  <2>4. CASE job[o].round = job[q].round
    <3>1. Holds(q, o) \/ q \in rivals[o] \/ Overwritten(o)
      BY <1>1, <2>4 DEF KeptInv, Holding
    <3>2. rounds'[job'[o].round] = round_[q]
      BY <1>1, <1>2, <2>4 DEF TypeOK
    <3>3. Holds(q, o) => Recorded(o)'
      BY <3>2 DEF Holds, Recorded, Records
    <3>4. q \in rivals[o] => Overwritten(o)'
      BY <1>1, <2>1 DEF Overwritten
    <3>5. QED
      BY <1>4, <3>1, <3>3, <3>4
  <2>5. QED
    BY <2>3, <2>4
<1>8. ASSUME NEW p \in Req, NEW o \in committed', phase'[p] \in Holding,
             job'[p].round = job'[o].round
      PROVE  Holds(p, o)' \/ p \in rivals'[o] \/ Overwritten(o)'
  <2>1. p # q
    BY <1>1, <1>8 DEF Holding
  <2>2. CASE o = q
    BY <1>1, <1>8, <2>1, <2>2
  <2>3. CASE o # q
    <3>1. o \in committed /\ o \in Req
      BY <1>1, <1>3, <2>3
    <3>2. Holds(p, o) \/ p \in rivals[o] \/ Overwritten(o)
      BY <1>1, <1>8, <2>1, <3>1 DEF KeptInv
    <3>3. QED
      BY <1>1, <1>4, <1>5, <2>1, <2>3, <3>1, <3>2
  <2>4. QED
    BY <2>2, <2>3
<1>9. \A p \in Req : phase'[p] \in {"saving", "saved"} => Holds(p, p)'
  BY <1>1, <1>5 DEF KeptInv
<1>10. /\ \A o \in committed' : phase'[o] \in Settled
       /\ \A o \in Req : phase'[o] = "committed" => o \in committed'
       /\ \A o \in shown' : ~job'[o].stream => o \in committed'
       /\ \A o \in shown' : phase'[o] # "idle"
  BY <1>1, <1>3 DEF KeptInv, Settled
<1>11. QED
  BY <1>1, <1>6, <1>7, <1>8, <1>9, <1>10 DEF KeptInv

\* A submission that was told its answer counts finds it in its round for
\* good, unless one that overlapped it wrote the row after it.
THEOREM AnswersAreKept == Spec => []AnswersKept
<1>1. Init => KeptInv
  BY DEF Init, KeptInv, Holding
<1>2. TypeOK /\ TypeOK' /\ KeptInv /\ [Next]_vars => KeptInv'
  <2> SUFFICES ASSUME TypeOK, TypeOK', KeptInv, [Next]_vars PROVE KeptInv'
    OBVIOUS
  <2> USE DEF Move, Leave, shared, request, locals, history
  <2>1. CASE UNCHANGED vars \/ Tick
    <3>1. UNCHANGED <<rounds, job, committed, rivals, shown, phase, round_>>
      BY <2>1 DEF vars, Tick
    <3>2. Undisturbed
      BY <3>1 DEF Undisturbed
    <3>3. QED
      BY <3>2, UndisturbedKept
  <2>2. CASE Crash
    <3>1. UNCHANGED <<rounds, job, committed, rivals, shown>>
      BY <2>2 DEF Crash
    <3>2. ASSUME NEW p \in Req
          PROVE  /\ phase[p] # "idle" => phase'[p] # "idle"
                 /\ phase[p] \in Settled => phase'[p] \in Settled
                 /\ phase'[p] # "committed" /\ phase'[p] \notin Active
      BY <2>2 DEF Crash, Settled, Active, Holding
    <3>3. Undisturbed
      BY <3>1, <3>2 DEF Undisturbed, Active, Holding
    <3>4. QED
      BY <3>3, UndisturbedKept
  <2>3. ASSUME NEW r \in RoundId, CreateGameRound(r) PROVE KeptInv'
    <3>1. /\ UNCHANGED <<phase, job, round_, shown, committed, rivals>>
          /\ \A s \in RoundId : s # r => rounds'[s] = rounds[s]
      BY <2>3 DEF CreateGameRound, TypeOK
    <3>2. \A q \in committed : q \in Req /\ phase[q] \in Settled
      BY DEF KeptInv, TypeOK
    <3>3. \A q \in committed : job[q] \in Job /\ job[q].round # r
      BY <2>3, <3>2, SubmissionConstants DEF CreateGameRound, TypeOK, Settled
    <3>4. ASSUME NEW q \in committed PROVE (Recorded(q) \/ Overwritten(q))'
      <4>1. rounds'[job[q].round] = rounds[job[q].round]
        BY <3>1, <3>3 DEF Job
      <4>2. QED
        BY <3>1, <4>1 DEF KeptInv, Recorded, Records, Overwritten
    <3>5. \A p \in Req, q \in Req : Holds(p, q)' <=> Holds(p, q)
      BY <3>1 DEF Holds, Records
    <3>6. QED
      BY <3>1, <3>2, <3>4, <3>5 DEF KeptInv, Overwritten
  <2>4. ASSUME NEW q \in Req, NEW j \in Jobs, Submit(q, j) PROVE KeptInv'
    <3>1. /\ phase[q] = "idle"
          /\ UNCHANGED <<rounds, round_, shown, committed, rivals>>
          /\ phase'[q] = "opened"
          /\ \A p \in Req : p # q => phase'[p] = phase[p] /\ job'[p] = job[p]
      BY <2>4 DEF Submit, TypeOK
    <3>2. q \notin committed /\ q \notin shown
      BY <3>1 DEF KeptInv, Settled
    <3>3. \A p \in committed \cup shown : p \in Req /\ p # q
      BY <3>2 DEF TypeOK
    <3>4. \A p \in committed : (Recorded(p) \/ Overwritten(p))'
      BY <3>1, <3>3 DEF KeptInv, Recorded, Records, Overwritten
    <3>5. \A p \in Req, o \in Req : Holds(p, o)' <=> Holds(p, o)
      BY <3>1 DEF Holds, Records
    <3>6. ASSUME NEW p \in Req, NEW o \in committed, phase'[p] \in Holding,
                 job'[p].round = job'[o].round
          PROVE  Holds(p, o)' \/ p \in rivals'[o] \/ Overwritten(o)'
      <4>1. p # q /\ o # q /\ o \in Req
        BY <3>1, <3>3, <3>6 DEF Holding
      <4>2. QED
        BY <3>1, <3>5, <3>6, <4>1 DEF KeptInv, Overwritten
    <3>7. \A p \in Req : phase'[p] \in {"saving", "saved"} => Holds(p, p)'
      BY <3>1, <3>5 DEF KeptInv
    <3>8. QED
      BY <3>1, <3>3, <3>4, <3>6, <3>7 DEF KeptInv, Settled
  <2>5. ASSUME NEW q \in Req, Abort(q) \/ LoseResponse(q) PROVE KeptInv'
    BY <2>5, UndisturbedSteps, UndisturbedKept
  <2>6. ASSUME NEW q \in Req, Advance(q) PROVE KeptInv'
    <3>1. CASE ReadRound(q)
      BY <3>1, ReadKept
    <3>2. CASE Record(q)
      BY <3>2, RecordKept
    <3>3. CASE Commit(q)
      BY <3>3, CommitKept
    <3>4. CASE ~(ReadRound(q) \/ Record(q) \/ Commit(q))
      BY <2>6, <3>4, UndisturbedSteps, UndisturbedKept DEF Advance
    <3>5. QED
      BY <3>1, <3>2, <3>3, <3>4
  <2>7. QED
    BY <2>1, <2>2, <2>3, <2>4, <2>5, <2>6 DEF Next
<1>3. KeptInv => AnswersKept
  BY DEF KeptInv, AnswersKept
<1>4. QED
  BY <1>1, <1>2, <1>3, Typing, PTL DEF Spec

-----------------------------------------------------------------------------
(* Events account for grades.                                              *)

\* The strengthening follows a grade through the phases: nobody is marked as
\* having graded before it has, only who has graded passes through persist(),
\* and who is past it was either answered from the cache or announced.
Ungraded == {"idle", "opened", "read", "grading"}

EventInv ==
  /\ \A q \in Req : phase[q] \in Ungraded => ~fresh[q]
  /\ \A q \in Req : phase[q] \in {"judging", "persisting", "publishing"} => fresh[q]
  /\ \A q \in published : fresh[q]
  /\ \A q \in Req :
       phase[q] \in {"recording", "saving", "saved"} \cup Settled
         /\ fresh[q] /\ ~BrokerMayFail => q \in published
  /\ \A q \in committed : phase[q] \in Settled

LEMMA EventInvAlways == Spec => []EventInv
<1> USE DEF Phase, Active, Holding, Ended, Ungraded, Settled
<1>1. Init => EventInv
  BY DEF Init, EventInv
<1>2. TypeOK /\ EventInv /\ [Next]_vars => EventInv'
  <2> SUFFICES ASSUME TypeOK, EventInv, [Next]_vars PROVE EventInv'
    OBVIOUS
  <2> USE DEF EventInv, TypeOK, Move, Leave, shared, request, locals, history
  <2>1. CASE UNCHANGED vars
    BY <2>1 DEF vars
  <2>2. CASE Tick
    BY <2>2 DEF Tick
  <2>3. CASE Crash
    BY <2>3 DEF Crash
  <2>4. ASSUME NEW r \in RoundId, CreateGameRound(r) PROVE EventInv'
    BY <2>4 DEF CreateGameRound
  <2>5. ASSUME NEW q \in Req, NEW j \in Jobs, Submit(q, j) PROVE EventInv'
    BY <2>5 DEF Submit
  <2>6. ASSUME NEW q \in Req, Abort(q) PROVE EventInv'
    BY <2>6 DEF Abort
  <2>7. ASSUME NEW q \in Req, LoseResponse(q) PROVE EventInv'
    BY <2>7 DEF LoseResponse
  <2>8. ASSUME NEW q \in Req, Advance(q) PROVE EventInv'
    <3>1. CASE ReadRound(q)
      BY <3>1 DEF ReadRound
    <3>2. CASE CacheHit(q)
      BY <3>2 DEF CacheHit
    <3>3. CASE CacheMiss(q)
      BY <3>3 DEF CacheMiss
    <3>4. CASE TermNotFound(q)
      BY <3>4 DEF TermNotFound
    <3>5. CASE Grade(q)
      BY <3>5 DEF Grade
    <3>6. CASE JudgeAnswers(q)
      BY <3>6 DEF JudgeAnswers
    <3>7. CASE JudgeFails(q)
      BY <3>7 DEF JudgeFails
    <3>8. CASE CachePut(q)
      BY <3>8 DEF CachePut
    <3>9. CASE Publish(q)
      BY <3>9 DEF Publish
    <3>10. CASE Record(q)
      BY <3>10 DEF Record
    <3>11. CASE RecordRefused(q)
      BY <3>11 DEF RecordRefused
    <3>12. CASE Save(q)
      BY <3>12 DEF Save
    <3>13. CASE EmitGraded(q)
      BY <3>13 DEF EmitGraded
    <3>14. CASE Commit(q)
      BY <3>14 DEF Commit
    <3>15. CASE Respond(q)
      BY <3>15 DEF Respond
    <3>16. QED
      BY <2>8, <3>1, <3>2, <3>3, <3>4, <3>5, <3>6, <3>7, <3>8, <3>9, <3>10,
         <3>11, <3>12, <3>13, <3>14, <3>15 DEF Advance
  <2>9. QED
    BY <2>1, <2>2, <2>3, <2>4, <2>5, <2>6, <2>7, <2>8 DEF Next
<1>3. QED
  BY <1>1, <1>2, Typing, PTL DEF Spec

\* No event without a grade of one's own, and none missing while the broker
\* works: whatever fails, crashes or is served from the cache on the way.
THEOREM EventsAccount == Spec => []EventsAccountForGrades
<1>1. TypeOK /\ EventInv => EventsAccountForGrades
  BY DEF EventInv, TypeOK, EventsAccountForGrades
<1>2. QED
  BY <1>1, EventInvAlways, Typing, PTL

-----------------------------------------------------------------------------
(* What round it is never changes.                                         *)

\* The strengthening: every copy of a round that is held has the terms of the
\* row, where no row counts as the Classic round that record() makes up.  So
\* two submissions to an id nobody created make up the same round, and none
\* of them holds a made-up one when a round is created under that id.
TermsOf(rd) == IF rd = NoRound THEN Terms(ImplicitRound) ELSE Terms(rd)

SameTerms ==
  \A q \in Req : phase[q] \in Holding => TermsOf(round_[q]) = TermsOf(rounds[job[q].round])

\* A step that holds no more copies than before, and changes no row.
LEMMA SameTermsKept ==
  ASSUME TypeOK, SameTerms, UNCHANGED <<rounds, job>>,
         \A q \in Req : phase'[q] \in Holding => phase[q] \in Holding /\ round_'[q] = round_[q]
  PROVE  SameTerms'
BY DEF SameTerms, TermsOf, Terms

LEMMA SameTermsInductive == TypeOK /\ TypeOK' /\ SameTerms /\ [Next]_vars => SameTerms'
<1> SUFFICES ASSUME TypeOK, TypeOK', SameTerms, [Next]_vars PROVE SameTerms'
  OBVIOUS
<1> USE DEF Move, Leave, shared, request, locals, history
<1>1. CASE UNCHANGED vars \/ Tick
  <2>1. UNCHANGED <<rounds, job, phase, round_>>
    BY <1>1 DEF vars, Tick
  <2>2. QED
    BY <2>1, SameTermsKept
<1>2. CASE Crash
  <2>1. UNCHANGED <<rounds, job>> /\ \A q \in Req : phase'[q] \notin Holding
    BY <1>2 DEF Crash, Active, Holding
  <2>2. QED
    BY <2>1, SameTermsKept
<1>3. ASSUME NEW r \in RoundId, CreateGameRound(r) PROVE SameTerms'
  <2>1. /\ UNCHANGED <<phase, job, round_>>
        /\ \A s : s # r => rounds'[s] = rounds[s]
        /\ \A q \in Req : phase[q] \in Holding => job[q].round # r
    BY <1>3 DEF CreateGameRound, TypeOK, Holding
  <2>2. QED
    BY <2>1 DEF SameTerms, TermsOf, Terms
<1>4. ASSUME NEW q \in Req, NEW j \in Jobs, Submit(q, j) PROVE SameTerms'
  <2>1. /\ UNCHANGED <<rounds, round_>> /\ phase'[q] \notin Holding
        /\ \A p \in Req : p # q => phase'[p] = phase[p] /\ job'[p] = job[p]
    BY <1>4 DEF Submit, TypeOK, Holding
  <2>2. QED
    BY <2>1 DEF SameTerms, TermsOf, Terms
<1>5. ASSUME NEW q \in Req, Advance(q) \/ Abort(q) \/ LoseResponse(q) PROVE SameTerms'
  <2>1. CASE ReadRound(q)
    <3>1. /\ UNCHANGED <<rounds, job>> /\ round_'[q] = rounds[job[q].round]
          /\ \A p \in Req : p # q => phase'[p] = phase[p] /\ round_'[p] = round_[p]
      BY <2>1 DEF ReadRound, TypeOK
    <3>2. QED
      BY <3>1 DEF SameTerms, TermsOf, Terms
  <2>2. CASE Record(q)
    <3>1. /\ UNCHANGED <<rounds, job>> /\ round_'[q] = record(Base(q), Entry(q))
          /\ phase[q] \in Holding
          /\ \A p \in Req : p # q => phase'[p] = phase[p] /\ round_'[p] = round_[p]
      BY <2>2 DEF Record, TypeOK, Holding
    <3>2. Terms(round_'[q]) = Terms(Base(q)) /\ round_'[q] \in Round
      BY <2>2, <3>1, EntryType, RecordType DEF Record, Terms
    <3>3. Terms(Base(q)) = TermsOf(rounds[job[q].round])
      BY <3>1 DEF SameTerms, TermsOf, Base
    <3>4. round_'[q] # NoRound
      BY <3>2, SubmissionConstants
    <3>5. TermsOf(round_'[q]) = TermsOf(rounds[job[q].round])
      BY <3>2, <3>3, <3>4 DEF TermsOf
    <3>6. ASSUME NEW p \in Req, phase'[p] \in Holding
          PROVE  TermsOf(round_'[p]) = TermsOf(rounds[job[p].round])
      <4>1. CASE p = q
        BY <3>5, <4>1
      <4>2. CASE p # q
        BY <3>1, <3>6, <4>2 DEF SameTerms
      <4>3. QED
        BY <4>1, <4>2
    <3>7. QED
      BY <3>1, <3>6 DEF SameTerms, TermsOf, Terms
  <2>3. CASE Commit(q)
    <3>1. /\ phase[q] = "saved" /\ phase'[q] = "committed" /\ job' = job
          /\ rounds' = [rounds EXCEPT ![job[q].round] = round_[q]]
          /\ \A p \in Req : p # q => phase'[p] = phase[p] /\ round_'[p] = round_[p]
      BY <2>3 DEF Commit, TypeOK
    <3>2. /\ job[q].round \in RoundId /\ rounds \in [RoundId -> Round \cup {NoRound}]
      BY <3>1, SubmissionConstants DEF TypeOK, Job
    <3>3. TermsOf(round_[q]) = TermsOf(rounds[job[q].round])
      BY <3>1 DEF SameTerms, Holding
    <3>4. \A r : TermsOf(rounds'[r]) = TermsOf(rounds[r])
      <4>1. \A r : IF r = job[q].round THEN rounds'[r] = round_[q] ELSE rounds'[r] = rounds[r]
        BY <3>1, <3>2
      <4>2. QED
        BY <3>3, <4>1 DEF TermsOf, Terms
    <3>5. ASSUME NEW p \in Req, phase'[p] \in Holding
          PROVE  TermsOf(round_'[p]) = TermsOf(rounds'[job'[p].round])
      <4>1. p # q
        BY <3>1, <3>5 DEF Holding
      <4>2. TermsOf(round_'[p]) = TermsOf(rounds[job[p].round])
        BY <3>1, <3>5, <4>1 DEF SameTerms, TermsOf, Terms
      <4>3. QED
        BY <3>1, <3>4, <4>2
    <3>6. QED
      BY <3>5 DEF SameTerms, TermsOf, Terms
  <2>4. CASE ~(ReadRound(q) \/ Record(q) \/ Commit(q))
    <3> USE DEF CacheHit, CacheMiss, TermNotFound, Grade, JudgeAnswers, JudgeFails,
                CachePut, Publish, RecordRefused, Save, EmitGraded, Respond, Abort,
                LoseResponse
    <3>1. UNCHANGED <<rounds, job>>
      BY <1>5, <2>4 DEF Advance
    <3>2. ASSUME NEW p \in Req, phase'[p] \in Holding
          PROVE  phase[p] \in Holding /\ round_'[p] = round_[p]
      BY <1>5, <2>4, <3>2 DEF Advance, TypeOK, Holding
    <3>3. QED
      BY <3>1, <3>2, SameTermsKept
  <2>5. QED
    BY <2>1, <2>2, <2>3, <2>4
<1>6. QED
  BY <1>1, <1>2, <1>3, <1>4, <1>5 DEF Next

LEMMA SameTermsAlways == Spec => []SameTerms
<1>1. Init => SameTerms
  BY DEF Init, SameTerms, Holding
<1>2. QED
  BY <1>1, SameTermsInductive, Typing, PTL DEF Spec

\* Whatever stale copy a submission writes back, the round keeps the mode, the
\* countdown and the day's size it was created with.
THEOREM TermsAreFixed == Spec => RoundTermsFixed
<1>1. TypeOK /\ SameTerms /\ [Next]_vars =>
        [\A r \in RoundId : rounds[r] # NoRound =>
           rounds'[r] # NoRound /\ Terms(rounds'[r]) = Terms(rounds[r])]_rounds
  <2> SUFFICES ASSUME TypeOK, SameTerms, [Next]_vars, rounds' # rounds,
                      NEW r \in RoundId, rounds[r] # NoRound
               PROVE  rounds'[r] # NoRound /\ Terms(rounds'[r]) = Terms(rounds[r])
    OBVIOUS
  <2>1. ASSUME NEW s \in RoundId, CreateGameRound(s)
        PROVE  rounds'[r] = rounds[r]
    BY <2>1 DEF CreateGameRound, TypeOK
  <2>2. ASSUME NEW q \in Req, Commit(q)
        PROVE  rounds'[r] # NoRound /\ Terms(rounds'[r]) = Terms(rounds[r])
    <3>1. /\ phase[q] = "saved" /\ rounds' = [rounds EXCEPT ![job[q].round] = round_[q]]
      BY <2>2 DEF Commit, Leave, Move
    <3>2. round_[q] \in Round /\ round_[q] # NoRound
      BY <3>1, SubmissionConstants DEF TypeOK
    <3>3. TermsOf(round_[q]) = TermsOf(rounds[job[q].round])
      BY <3>1 DEF SameTerms, Holding
    <3>4. QED
      BY <3>1, <3>2, <3>3 DEF TermsOf, TypeOK
  <2>3. QED
    BY <2>1, <2>2, RowChange
<1>2. QED
  BY <1>1, SameTermsAlways, Typing, PTL DEF Spec, RoundTermsFixed

-----------------------------------------------------------------------------
(* Whose verdict it is.                                                    *)

\* The strengthening speaks of every outcome there is: in the cache, in a
\* submission's hand, in a row and in every copy of a row.  An entry is that of
\* a submission past grading, whose job and freshness no longer change.
Mode(rd) == IF rd = NoRound THEN "CLASSIC" ELSE rd.mode

CacheTrusted == \A k \in Key : cache[k] # NoGrade => TrustedOutcome(k, cache[k])

JudgedWhenUnsure ==
  \A q \in Req : phase[q] = "judging" =>
    Evaluate[job[q].key].verdict = "PARTIAL" /\ Mode(round_[q]) \notin ForcedOff

GradesTrusted ==
  \A q \in Req : grade[q] # NoGrade =>
    /\ phase[q] \notin Ungraded
    /\ TrustedOutcome(job[q].key, grade[q])
    /\ fresh[q] /\ grade[q].matched_via = "LLM_RUBRIC" => Mode(round_[q]) \notin ForcedOff

TrustedEntry(mode, a) ==
  /\ phase[a.by] \notin Ungraded
  /\ TrustedOutcome(job[a.by].key, a)
  /\ mode \in ForcedOff /\ a.matched_via = "LLM_RUBRIC" => ~fresh[a.by]

RowsTrusted ==
  \A r \in RoundId : rounds[r] # NoRound =>
    \A i \in DOMAIN rounds[r].answers : TrustedEntry(rounds[r].mode, rounds[r].answers[i])

CopiesTrusted ==
  \A q \in Req : round_[q] # NoRound =>
    \A i \in DOMAIN round_[q].answers : TrustedEntry(round_[q].mode, round_[q].answers[i])

TrustInv ==
  /\ CacheTrusted /\ JudgedWhenUnsure /\ GradesTrusted
  /\ RowsTrusted /\ CopiesTrusted

\* What was asked and whether it was graded afresh is settled with the grade.
LEMMA GradedForGood ==
  ASSUME TypeOK, [Next]_vars, NEW q \in Req, phase[q] \notin Ungraded
  PROVE  /\ phase'[q] \notin Ungraded
         /\ job'[q] = job[q]
         /\ fresh'[q] = fresh[q]
<1> DEFINE Kept == phase'[q] \notin Ungraded /\ job'[q] = job[q] /\ fresh'[q] = fresh[q]
<1> SUFFICES Kept
  OBVIOUS
<1> USE DEF TypeOK, request, locals, history, shared, Move, Leave, Ungraded, Active, Holding
<1>1. CASE UNCHANGED vars \/ Tick \/ Crash \/ \E r \in RoundId : CreateGameRound(r)
  BY <1>1 DEF vars, Tick, Crash, CreateGameRound
<1>2. ASSUME NEW p \in Req, Abort(p) \/ LoseResponse(p) \/ \E j \in Jobs : Submit(p, j)
      PROVE  Kept
  BY <1>2 DEF Abort, LoseResponse, Submit
<1>3. ASSUME NEW p \in Req, Advance(p)
      PROVE  Kept
  <2>1. CASE ReadRound(p) \/ CacheHit(p) \/ CacheMiss(p) \/ TermNotFound(p) \/ Grade(p)
    BY <2>1 DEF ReadRound, CacheHit, CacheMiss, TermNotFound, Grade
  <2>2. CASE JudgeAnswers(p) \/ JudgeFails(p) \/ CachePut(p) \/ Publish(p)
    BY <2>2 DEF JudgeAnswers, JudgeFails, CachePut, Publish
  <2>3. CASE Record(p) \/ RecordRefused(p) \/ Save(p) \/ EmitGraded(p) \/ Commit(p)
               \/ Respond(p)
    BY <2>3 DEF Record, RecordRefused, Save, EmitGraded, Commit, Respond
  <2>4. QED
    BY <1>3, <2>1, <2>2, <2>3 DEF Advance
<1>4. QED
  BY <1>1, <1>2, <1>3 DEF Next

LEMMA TrustedForGood ==
  ASSUME TypeOK, [Next]_vars, NEW a \in SubmittedAnswer, NEW mode, TrustedEntry(mode, a)
  PROVE  /\ phase'[a.by] \notin Ungraded
         /\ TrustedOutcome(job'[a.by].key, a)
         /\ mode \in ForcedOff /\ a.matched_via = "LLM_RUBRIC" => ~fresh'[a.by]
<1>1. a.by \in Req
  BY DEF SubmittedAnswer
<1>2. QED
  BY <1>1, GradedForGood DEF TrustedEntry

\* The judge is asked only where the deterministic chain is unsure and the mode
\* lets it, so what it says contradicts no sure verdict.
LEMMA HandsTrusted ==
  ASSUME TypeOK, EventInv, SameTerms, CacheTrusted, JudgedWhenUnsure, GradesTrusted, [Next]_vars
  PROVE  CacheTrusted' /\ JudgedWhenUnsure' /\ GradesTrusted'
<1> USE DEF Phase, Active, Holding, Ended, Ungraded
<1> USE SubmissionConstants DEF CacheTrusted, JudgedWhenUnsure, GradesTrusted, TypeOK, Move, Leave,
        shared, request, locals, history, Mode
<1>1. CASE UNCHANGED vars
  BY <1>1 DEF vars
<1>2. CASE Tick
  BY <1>2 DEF Tick
<1>3. CASE Crash
  BY <1>3 DEF Crash
<1>4. ASSUME NEW r \in RoundId, CreateGameRound(r)
      PROVE  CacheTrusted' /\ JudgedWhenUnsure' /\ GradesTrusted'
  BY <1>4 DEF CreateGameRound
<1>5. ASSUME NEW q \in Req, NEW j \in Jobs, Submit(q, j)
      PROVE  CacheTrusted' /\ JudgedWhenUnsure' /\ GradesTrusted'
  BY <1>5 DEF Submit
<1>6. ASSUME NEW q \in Req, Abort(q) \/ LoseResponse(q)
      PROVE  CacheTrusted' /\ JudgedWhenUnsure' /\ GradesTrusted'
  BY <1>6 DEF Abort, LoseResponse
<1>7. ASSUME NEW q \in Req, Advance(q)
      PROVE  CacheTrusted' /\ JudgedWhenUnsure' /\ GradesTrusted'
  <2>1. CASE ReadRound(q)
    BY <2>1 DEF ReadRound
  <2>2. CASE CacheHit(q)
    BY <2>2 DEF CacheHit, Job, EventInv
  <2>3. CASE CacheMiss(q)
    BY <2>3 DEF CacheMiss
  <2>4. CASE TermNotFound(q)
    BY <2>4 DEF TermNotFound
  <2>5. CASE Grade(q)
    <3>1. job[q].key \in Key
      BY <2>5 DEF Grade, Job
    <3>2. /\ TrustedOutcome(job[q].key, Evaluate[job[q].key])
          /\ Evaluate[job[q].key].matched_via # "LLM_RUBRIC"
      BY <3>1 DEF TrustedOutcome
    <3>3. Escalates(q) => /\ Evaluate[job[q].key].verdict = "PARTIAL"
                          /\ Mode(round_[q]) \notin ForcedOff
      BY DEF Escalates, UseLlm, resolve_llm_grading, ForcedOff
    <3>4. /\ UNCHANGED <<cache, job, round_>>
          /\ phase' = [phase EXCEPT ![q] = IF Escalates(q) THEN "judging" ELSE "persisting"]
          /\ grade' = [grade EXCEPT ![q] = Evaluate[job[q].key]]
          /\ fresh' = [fresh EXCEPT ![q] = TRUE]
      BY <2>5 DEF Grade
    <3>5. CacheTrusted'
      BY <3>4
    <3>6. JudgedWhenUnsure'
      BY <3>3, <3>4
    <3>7. GradesTrusted'
      BY <3>2, <3>4
    <3>8. QED
      BY <3>5, <3>6, <3>7
  <2>6. CASE JudgeAnswers(q)
    BY <2>6 DEF JudgeAnswers, TrustedOutcome
  <2>7. CASE JudgeFails(q)
    BY <2>7 DEF JudgeFails
  <2>8. CASE CachePut(q)
    BY <2>8 DEF CachePut, Job
  <2>9. CASE Publish(q)
    BY <2>9 DEF Publish
  <2>10. CASE Record(q)
    <3>1. Mode(record(Base(q), Entry(q))) \in ForcedOff => Mode(round_[q]) \in ForcedOff
      <4>1. TermsOf(round_[q]) = TermsOf(rounds[job[q].round])
        BY <2>10 DEF Record, SameTerms
      <4>2. record(Base(q), Entry(q)).mode = Base(q).mode
        BY <2>10, EntryType, RecordType DEF Record, Terms
      <4>3. record(Base(q), Entry(q)) # NoRound
        BY <2>10, EntryType, RecordType DEF Record
      <4>4. ImplicitRound.mode = "CLASSIC" /\ "CLASSIC" \notin ForcedOff
        BY DEF ImplicitRound, start, ForcedOff
      <4>5. QED
        BY <4>1, <4>2, <4>3, <4>4 DEF Base, TermsOf, Terms
    <3>2. /\ UNCHANGED <<cache, job, grade, fresh>>
          /\ phase[q] = "recording" /\ phase' = [phase EXCEPT ![q] = "saving"]
          /\ round_' = [round_ EXCEPT ![q] = record(Base(q), Entry(q))]
      BY <2>10 DEF Record
    <3>3. CacheTrusted' /\ JudgedWhenUnsure'
      BY <3>2
    <3>4. GradesTrusted'
      BY <3>1, <3>2
    <3>5. QED
      BY <3>3, <3>4
  <2>11. CASE RecordRefused(q)
    BY <2>11 DEF RecordRefused
  <2>12. CASE Save(q)
    BY <2>12 DEF Save
  <2>13. CASE EmitGraded(q)
    BY <2>13 DEF EmitGraded
  <2>14. CASE Commit(q)
    BY <2>14 DEF Commit
  <2>15. CASE Respond(q)
    BY <2>15 DEF Respond
  <2>16. QED
    BY <1>7, <2>1, <2>2, <2>3, <2>4, <2>5, <2>6, <2>7, <2>8, <2>9, <2>10,
       <2>11, <2>12, <2>13, <2>14, <2>15 DEF Advance
<1>8. QED
  BY <1>1, <1>2, <1>3, <1>4, <1>5, <1>6, <1>7 DEF Next
\* So is every row and every copy, as it is made of such entries.
LEMMA EntriesTrusted ==
  ASSUME TypeOK, SameTerms, GradesTrusted, RowsTrusted, CopiesTrusted, [Next]_vars
  PROVE  RowsTrusted' /\ CopiesTrusted'
<1>1. ASSUME NEW rd \in Round, NEW i \in DOMAIN rd.answers, TrustedEntry(rd.mode, rd.answers[i])
      PROVE  /\ phase'[rd.answers[i].by] \notin Ungraded
             /\ TrustedOutcome(job'[rd.answers[i].by].key, rd.answers[i])
             /\ rd.mode \in ForcedOff /\ rd.answers[i].matched_via = "LLM_RUBRIC"
                  => ~fresh'[rd.answers[i].by]
  <2>1. rd.answers[i] \in SubmittedAnswer
    BY DEF Round
  <2>2. QED
    BY <1>1, <2>1, TrustedForGood
<1>2. /\ \A r \in RoundId : rounds[r] # NoRound => rounds[r] \in Round
      /\ \A q \in Req : round_[q] # NoRound => round_[q] \in Round
  BY DEF TypeOK
<1>3. ASSUME NEW r \in RoundId, rounds'[r] # NoRound, NEW i \in DOMAIN rounds'[r].answers
      PROVE  /\ phase'[rounds'[r].answers[i].by] \notin Ungraded
             /\ TrustedOutcome(job'[rounds'[r].answers[i].by].key, rounds'[r].answers[i])
             /\ rounds'[r].mode \in ForcedOff /\ rounds'[r].answers[i].matched_via = "LLM_RUBRIC"
                  => ~fresh'[rounds'[r].answers[i].by]
  <2>1. CASE rounds'[r] = rounds[r]
    BY <1>1, <1>2, <1>3, <2>1 DEF RowsTrusted
  <2>2. ASSUME NEW s \in RoundId, CreateGameRound(s), rounds'[r] # rounds[r]
        PROVE  rounds'[r].answers = << >>
    BY <2>2, StartType DEF CreateGameRound, TypeOK
  <2>3. ASSUME NEW q \in Req, Commit(q), rounds'[r] # rounds[r]
        PROVE  rounds'[r] = round_[q]
    BY <2>3 DEF Commit, TypeOK
  <2>4. CASE \E q \in Req : rounds'[r] = round_[q]
    BY <1>1, <1>2, <1>3, <2>4 DEF CopiesTrusted
  <2>5. QED
    BY <1>3, <2>1, <2>2, <2>3, <2>4, RowChange
<1>4. ASSUME NEW q \in Req, round_'[q] # NoRound, NEW i \in DOMAIN round_'[q].answers
      PROVE  /\ phase'[round_'[q].answers[i].by] \notin Ungraded
             /\ TrustedOutcome(job'[round_'[q].answers[i].by].key, round_'[q].answers[i])
             /\ round_'[q].mode \in ForcedOff /\ round_'[q].answers[i].matched_via = "LLM_RUBRIC"
                  => ~fresh'[round_'[q].answers[i].by]
  <2>1. CASE round_'[q] = round_[q]
    BY <1>1, <1>2, <1>4, <2>1 DEF CopiesTrusted
  <2>2. CASE ReadRound(q)
    <3>1. job[q].round \in RoundId /\ round_'[q] = rounds[job[q].round]
      BY <2>2, SubmissionConstants DEF ReadRound, Move, TypeOK, Job
    <3>2. QED
      BY <1>1, <1>2, <1>4, <3>1 DEF RowsTrusted
  <2>3. CASE Record(q)
    <3>1. /\ Entry(q) \in SubmittedAnswer /\ Base(q) \in Round
          /\ round_'[q] = record(Base(q), Entry(q))
          /\ phase[q] = "recording"
      BY <2>3, EntryType DEF Record, Move, TypeOK
    <3>2. /\ round_'[q].answers = Append(Base(q).answers, Entry(q))
          /\ round_'[q].mode = Base(q).mode
          /\ Base(q).answers \in Seq(SubmittedAnswer)
      BY <3>1, RecordType DEF Terms, Round
    <3>3. CASE i \in DOMAIN Base(q).answers
      <4>1. round_'[q].answers[i] = Base(q).answers[i]
        BY <3>1, <3>2, <3>3
      <4>2. job[q].round \in RoundId
        BY <3>1, SubmissionConstants DEF TypeOK, Job
      <4>3. TrustedEntry(Base(q).mode, Base(q).answers[i])
        BY <3>3, <4>2, ImplicitType DEF Base, RowsTrusted, CopiesTrusted
      <4>4. QED
        BY <1>1, <3>1, <3>2, <3>3, <4>1, <4>3
    <3>4. CASE i \notin DOMAIN Base(q).answers
      <4>1. round_'[q].answers[i] = Entry(q)
        BY <1>4, <3>1, <3>2, <3>4
      <4>2. grade[q] # NoGrade
        BY <3>1, SubmissionConstants DEF TypeOK
      <4>3. TermsOf(round_[q]) = TermsOf(rounds[job[q].round])
        BY <3>1 DEF SameTerms, Holding
      <4>4. Base(q).mode = Mode(round_[q])
        BY <4>3 DEF Base, TermsOf, Terms, Mode, ImplicitRound, start
      <4>5. TrustedEntry(Base(q).mode, Entry(q))
        BY <4>2, <4>4 DEF GradesTrusted, TrustedEntry, Entry, TrustedOutcome
      <4>6. QED
        BY <3>1, <3>2, <4>1, <4>5, TrustedForGood
    <3>5. QED
      BY <3>3, <3>4
  <2>4. QED
    BY <1>4, <2>1, <2>2, <2>3, LocalChange
<1>5. RowsTrusted'
  BY <1>3 DEF RowsTrusted, TrustedEntry
<1>6. CopiesTrusted'
  BY <1>4 DEF CopiesTrusted, TrustedEntry
<1>7. QED
  BY <1>5, <1>6

LEMMA TrustAlways == Spec => []TrustInv
<1>1. Init => TrustInv
  BY DEF Init, TrustInv, CacheTrusted, JudgedWhenUnsure, GradesTrusted, RowsTrusted, CopiesTrusted
<1>2. TypeOK /\ EventInv /\ SameTerms /\ TrustInv /\ [Next]_vars => TrustInv'
  BY HandsTrusted, EntriesTrusted DEF TrustInv
<1>3. QED
  BY <1>1, <1>2, EventInvAlways, SameTermsAlways, Typing, PTL DEF Spec

\* What is recorded and cached never contradicts a sure verdict of the
\* deterministic chain, whichever submission graded it and in whatever mode.
THEOREM VerdictsAreTrusted == Spec => []TrustedVerdicts
<1>1. TrustInv => TrustedVerdicts
  BY DEF TrustInv, CacheTrusted, RowsTrusted, TrustedEntry, TrustedVerdicts
<1>2. QED
  BY <1>1, TrustAlways, PTL

\* A judged outcome is in a Sprint or a Daily 20 round only by way of the cache.
THEOREM ForcedOffIsNeverJudged == Spec => []JudgedOnlyFromCache
<1>1. TrustInv => JudgedOnlyFromCache
  BY DEF TrustInv, RowsTrusted, TrustedEntry, JudgedOnlyFromCache
<1>2. QED
  BY <1>1, TrustAlways, PTL

-----------------------------------------------------------------------------
(* One player at a time: the rows are append-only logs.                    *)

\* The strengthening: no two open submissions share a round, so the copy that
\* is held is the row, and then the row and one answer.
Open == Active \cup {"committed"}

RowOf(q) == IF rounds[job[q].round] = NoRound THEN ImplicitRound ELSE rounds[job[q].round]

Alone ==
  \A p, q \in Req :
    phase[p] \in Open /\ phase[q] \in Open /\ job[p].round = job[q].round => p = q

CopyIsRow ==
  \A q \in Req : phase[q] \in Holding \ {"saving", "saved"} =>
    round_[q] = rounds[job[q].round]

CopyExtendsRow ==
  \A q \in Req : phase[q] \in {"saving", "saved"} =>
    \E a \in SubmittedAnswer : round_[q] = record(RowOf(q), a)

LogInv == Alone /\ CopyIsRow /\ CopyExtendsRow

LEMMA SerialIsSpec == SerialSpec => Spec
<1>1. [SerialNext]_vars => [Next]_vars
  BY DEF SerialNext, Next
<1>2. QED
  BY <1>1, PTL DEF SerialSpec, Spec

\* A step that opens nothing, holds no more copies, and changes no row.
LEMMA LogInvKept ==
  ASSUME TypeOK, LogInv, UNCHANGED <<rounds, job>>,
         \A q \in Req :
           /\ phase'[q] \in Open => phase[q] \in Open
           /\ phase'[q] \in Holding => phase[q] \in Holding /\ round_'[q] = round_[q]
           /\ phase'[q] \in {"saving", "saved"} <=> phase[q] \in {"saving", "saved"} /\ phase'[q] \in Holding
  PROVE  LogInv'
<1>1. Alone'
  BY DEF LogInv, Alone
<1>2. CopyIsRow'
  BY DEF LogInv, CopyIsRow
<1>3. ASSUME NEW q \in Req, phase'[q] \in {"saving", "saved"}
      PROVE  \E a \in SubmittedAnswer : round_'[q] = record(RowOf(q)', a)
  <2>1. phase[q] \in {"saving", "saved"} /\ round_'[q] = round_[q]
    BY <1>3 DEF Holding
  <2>2. RowOf(q)' = RowOf(q)
    BY DEF RowOf, ImplicitRound, start
  <2>3. QED
    BY <2>1, <2>2 DEF LogInv, CopyExtendsRow
<1>4. CopyExtendsRow'
  BY <1>3 DEF CopyExtendsRow, RowOf, record, ImplicitRound, start
<1>5. QED
  BY <1>1, <1>2, <1>4 DEF LogInv

LEMMA LogInvInductive == TypeOK /\ LogInv /\ [SerialNext]_vars => LogInv'
<1> SUFFICES ASSUME TypeOK, LogInv, [SerialNext]_vars PROVE LogInv'
  OBVIOUS
<1> USE DEF Move, Leave, shared, request, locals, history
<1>1. CASE UNCHANGED vars \/ Tick
  <2>1. UNCHANGED <<rounds, job, phase, round_>>
    BY <1>1 DEF vars, Tick
  <2>2. QED
    BY <2>1, LogInvKept DEF Holding
<1>2. CASE Crash
  <2>1. UNCHANGED <<rounds, job>> /\ \A q \in Req : phase'[q] \notin Open
    BY <1>2 DEF Crash, Active, Holding, Open
  <2>2. QED
    BY <2>1, LogInvKept DEF Open, Active, Holding
<1>3. ASSUME NEW r \in RoundId, CreateGameRound(r) PROVE LogInv'
  <2>1. /\ UNCHANGED <<phase, job, round_>>
        /\ \A s : s # r => rounds'[s] = rounds[s]
        /\ \A q \in Req : phase[q] \in Open => job[q].round # r
    BY <1>3 DEF CreateGameRound, TypeOK, Holding, Active, Open
  <2>2. Holding \subseteq Open
    BY DEF Open, Active
  <2>3. Alone'
    BY <2>1 DEF LogInv, Alone
  <2>4. CopyIsRow'
    BY <2>1, <2>2 DEF LogInv, CopyIsRow
  <2>5. ASSUME NEW q \in Req, phase'[q] \in {"saving", "saved"}
        PROVE  \E a \in SubmittedAnswer : round_'[q] = record(RowOf(q)', a)
    <3>1. phase[q] \in {"saving", "saved"} /\ job[q].round # r
      BY <2>1, <2>2, <2>5 DEF Holding
    <3>2. RowOf(q)' = RowOf(q)
      BY <2>1, <3>1 DEF RowOf, ImplicitRound, start
    <3>3. QED
      BY <2>1, <3>1, <3>2 DEF LogInv, CopyExtendsRow
  <2>6. CopyExtendsRow'
    BY <2>5 DEF CopyExtendsRow, RowOf, record, ImplicitRound, start
  <2>7. QED
    BY <2>3, <2>4, <2>6 DEF LogInv
<1>4. ASSUME NEW q \in Req, NEW j \in Jobs, Quiet(j.round), Submit(q, j) PROVE LogInv'
  <2>1. /\ UNCHANGED <<rounds, round_>> /\ phase'[q] = "opened" /\ job'[q] = j
        /\ \A p \in Req : p # q => phase'[p] = phase[p] /\ job'[p] = job[p]
    BY <1>4 DEF Submit, TypeOK
  <2>2. \A p \in Req : phase[p] \in Open => job[p].round # j.round
    BY <1>4 DEF Quiet, Open
  <2>3. Alone'
    BY <2>1, <2>2 DEF LogInv, Alone
  <2>4. \A p \in Req : phase'[p] \in Holding => p # q
    BY <2>1 DEF Holding
  <2>5. CopyIsRow'
    BY <2>1, <2>4 DEF LogInv, CopyIsRow
  <2>6. ASSUME NEW p \in Req, phase'[p] \in {"saving", "saved"}
        PROVE  \E a \in SubmittedAnswer : round_'[p] = record(RowOf(p)', a)
    <3>1. phase[p] \in {"saving", "saved"} /\ job'[p] = job[p]
      BY <2>1, <2>4, <2>6 DEF Holding
    <3>2. RowOf(p)' = RowOf(p)
      BY <2>1, <3>1 DEF RowOf, ImplicitRound, start
    <3>3. QED
      BY <2>1, <3>1, <3>2 DEF LogInv, CopyExtendsRow
  <2>7. CopyExtendsRow'
    BY <2>6 DEF CopyExtendsRow, RowOf, record, ImplicitRound, start
  <2>8. QED
    BY <2>3, <2>5, <2>7 DEF LogInv
<1>5. ASSUME NEW q \in Req, Advance(q) \/ Abort(q) \/ LoseResponse(q) PROVE LogInv'
  <2>1. CASE ReadRound(q)
    <3>1. /\ UNCHANGED <<rounds, job>> /\ round_'[q] = rounds[job[q].round]
          /\ phase[q] = "opened" /\ phase'[q] = "read"
          /\ \A p \in Req : p # q => phase'[p] = phase[p] /\ round_'[p] = round_[p]
      BY <2>1 DEF ReadRound, TypeOK
    <3>2. Alone'
      BY <3>1 DEF LogInv, Alone, Open, Active
    <3>3. CopyIsRow'
      BY <3>1 DEF LogInv, CopyIsRow
    <3>4. ASSUME NEW p \in Req, phase'[p] \in {"saving", "saved"}
          PROVE  \E a \in SubmittedAnswer : round_'[p] = record(RowOf(p)', a)
      <4>1. RowOf(p)' = RowOf(p)
        BY <3>1 DEF RowOf, ImplicitRound, start
      <4>2. QED
        BY <3>1, <3>4, <4>1 DEF LogInv, CopyExtendsRow
    <3>5. CopyExtendsRow'
      BY <3>4 DEF CopyExtendsRow, RowOf, record, ImplicitRound, start
    <3>6. QED
      BY <3>2, <3>3, <3>5 DEF LogInv
  <2>2. CASE Record(q)
    <3>1. /\ UNCHANGED <<rounds, job>> /\ round_'[q] = record(Base(q), Entry(q))
          /\ phase[q] = "recording" /\ phase'[q] = "saving"
          /\ \A p \in Req : p # q => phase'[p] = phase[p] /\ round_'[p] = round_[p]
      BY <2>2 DEF Record, TypeOK
    <3>2. Base(q) = RowOf(q) /\ Entry(q) \in SubmittedAnswer
      BY <3>1, EntryType DEF LogInv, CopyIsRow, Holding, Base, RowOf
    <3>3. Alone'
      BY <3>1 DEF LogInv, Alone, Open, Active, Holding
    <3>4. CopyIsRow'
      BY <3>1 DEF LogInv, CopyIsRow
    <3>5. ASSUME NEW p \in Req, phase'[p] \in {"saving", "saved"}
          PROVE  \E a \in SubmittedAnswer : round_'[p] = record(RowOf(p)', a)
      <4>1. RowOf(p)' = RowOf(p)
        BY <3>1 DEF RowOf, ImplicitRound, start
      <4>2. QED
        BY <3>1, <3>2, <3>5, <4>1 DEF LogInv, CopyExtendsRow
    <3>6. CopyExtendsRow'
      BY <3>5 DEF CopyExtendsRow, RowOf, record, ImplicitRound, start
    <3>7. QED
      BY <3>3, <3>4, <3>6 DEF LogInv
  <2>3. CASE Commit(q)
    <3>1. /\ phase[q] = "saved" /\ phase'[q] = "committed" /\ job' = job
          /\ rounds' = [rounds EXCEPT ![job[q].round] = round_[q]]
          /\ \A p \in Req : p # q => phase'[p] = phase[p] /\ round_'[p] = round_[p]
      BY <2>3 DEF Commit, TypeOK
    <3>2. Alone'
      BY <3>1 DEF LogInv, Alone, Open, Active, Holding
    <3>3. ASSUME NEW p \in Req, phase'[p] \in Holding
          PROVE  /\ phase'[p] = phase[p] /\ round_'[p] = round_[p]
                 /\ rounds'[job'[p].round] = rounds[job[p].round]
      <4>1. p # q /\ phase[p] \in Open /\ phase[q] \in Open
        BY <3>1, <3>3 DEF Holding, Open, Active
      <4>2. job[p].round # job[q].round
        BY <4>1 DEF LogInv, Alone
      <4>3. QED
        BY <3>1, <4>1, <4>2 DEF TypeOK
    <3>4. CopyIsRow'
      BY <3>3 DEF LogInv, CopyIsRow
    <3>5. ASSUME NEW p \in Req, phase'[p] \in {"saving", "saved"}
          PROVE  \E a \in SubmittedAnswer : round_'[p] = record(RowOf(p)', a)
      <4>1. RowOf(p)' = RowOf(p)
        BY <3>3, <3>5 DEF RowOf, Holding, ImplicitRound, start
      <4>2. QED
        BY <3>3, <3>5, <4>1 DEF LogInv, CopyExtendsRow, Holding
    <3>6. CopyExtendsRow'
      BY <3>5 DEF CopyExtendsRow, RowOf, record, ImplicitRound, start
    <3>7. QED
      BY <3>2, <3>4, <3>6 DEF LogInv
  <2>4. CASE ~(ReadRound(q) \/ Record(q) \/ Commit(q))
    <3> USE DEF CacheHit, CacheMiss, TermNotFound, Grade, JudgeAnswers, JudgeFails,
                CachePut, Publish, RecordRefused, Save, EmitGraded, Respond, Abort,
                LoseResponse
    <3>1. UNCHANGED <<rounds, job>>
      BY <1>5, <2>4 DEF Advance
    <3>2. ASSUME NEW p \in Req
          PROVE  /\ phase'[p] \in Open => phase[p] \in Open
                 /\ phase'[p] \in Holding => phase[p] \in Holding /\ round_'[p] = round_[p]
                 /\ phase'[p] \in {"saving", "saved"}
                      <=> phase[p] \in {"saving", "saved"} /\ phase'[p] \in Holding
      BY <1>5, <2>4, <3>2 DEF Advance, TypeOK, Holding, Active, Open
    <3>3. QED
      BY <3>1, <3>2, LogInvKept
  <2>5. QED
    BY <2>1, <2>2, <2>3, <2>4
<1>6. QED
  BY <1>1, <1>2, <1>3, <1>4, <1>5 DEF SerialNext

LEMMA LogInvAlways == SerialSpec => []LogInv
<1>1. Init => LogInv
  BY DEF Init, LogInv, Alone, CopyIsRow, CopyExtendsRow, Open, Active, Holding
<1>2. QED
  BY <1>1, LogInvInductive, SerialIsSpec, Typing, PTL DEF SerialSpec

\* RoundLog speaks of the same rounds.
LEMMA RoundIsLogRound ==
  /\ Round = Log!Round /\ SubmittedAnswer = Log!SubmittedAnswer
  /\ ImplicitRound = Log!ImplicitRound
  /\ \A rd, a : record(rd, a) = Log!record(rd, a)
  /\ \A rd : LegalRound(rd) <=> Log!LegalRound(rd)
<1>1. SubmittedAnswer = Log!SubmittedAnswer
  BY DEF SubmittedAnswer, Verdict, MatchedVia,
         Log!SubmittedAnswer, Log!Verdict, Log!MatchedVia
<1>2. Round = Log!Round
  BY <1>1 DEF Round, RoundMode, Log!Round, Log!RoundMode
<1>3. ImplicitRound = Log!ImplicitRound
  BY DEF ImplicitRound, start, Log!ImplicitRound, Log!start
<1>4. \A rd, a : record(rd, a) = Log!record(rd, a)
  BY DEF record, Log!record
<1>5. \A s : IncorrectAt(s) = Log!IncorrectAt(s)
  BY DEF IncorrectAt, Log!IncorrectAt
<1>6. \A S : Cardinality(S) = Log!Cardinality(S)
  BY Zenon DEF Cardinality, Log!Cardinality, IsFiniteSet, Log!IsFiniteSet
<1>7. \A rd : LegalRound(rd) <=> Log!LegalRound(rd)
  BY <1>5, <1>6 DEF LegalRound, WithinCeiling, WithinSize, WithinLives, WithinTime,
       Log!LegalRound, Log!WithinCeiling, Log!WithinSize, Log!WithinLives, Log!WithinTime
<1>8. QED
  BY <1>1, <1>2, <1>3, <1>4, <1>7

\* While a player has at most one submission open on a round, the rows are what
\* round.py calls them: append-only logs, one answer longer with each commit.
THEOREM SerialIsLog == SerialSpec => LogSpec
<1>1. Init => Log!Init
  BY DEF Init, Log!Init
<1>2. TypeOK /\ TypeOK' /\ CopiesLegal' /\ LogInv /\ [SerialNext]_vars => [Log!Next]_rounds
  <2> SUFFICES ASSUME TypeOK, TypeOK', CopiesLegal', LogInv, [SerialNext]_vars, rounds' # rounds
               PROVE  Log!Next
    OBVIOUS
  <2>1. ASSUME NEW r \in RoundId, CreateGameRound(r) PROVE Log!Open(r)
    <3>1. PICK rd \in NewRounds(clock) : rounds' = [rounds EXCEPT ![r] = rd]
      BY <2>1 DEF CreateGameRound
    <3>2. rd \in Round /\ rd.answers = << >>
      BY StartType DEF TypeOK
    <3>3. rounds[r] = NoRound /\ rounds'[r] = rd
      BY <2>1, <3>1 DEF CreateGameRound, TypeOK
    <3>4. QED
      BY <3>1, <3>2, <3>3, RoundIsLogRound DEF Log!Open
  <2>2. ASSUME NEW q \in Req, Commit(q) PROVE Log!Extend(job[q].round)
    <3> DEFINE r == job[q].round
    <3>1. /\ phase[q] = "saved" /\ rounds' = [rounds EXCEPT ![r] = round_[q]]
          /\ r \in RoundId
      BY <2>2, SubmissionConstants DEF Commit, Leave, Move, TypeOK, Job
    <3>2. rounds'[r] = round_[q] /\ round_[q] \in Round /\ round_[q] # NoRound
      BY <3>1, SubmissionConstants DEF TypeOK
    <3>3. LegalRound(rounds'[r])
      BY <3>1, <3>2 DEF CopiesLegal, LegalRow, LegalRound, WithinCeiling, WithinSize,
                        WithinLives, WithinTime
    <3>4. PICK a \in SubmittedAnswer : round_[q] = record(RowOf(q), a)
      BY <3>1 DEF LogInv, CopyExtendsRow
    <3>5. RowOf(q) \in Round
      BY <3>1, ImplicitType DEF RowOf, TypeOK
    <3>6. /\ rounds'[r].answers = Append(RowOf(q).answers, a)
          /\ RowOf(q).answers \in Seq(SubmittedAnswer)
      <4>1. record(RowOf(q), a).answers = Append(RowOf(q).answers, a)
        BY <3>5, RecordType
      <4>2. QED
        BY <3>2, <3>4, <3>5, <4>1 DEF Round
    <3>7. /\ rounds'[r].answers # << >>
          /\ rounds'[r].answers[Len(rounds'[r].answers)] = a
      BY <3>6
    <3>8. rounds' = [rounds EXCEPT ![r] = record(RowOf(q), rounds'[r].answers[Len(rounds'[r].answers)])]
      BY <3>1, <3>4, <3>7
    <3>9. QED
      BY <3>2, <3>3, <3>7, <3>8, RoundIsLogRound DEF Log!Extend, RowOf
  <2>3. ASSUME NEW q \in Req, Commit(q) PROVE job[q].round \in RoundId
    BY <2>3, SubmissionConstants DEF Commit, Leave, Move, TypeOK, Job
  <2>4. [Next]_vars
    BY DEF SerialNext, Next
  <2>5. QED
    BY <2>1, <2>2, <2>3, <2>4, RowChange DEF Log!Next
<1>3. QED
  BY <1>1, <1>2, LogInvAlways, SerialIsSpec, CopiesAlwaysLegal, Typing, PTL
     DEF SerialSpec, LogSpec, Log!Spec

\* Appending keeps what is there.
LEMMA AppendKeeps ==
  ASSUME NEW S, NEW s \in Seq(S), NEW a
  PROVE  /\ Len(s) <= Len(Append(s, a))
         /\ \A i \in DOMAIN s : Append(s, a)[i] = s[i]
OBVIOUS

\* One at a time loses no answer, whatever fails or crashes in between: the
\* violation that overlapping submissions can cause is theirs alone (round.py:
\* "a GameRound is the append-only log").
THEOREM SerialIsAppendOnly == SerialSpec => AppendOnly
<1> DEFINE Kept(r) ==
      rounds[r] # NoRound =>
        /\ Len(rounds[r].answers) <= Len(rounds'[r].answers)
        /\ \A i \in DOMAIN rounds[r].answers :
             rounds'[r].answers[i] = rounds[r].answers[i]
<1>1. ASSUME TypeOK, Log!Next, NEW r \in RoundId PROVE Kept(r)
  <2>1. PICK k \in RoundId : Log!Open(k) \/ Log!Extend(k)
    BY <1>1 DEF Log!Next
  <2>2. CASE rounds'[r] = rounds[r]
    <3>1. rounds[r] # NoRound => rounds[r].answers \in Seq(SubmittedAnswer)
      BY <1>1 DEF TypeOK, Round
    <3>2. QED
      BY <2>2, <3>1
  <2>3. CASE rounds'[r] # rounds[r] /\ rounds[r] # NoRound
    <3>1. \E x : rounds' = [rounds EXCEPT ![k] = x]
      BY <2>1 DEF Log!Open, Log!Extend
    <3>2. k = r
      BY <1>1, <2>3, <3>1 DEF TypeOK
    <3>3. Log!Extend(r)
      BY <2>1, <2>3, <3>2 DEF Log!Open
    <3>4. PICK a : rounds' = [rounds EXCEPT ![r] = record(rounds[r], a)]
      BY <2>3, <3>3, RoundIsLogRound DEF Log!Extend
    <3>5. rounds'[r] = record(rounds[r], a)
      BY <1>1, <3>4 DEF TypeOK
    <3>6. rounds[r] \in Round
      BY <1>1, <2>3 DEF TypeOK
    <3>7. /\ rounds[r].answers \in Seq(SubmittedAnswer)
          /\ rounds'[r].answers = Append(rounds[r].answers, a)
      BY <3>5, <3>6 DEF Round, record
    <3>8. QED
      BY <3>7, AppendKeeps
  <2>4. QED
    BY <2>2, <2>3
<1>2. TypeOK /\ [Log!Next]_rounds => [\A r \in RoundId : Kept(r)]_rounds
  BY <1>1
<1>3. QED
  BY <1>2, SerialIsLog, SerialIsSpec, Typing, PTL DEF AppendOnly, LogSpec, Log!Spec

-----------------------------------------------------------------------------
(* Waits.  EverySubmissionEnds is beyond these provers; the facts it rests *)
(* on are not: each step of a submission brings it nearer to its end, of   *)
(* which it has a dozen at most, and of those that wait for a row's lock   *)
(* none waits for another that waits.                                      *)

Place(at) ==
  CASE at = "idle"       -> 0
    [] at = "opened"     -> 1
    [] at = "read"       -> 2
    [] at = "grading"    -> 3
    [] at = "judging"    -> 4
    [] at = "persisting" -> 5
    [] at = "publishing" -> 6
    [] at = "recording"  -> 7
    [] at = "saving"     -> 8
    [] at = "saved"      -> 9
    [] at = "committed"  -> 10
    [] OTHER             -> 11

\* A submission moves on, or shows its grade, which it does once.
OnlyForward ==
  /\ shown \subseteq shown'
  /\ \A q \in Req : phase'[q] = phase[q] \/ Place(phase'[q]) > Place(phase[q])
  /\ \A q \in Req : Advance(q) => Place(phase'[q]) > Place(phase[q]) \/ q \in shown' \ shown

\* The guards of Advance: a submission that is under way need not wait.
Underway(q) == phase[q] \in Active \cup {"committed"}
CanAdvance(q) == phase[q] = "saving" => ~RowLocked(job[q].round)

SomebodyCanGo == (\E q \in Req : Underway(q)) => \E q \in Req : Underway(q) /\ CanAdvance(q)

\* What Advance does to where submissions stand, and what a failure does.
LEMMA MovesOn ==
  ASSUME TypeOK, NEW q \in Req, Advance(q) \/ Abort(q) \/ LoseResponse(q)
  PROVE  /\ shown \subseteq shown' /\ \A p \in Req : p # q => phase'[p] = phase[p]
         /\ \/ Place(phase'[q]) > Place(phase[q])
            \/ phase'[q] = phase[q] /\ q \in shown' \ shown
<1>1. phase \in [Req -> Phase]
  BY DEF TypeOK
<1>2. CASE ReadRound(q) \/ CacheHit(q) \/ CacheMiss(q)
  BY <1>1, <1>2 DEF ReadRound, CacheHit, CacheMiss, Move, Place
<1>3. CASE TermNotFound(q) \/ Grade(q)
  BY <1>1, <1>3 DEF TermNotFound, Grade, Leave, Move, Place
<1>4. CASE JudgeAnswers(q) \/ JudgeFails(q)
  BY <1>1, <1>4 DEF JudgeAnswers, JudgeFails, Move, Place
<1>5. CASE CachePut(q) \/ Publish(q)
  BY <1>1, <1>5 DEF CachePut, Publish, Move, Place
<1>6. CASE Record(q) \/ RecordRefused(q)
  BY <1>1, <1>6 DEF Record, RecordRefused, Leave, Move, Place
<1>7. CASE Save(q)
  BY <1>1, <1>7 DEF Save, Move, Place
<1>8. CASE EmitGraded(q)
  BY <1>1, <1>8 DEF EmitGraded
<1>9. CASE Commit(q) \/ Respond(q) \/ LoseResponse(q)
  BY <1>1, <1>9 DEF Commit, Respond, LoseResponse, Leave, Move, Place
<1>10. CASE Abort(q)
  BY <1>1, <1>10 DEF Abort, Leave, Move, Place, Active, Holding
<1>11. QED
  BY <1>2, <1>3, <1>4, <1>5, <1>6, <1>7, <1>8, <1>9, <1>10 DEF Advance

\* A crash ends what is under way, and starts nothing.
LEMMA CrashEnds ==
  ASSUME TypeOK, Crash, NEW q \in Req
  PROVE  phase'[q] = phase[q] \/ Place(phase'[q]) > Place(phase[q])
BY DEF TypeOK, Crash, Phase, Active, Holding, Ended, Place

\* Every step of the system.
LEMMA ForwardStep ==
  ASSUME TypeOK, [Next]_vars
  PROVE  OnlyForward
<1> DEFINE Forward == /\ shown \subseteq shown'
                      /\ \A q \in Req : phase'[q] = phase[q]
                                        \/ Place(phase'[q]) > Place(phase[q])
<1>1. phase \in [Req -> Phase]
  BY DEF TypeOK
<1>2. ASSUME NEW q \in Req, Advance(q)
      PROVE  Place(phase'[q]) > Place(phase[q]) \/ q \in shown' \ shown
  BY <1>2, MovesOn
<1>3. ASSUME NEW q \in Req, Advance(q) \/ Abort(q) \/ LoseResponse(q) PROVE Forward
  <2>1. /\ shown \subseteq shown' /\ \A p \in Req : p # q => phase'[p] = phase[p]
        /\ phase'[q] = phase[q] \/ Place(phase'[q]) > Place(phase[q])
    BY <1>3, MovesOn
  <2>2. QED
    BY <2>1
<1>4. ASSUME NEW q \in Req, NEW j \in Jobs, Submit(q, j) PROVE Forward
  <2>1. /\ shown' = shown /\ \A p \in Req : p # q => phase'[p] = phase[p]
        /\ phase[q] = "idle" /\ phase'[q] = "opened"
    BY <1>1, <1>4 DEF Submit, Move
  <2>2. Place("opened") > Place("idle")
    BY DEF Place
  <2>3. QED
    BY <2>1, <2>2
<1>5. ASSUME Crash PROVE Forward
  BY <1>5, CrashEnds DEF Crash
<1>6. ASSUME Tick \/ (\E r \in RoundId : CreateGameRound(r)) \/ UNCHANGED vars PROVE Forward
  <2>1. phase' = phase /\ shown' = shown
    BY <1>6 DEF Tick, CreateGameRound, vars
  <2>2. QED
    BY <2>1
<1>7. Forward
  BY <1>3, <1>4, <1>5, <1>6 DEF Next
<1>8. QED
  BY <1>2, <1>7 DEF OnlyForward

\* Who waits for a row waits for a submission that has only to commit.
LEMMA HolderCanGo == TypeOK => SomebodyCanGo
<1>1. ASSUME NEW p \in Req, phase[p] = "saved" PROVE Underway(p) /\ CanAdvance(p)
  BY <1>1 DEF Underway, CanAdvance, Active, Holding
<1>2. CASE \E p \in Req : phase[p] = "saved"
  BY <1>1, <1>2 DEF SomebodyCanGo
<1>3. CASE ~\E p \in Req : phase[p] = "saved"
  BY <1>3 DEF SomebodyCanGo, CanAdvance, RowLocked
<1>4. QED
  BY <1>2, <1>3

\* Every step of a submission is one towards its end, a crash included, and
\* while any is under way some submission need not wait for a row's lock: no
\* number of players ever waits in a circle (SubmitAnswer.execute, rounds.save).
THEOREM SubmissionsWindDown == Spec => []SomebodyCanGo /\ [][OnlyForward]_vars
<1>1. TypeOK /\ [Next]_vars => OnlyForward
  BY ForwardStep
<1>2. QED
  BY <1>1, HolderCanGo, Typing, PTL DEF Spec
=============================================================================
