------------------------------ MODULE TermBank ------------------------------
(***************************************************************************)
(* Writes to content-service's term bank: direct publication of a term,    *)
(* and review of the candidates the pipeline queues                        *)
(* (application/use_cases.py, infrastructure/sql_*.py).                    *)
(*                                                                         *)
(* A request is a coroutine with a transaction of its own at READ          *)
(* COMMITTED: a SELECT sees committed rows and locks nothing; an upsert or *)
(* UPDATE takes the row's lock and holds it until the transaction ends.    *)
(* The ORM sends a changed attribute only when it flushes, at the commit,  *)
(* and only if it differs from what was read.                              *)
(* Events go to the Kafka topic terms.published, outside the transaction.  *)
(*                                                                         *)
(* A term's row and its child rows are written and committed together, so  *)
(* a term is named here by the request that wrote it.                      *)
(***************************************************************************)
EXTENDS Naturals, Sequences, FiniteSets

CONSTANTS
  TermId, Candidate, Req,
  TermOf,         \* the term each candidate proposes content for
  Jobs,           \* what clients may ask
  NoTerm, NoJob,
  BrokerMayFail   \* whether a publish may hit a KafkaError

Publication == [op : {"publish"}, term : TermId]
Review      == [op : {"approve", "reject"}, cand : Candidate]

ASSUME TermBankConstants ==
  /\ TermOf \in [Candidate -> TermId]
  /\ Jobs \subseteq Publication \cup Review
  /\ NoTerm \notin Req
  /\ NoJob \notin Publication \cup Review
  /\ Candidate \cap Req = {}
  /\ NoTerm \notin Candidate
  /\ BrokerMayFail \in BOOLEAN

VARIABLES
  terms,      \* committed terms, each as the request that wrote it
  queue,      \* committed rows of review_queue: each candidate's status
  topic,      \* terms.published
  phase,      \* where each request stands
  job,        \* what it was asked
  changed,    \* requests whose session holds a status to be written
  committed,  \* history: the requests that committed, in that order
  rivals      \* history: who else had found the candidate pending by then

store   == <<terms, queue>>
history == <<committed, rivals>>
bank    == <<store, topic, phase, job, changed, history>>

ReviewStatus == {"pending", "approved", "rejected"}

Checked == {"checked", "upserted", "decided", "announced", "flushed"}
Active  == Checked \cup {"opened"}
Ended   == {"committed", "refused", "aborted"}
Phase   == Active \cup Ended \cup {"idle"}

Event == [term_id : TermId, by : Req]

BankTypeOK ==
  /\ terms \in [TermId -> Req \cup {NoTerm}]
  /\ queue \in [Candidate -> ReviewStatus \cup {"absent"}]
  /\ topic \in Seq(Event)
  /\ phase \in [Req -> Phase]
  /\ job \in [Req -> Jobs \cup {NoJob}]
  /\ \A q \in Req : phase[q] # "idle" => job[q] \in Jobs
  /\ changed \subseteq Req
  /\ committed \in Seq(Req)
  /\ rivals \in [Req -> SUBSET Req]

Reviews(q) == job[q].op \in {"approve", "reject"}

\* Mutant of Publishes: rejection is a copy of approval, upsert included.
PublishesAlways(q) == TRUE

\* Approval is publication, gated by a human decision.
Publishes(q) == job[q].op \in {"publish", "approve"}

Target(q) == IF Reviews(q) THEN TermOf[job[q].cand] ELSE job[q].term

\* Two approvals of one candidate write the same content.
Content(q) == IF Reviews(q) THEN job[q].cand ELSE q

BankInit ==
  /\ terms = [t \in TermId |-> NoTerm]
  /\ queue = [c \in Candidate |-> "absent"]
  /\ topic = << >>
  /\ phase = [q \in Req |-> "idle"]
  /\ job = [q \in Req |-> NoJob]
  /\ changed = {}
  /\ committed = << >>
  /\ rivals = [q \in Req |-> {}]

Move(q, from, to) == phase[q] = from /\ phase' = [phase EXCEPT ![q] = to]

-----------------------------------------------------------------------------
\* SubmitReviewCandidate.execute.  The id is drawn from the database's
\* sequence and the row is read by nobody before the commit: one step.
SubmitReviewCandidate(c) ==
  /\ queue[c] = "absent"
  /\ queue' = [queue EXCEPT ![c] = "pending"]
  /\ UNCHANGED <<terms, topic, phase, job, changed, history>>

\* A POST to /terms, or to a candidate's approve or reject.  Candidate ids
\* are consecutive integers: one may be asked for before it exists.
Open(q, j) ==
  /\ Move(q, "idle", "opened")
  /\ job' = [job EXCEPT ![q] = j]
  /\ UNCHANGED <<store, topic, changed, history>>

\* Mutant of Check: any candidate that exists may be decided about.
CheckExists(q) ==
  /\ Move(q, "opened", "checked")
  /\ Reviews(q)
  /\ queue[job[q].cand] # "absent"
  /\ UNCHANGED <<store, topic, job, changed, history>>

\* candidate.status == PENDING, by a SELECT that locks nothing.
Check(q) ==
  /\ Move(q, "opened", "checked")
  /\ Reviews(q)
  /\ queue[job[q].cand] = "pending"
  /\ UNCHANGED <<store, topic, job, changed, history>>

\* ValueError (404) or ReviewCandidateNotPending (409).
Refuse(q) ==
  /\ Move(q, "opened", "refused")
  /\ Reviews(q)
  /\ queue[job[q].cand] # "pending"
  /\ UNCHANGED <<store, topic, job, changed, history>>

\* Mutant of TermLocked: the upsert is left to the flush at the commit.
TermLockedLate(t) ==
  \E p \in Req : phase[p] = "flushed" /\ Publishes(p) /\ Target(p) = t

\* INSERT .. ON CONFLICT waits for a transaction that wrote the same id.
TermLocked(t) ==
  \E p \in Req :
    /\ phase[p] \in {"upserted", "decided", "announced", "flushed"}
    /\ Publishes(p)
    /\ Target(p) = t

\* terms.upsert: the row, then its children, replaced under the row's lock.
Upsert(q) ==
  /\ Move(q, IF Reviews(q) THEN "checked" ELSE "opened", "upserted")
  /\ Publishes(q)
  /\ ~TermLocked(Target(q))
  /\ UNCHANGED <<store, topic, job, changed, history>>

\* Mutant of Decision: the operation is stored, not the status.
DecisionAsAsked(q) == job[q].op

Decision(q) == IF job[q].op = "approve" THEN "approved" ELSE "rejected"

\* set_status.  The session keeps no row that nobody refers to, so the row is
\* read again; assigning the status it already has changes nothing.
SetStatus(q) ==
  /\ Move(q, IF Publishes(q) THEN "upserted" ELSE "checked", "decided")
  /\ Reviews(q)
  /\ changed' = IF queue[job[q].cand] = Decision(q) THEN changed
                                                    ELSE changed \cup {q}
  /\ UNCHANGED <<store, topic, job, history>>

\* TermPublished; a KafkaError is logged and swallowed.
Announce(q) ==
  /\ Move(q, IF Reviews(q) THEN "decided" ELSE "upserted", "announced")
  /\ Publishes(q)
  /\ \/ topic' = Append(topic, [term_id |-> Target(q), by |-> q])
     \/ BrokerMayFail /\ UNCHANGED topic
  /\ UNCHANGED <<store, job, changed, history>>

\* Mutant of CandidateLocked: a transaction that failed is never rolled back.
CandidateLockedByAborted(c) ==
  \E p \in changed : phase[p] \in {"flushed", "aborted"} /\ job[p].cand = c

CandidateLocked(c) ==
  \E p \in changed : phase[p] = "flushed" /\ job[p].cand = c

\* The commit flushes first.  The UPDATE is by id and asks nothing of the
\* status it replaces.
Flush(q) ==
  /\ Move(q, IF Publishes(q) THEN "announced" ELSE "decided", "flushed")
  /\ Reviews(q)
  /\ q \in changed => ~CandidateLocked(job[q].cand)
  /\ UNCHANGED <<store, topic, job, changed, history>>

\* __aexit__ without an exception.
Commit(q) ==
  /\ Move(q, IF Reviews(q) THEN "flushed" ELSE "announced", "committed")
  /\ terms' = IF Publishes(q) THEN [terms EXCEPT ![Target(q)] = q] ELSE terms
  /\ queue' = IF q \in changed THEN [queue EXCEPT ![job[q].cand] = Decision(q)]
                               ELSE queue
  /\ committed' = Append(committed, q)
  /\ rivals' = [rivals EXCEPT ![q] =
       {p \in Req \ {q} : /\ phase[p] \in Checked
                          /\ Reviews(p) /\ Reviews(q)
                          /\ job[p].cand = job[q].cand}]
  /\ UNCHANGED <<topic, job, changed>>

\* A database error, a disconnected client, the death of the process: the
\* transaction is rolled back and its locks are gone; an event that was sent
\* stays sent.  A process keeps nothing else, so its death is one Abort for
\* each open request.
Abort(q) ==
  /\ \E from \in Active : Move(q, from, "aborted")
  /\ UNCHANGED <<store, topic, job, changed, history>>

-----------------------------------------------------------------------------
Advance(q) ==
  /\ phase[q] \in Active
  /\ \/ Check(q)
     \/ Refuse(q)
     \/ Upsert(q)
     \/ SetStatus(q)
     \/ Announce(q)
     \/ Flush(q)
     \/ Commit(q)

BankNext ==
  \/ \E c \in Candidate : SubmitReviewCandidate(c)
  \/ \E q \in Req : Advance(q) \/ Abort(q)
  \/ \E q \in Req, j \in Jobs : Open(q, j)

BankSpec == BankInit /\ [][BankNext]_bank

\* Every await returns: the producer answers or fails, PostgreSQL grants a
\* lock when its holder's transaction has ended.
BankFairness == \A q \in Req : WF_bank(Advance(q))

FairBankSpec == BankSpec /\ BankFairness

-----------------------------------------------------------------------------
(* Properties.                                                             *)

Committed == {committed[i] : i \in DOMAIN committed}

\* Two reviews that committed, one while the other was past its check.
Overlapped(p, q) == p \in rivals[q] \/ q \in rivals[p]

\* A committed decision stands, unless it was made by reviewers who both found
\* the candidate pending: whoever looks after the first decision is refused,
\* and nobody else can overrule (ApproveReviewCandidate, RejectReviewCandidate).
DecisionsStand ==
  \A q \in Committed :
    Reviews(q) =>
      \/ queue[job[q].cand] = Decision(q)
      \/ \E p \in Committed : /\ Overlapped(p, q)
                              /\ queue[job[q].cand] = Decision(p)

\* The topic announces the versions of a term in the order they went live, as
\* the row's lock is held from the upsert over the event to the commit: the
\* last event of a committed request is never of a version already replaced
\* (PublishTerm, ApproveReviewCandidate, SQLTermRepository.upsert).
AnnouncedInOrder ==
  \A i, j \in DOMAIN committed, m, n \in DOMAIN topic :
    (/\ i < j
     /\ topic[m].by = committed[i]
     /\ topic[n].by = committed[j]
     /\ topic[m].term_id = topic[n].term_id) => m < n

\* Every request ends, in a commit, a refusal or a rollback: reviewers and
\* authors who wait for each other's locks never wait in a circle.
EveryRequestEnds ==
  \A q \in Req : phase[q] = "opened" ~> phase[q] \in Ended

LiveContent == [t \in TermId |-> IF terms[t] = NoTerm THEN NoTerm
                                                      ELSE Content(terms[t])]

\* Who is past the check on which candidate, with the transaction still open.
PastCheck ==
  {x \in Req \X Candidate :
     phase[x[1]] \in Checked /\ Reviews(x[1]) /\ job[x[1]].cand = x[2]}

\* Candidates and live terms behave like a ledger in which only a reviewer who
\* found the candidate pending decides about it, approving it and publishing
\* what it proposes are one step, nothing else makes a candidate's content
\* live, and no decision is ever taken back to "pending"
\* (ApproveReviewCandidate, RejectReviewCandidate, PublishTerm).
Ledger == INSTANCE ReviewLedger WITH
  Reviewer <- Req,
  Authored <- Req,
  status <- queue,
  live <- LiveContent,
  reading <- PastCheck
LedgerSpec == Ledger!Spec

\* What the code claims of a rejected candidate (use_cases.py: "It never
\* reaches the live term bank").  Violated: an approval that overlaps the
\* rejection has made it live.
RejectedNeverLive ==
  \A t \in TermId :
    (terms[t] # NoTerm /\ Reviews(terms[t]))
      => queue[job[terms[t]].cand] # "rejected"
=============================================================================
