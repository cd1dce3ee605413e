---------------------------- MODULE ReviewLedger ----------------------------
(***************************************************************************)
(* What the term bank promises its editors, with transactions, locks and   *)
(* events out of sight (domain/review.py): a candidate is queued, and then *)
(* decided about, by reviewers who each found it pending; once the first   *)
(* decision is there nobody else can begin a review.  What a candidate     *)
(* proposes goes live in the very step that approves it; all other content *)
(* is published by its author.                                             *)
(***************************************************************************)
CONSTANTS
  TermId, Candidate, Reviewer,
  TermOf,    \* the term a candidate proposes content for
  Authored,  \* content published directly
  NoTerm

VARIABLES
  status,   \* what has become of each candidate
  live,     \* the content players see
  reading   \* who has found which candidate pending, and not answered yet

Init ==
  /\ status = [c \in Candidate |-> "absent"]
  /\ live = [t \in TermId |-> NoTerm]
  /\ reading = {}

QueueFor(c) ==
  /\ status[c] = "absent"
  /\ status' = [status EXCEPT ![c] = "pending"]
  /\ UNCHANGED <<live, reading>>

TakeUp(r, c) ==
  /\ status[c] = "pending"
  /\ reading' = reading \cup {<<r, c>>}
  /\ UNCHANGED <<status, live>>

PutBack(r, c) ==
  /\ reading' = reading \ {<<r, c>>}
  /\ UNCHANGED <<status, live>>

\* Reviewers who took a candidate up before its first decision may overrule each
\* other, and one who comes to the decision that is there leaves it alone.
Decide(r, c, decision) ==
  /\ <<r, c>> \in reading
  /\ reading' = reading \ {<<r, c>>}
  /\ \/ status' = [status EXCEPT ![c] = decision]
     \/ status[c] \in {"approved", "rejected"} /\ UNCHANGED status

Approve(r, c) ==
  /\ Decide(r, c, "approved")
  /\ live' = [live EXCEPT ![TermOf[c]] = c]

Reject(r, c) == Decide(r, c, "rejected") /\ UNCHANGED live

Author(t) ==
  /\ \E a \in Authored : live' = [live EXCEPT ![t] = a]
  /\ UNCHANGED <<status, reading>>

Next ==
  \/ \E c \in Candidate : QueueFor(c)
  \/ \E r \in Reviewer, c \in Candidate :
       TakeUp(r, c) \/ PutBack(r, c) \/ Approve(r, c) \/ Reject(r, c)
  \/ \E t \in TermId : Author(t)

Spec == Init /\ [][Next]_<<status, live, reading>>
=============================================================================
