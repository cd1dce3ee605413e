----------------------------- MODULE MCTermBank -----------------------------
(***************************************************************************)
(* Small instances of TermBank: one term, and candidates that all propose  *)
(* content for it, so that authors and reviewers meet on one row.          *)
(***************************************************************************)
EXTENDS TermBank

CONSTANT t1

MCTermOf == [c \in Candidate |-> t1]
MCJobs   == Publication \cup Review
=============================================================================
