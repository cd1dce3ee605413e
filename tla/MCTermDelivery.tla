--------------------------- MODULE MCTermDelivery ---------------------------
(***************************************************************************)
(* Small instances of TermDelivery: authors publish versions of one term   *)
(* while it is looked up.                                                  *)
(***************************************************************************)
EXTENDS TermDelivery

CONSTANT t1

MCTermOf == [c \in Candidate |-> t1]
MCJobs   == Publication
=============================================================================
