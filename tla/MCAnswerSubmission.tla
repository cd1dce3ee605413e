------------------------- MODULE MCAnswerSubmission -------------------------
(***************************************************************************)
(* Small instances of AnswerSubmission.  Two keys: one the deterministic   *)
(* chain is sure about (INCORRECT, so that it costs a life) and one it     *)
(* leaves to the judge.  The constants of the domain are scaled down so    *)
(* that every terminal state of a mode is reached by a few submissions.    *)
(***************************************************************************)
EXTENDS AnswerSubmission, TLC

Sure      == "sure"
Ambiguous == "ambiguous"

MCKey == {Sure, Ambiguous}
MCEvaluate ==
  [k \in MCKey |-> [verdict     |-> IF k = Sure THEN "INCORRECT" ELSE "PARTIAL",
                    matched_via |-> "DETERMINISTIC"]]
MCJudgments == {[verdict |-> v, matched_via |-> "LLM_RUBRIC"] :
                  v \in {"CORRECT", "PARTIAL", "INCORRECT"}}

\* Everything a client may ask.
MCJobs == [round : RoundId, key : MCKey, opt_in : BOOLEAN, stream : BOOLEAN]

\* What the web client sends: it streams exactly when it opts in.  Nothing
\* about the key the chain is sure of depends on the opt-in.
WebJobs == {j \in MCJobs : j.stream = j.opt_in /\ (j.key = Sure => ~j.opt_in)}

Interchangeable == Permutations(Req) \cup Permutations(RoundId)
=============================================================================
