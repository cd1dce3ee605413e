------------------------------ MODULE RoundLog ------------------------------
(***************************************************************************)
(* What a round promises, with requests, transactions and caches out of    *)
(* sight (domain/round.py: "the append-only log that ties many outcomes to *)
(* one player's run"): a round is opened in some mode, its log only grows, *)
(* one answer at a time, and never beyond what the mode allows.            *)
(***************************************************************************)
EXTENDS GameRound

CONSTANTS RoundId, NoRound

VARIABLE log

Init == log = [r \in RoundId |-> NoRound]

\* A round is created in any mode, with nothing in it.
Open(r) ==
  /\ log[r] = NoRound
  /\ log'[r] \in Round
  /\ log'[r].answers = << >>
  /\ log' = [log EXCEPT ![r] = log'[r]]

\* One answer is appended; an id nobody created becomes a Classic round.
Extend(r) ==
  /\ log'[r] \in Round
  /\ LegalRound(log'[r])
  /\ log'[r].answers # << >>
  /\ LET base == IF log[r] = NoRound THEN ImplicitRound ELSE log[r]
         new  == log'[r].answers
     IN log' = [log EXCEPT ![r] = record(base, new[Len(new)])]

Next == \E r \in RoundId : Open(r) \/ Extend(r)

Spec == Init /\ [][Next]_log
=============================================================================
