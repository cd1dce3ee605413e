---------------------------- MODULE MCConsumers ----------------------------
(***************************************************************************)
(* Small instances of Consumers: one member that is restarted, and another *)
(* that meets it on the row of a term.                                     *)
(***************************************************************************)
EXTENDS Consumers

CONSTANTS p1, Messages1, Messages2, Restarts

MCMaxMessages == [p \in Partition |-> IF p = p1 THEN Messages1 ELSE Messages2]
MCMaxRestarts == [p \in Partition |-> IF p = p1 THEN Restarts ELSE 0]
=============================================================================
