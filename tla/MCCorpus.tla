------------------------------ MODULE MCCorpus ------------------------------
(***************************************************************************)
(* Small instances of Corpus: documents that come alone or together, and   *)
(* shrink when they are chunked anew.                                      *)
(***************************************************************************)
EXTENDS Corpus

CONSTANTS a, b

Both    == [s \in {a, b} |-> 1]
Long    == [s \in {a} |-> 2]
MCBatches == {Both, Long}
MCChoices == <<{Both}, {Both, Long}, {Both}>>
=============================================================================
