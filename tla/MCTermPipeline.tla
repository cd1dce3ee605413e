--------------------------- MODULE MCTermPipeline ---------------------------
(***************************************************************************)
(* A small instance of TermPipeline: three names, two of which are the     *)
(* same term, in repositories where the sources disagree.                  *)
(***************************************************************************)
EXTENDS TermPipeline

CONSTANTS TCP_IP, TcpIp, WAL

MCKey == [n \in {TCP_IP, TcpIp, WAL} |-> IF n = WAL THEN 2 ELSE 1]

Plain  == [difficulty |-> 2, examples |-> 0, definition_length |-> 1]
Thin   == [difficulty |-> 3, examples |-> 1, definition_length |-> 1]
Expert == [difficulty |-> 5, examples |-> 1, definition_length |-> 2]

MCDraft == {Plain, Thin, Expert}

In(name, file) == [name |-> name, file |-> file]

Mentions(manifest, adr, class, ocr) ==
  [s \in Extractor |->
     CASE s = "DEPENDENCY_MANIFEST" -> manifest
       [] s = "ADR_HEADING"         -> adr
       [] s = "CLASS_NAME"          -> class
       [] s = "DOCUMENT_OCR"        -> ocr]

\* A source that repeats itself; a curated term that is found as well, thin or
\* not; a curated list that repeats itself, until somebody mends it.
MCRepo ==
  LET Found == Mentions(<<In(WAL, 1)>>, << >>, <<In(TcpIp, 1)>>, << >>) IN
  {[mentions |-> Mentions(<< >>, <<In(TcpIp, 1), In(TcpIp, 2)>>,
                          <<In(TCP_IP, 1), In(WAL, 1)>>, <<In(WAL, 1)>>),
    curated |-> << >>],
   [mentions |-> Mentions(<<In(TcpIp, 1)>>, << >>, << >>, <<In(WAL, 1), In(TCP_IP, 1)>>),
    curated |-> <<[name |-> TCP_IP, shape |-> Thin]>>],
   [mentions |-> Found, curated |-> <<[name |-> TCP_IP, shape |-> Plain]>>],
   [mentions |-> Found, curated |-> <<[name |-> TCP_IP, shape |-> Plain],
                                      [name |-> TcpIp, shape |-> Plain]>>]}
=============================================================================
