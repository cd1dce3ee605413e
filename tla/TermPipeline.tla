----------------------------- MODULE TermPipeline -----------------------------
(***************************************************************************)
(* The term pipeline (pipeline_service): names are extracted from four     *)
(* kinds of source, merged with a hand-written list, drafted by a language *)
(* model, validated, and submitted to content-service's review queue twice *)
(* over: as they are (loaded_candidates), and drafted anew by an agent     *)
(* that retrieves, drafts and critiques (agentic_review_candidates).       *)
(*                                                                         *)
(* Dagster is modelled from its use: a step runs once its inputs are done, *)
(* the outputs of finished steps are kept, and whoever operates it         *)
(* launches a run anew or from where it failed.  The agent's checkpoints   *)
(* are left out: every ainvoke is given a fresh input, which starts the    *)
(* graph at its entry whatever its thread holds.  So are its queries and   *)
(* drafts, which show in nothing but the text of what is submitted: no     *)
(* contract is checked between the agent and the queue.                    *)
(***************************************************************************)
EXTENDS Integers, FiniteSets, SequencesExt

CONSTANTS
  Name,
  Key,              \* normalized_term_key of each name
  Repo,             \* what the repositories may hold: see RepoType
  Draft,            \* what the language model may draft
  BOSS_ELIGIBLE_MIN_DIFFICULTY,
  BOSS_ELIGIBLE_MIN_DEFINITION_LEN,
  MAX_RETRIEVAL_PASSES,
  MaxLaunches       \* bound on runs of the job

EXPERT == 5

Shape == [difficulty : 1..EXPERT, examples : Nat, definition_length : Nat]

Extractor  == {"DEPENDENCY_MANIFEST", "ADR_HEADING", "CLASS_NAME", "DOCUMENT_OCR"}
SourceType == Extractor \cup {"CURATED"}

\* The names found in the files of each kind, in their order, with the file
\* each is in; and the hand-written terms.
RepoType ==
  [mentions : [Extractor -> Seq([name : Name, file : Nat])],
   curated : Seq([name : Name, shape : Shape])]

ASSUME PipelineConstants ==
  /\ DOMAIN Key = Name
  /\ Repo \subseteq RepoType
  /\ Draft # {} /\ Draft \subseteq Shape
  /\ BOSS_ELIGIBLE_MIN_DIFFICULTY \in Nat /\ BOSS_ELIGIBLE_MIN_DEFINITION_LEN \in Nat
  /\ MAX_RETRIEVAL_PASSES \in Nat \ {0}
  /\ MaxLaunches \in Nat \ {0}

Candidate == [name : Name, source_type : SourceType, source_file : Nat]

\* The two steps that submit to the review queue.
Submitter == {"loaded", "agentic"}
Step == Extractor \cup {"enriched", "validated"} \cup Submitter

Node == {"retrieve", "draft", "critique", "submit_review"}

VARIABLES
  repo,             \* what the steps of this launch find
  was,              \* history: what those of each launch found
  launches,
  step,             \* of the run under way
  drafted,          \* enriched_candidates: the drafts received so far
  validated,        \* what validated_candidates returned
  position,         \* Submitter: how many candidates it is done with
  ids,              \* submitted_ids
  rejected,
  node, retrieval_passes,     \* of the graph under way
  review_queue      \* external: the rows of content-service

graph == <<node, retrieval_passes>>
loops == <<position, ids, rejected>>
files == <<repo, was>>
vars  == <<files, launches, step, drafted, validated, loops, graph, review_queue>>

Submission == [candidate : Candidate, by : Submitter, launch : 1..MaxLaunches]

TypeOK ==
  /\ repo \in Repo
  /\ was \in Seq(Repo) /\ Len(was) = launches
  /\ launches \in 1..MaxLaunches
  /\ step \in [Step -> {"waiting", "done", "failed"}]
  /\ drafted \in Seq(Draft)
  /\ validated \in Seq([candidate : Candidate, term : Shape])
  /\ position \in [Submitter -> Nat]
  /\ ids \in [Submitter -> Seq(DOMAIN review_queue)]
  /\ rejected \in [Submitter -> Seq(Name)]
  /\ node \in Node
  /\ retrieval_passes \in 0..MAX_RETRIEVAL_PASSES
  /\ node # "retrieve" => retrieval_passes > 0
  /\ review_queue \in Seq(Submission)

-----------------------------------------------------------------------------
(* Extract, merge and validate.                                            *)

\* What a comprehension keeps of s: the elements at these indices, in order.
Pick(s, kept) ==
  [n \in 1..Cardinality(kept) |->
     s[CHOOSE i \in kept : Cardinality({j \in kept : j <= i}) = n]]

\* The elements of s whose keys come for the first time, as dict.setdefault has it.
Firsts(s, keys) == Pick(s, {i \in DOMAIN s : \A j \in 1..i - 1 : keys[j] # keys[i]})

KeyOf(c)    == Key[c.name]
KeysOf(cs)  == [i \in DOMAIN cs |-> KeyOf(cs[i])]

\* No key twice, after normalization.
Distinct(pairs) == IsInjective([i \in DOMAIN pairs |-> KeyOf(pairs[i].candidate)])

\* A name is kept with the first file it is found in, for each source.
extract(r, source) ==
  LET found == r.mentions[source]
      All == [i \in DOMAIN found |->
                [name |-> found[i].name, source_type |-> source, source_file |-> found[i].file]]
  IN  Firsts(All, [i \in DOMAIN All |-> All[i].name])

dependency_manifest_candidates(r) == extract(r, "DEPENDENCY_MANIFEST")
adr_heading_candidates(r)         == extract(r, "ADR_HEADING")
class_name_candidates(r)          == extract(r, "CLASS_NAME")
document_ocr_candidates(r)        == extract(r, "DOCUMENT_OCR")

confidence_rank(source) ==
  CASE source = "CURATED"             -> 0
    [] source = "DEPENDENCY_MANIFEST" -> 1
    [] source = "ADR_HEADING"         -> 2
    [] source = "CLASS_NAME"          -> 2
    [] source = "DOCUMENT_OCR"        -> 3

curated_pairs(r) ==
  [i \in DOMAIN r.curated |->
     [candidate |-> [name |-> r.curated[i].name, source_type |-> "CURATED",
                     source_file |-> 0],
      term |-> r.curated[i].shape]]

\* The extracted candidates, the most trusted first; sorted() is stable.
ByTrust(r) ==
  LET all == dependency_manifest_candidates(r) \o adr_heading_candidates(r)
               \o class_name_candidates(r) \o document_ocr_candidates(r)
      Ranked(n) == Pick(all, {i \in DOMAIN all : confidence_rank(all[i].source_type) = n})
  IN  Ranked(1) \o Ranked(2) \o Ranked(3)

\* Mutant of ToDraft: what is on the curated list is drafted as well.
ToDraftAll == [r \in Repo |-> Firsts(ByTrust(r), KeysOf(ByTrust(r)))]

\* What the language model is asked for, in this order.
ToDraft ==
  [r \in Repo |->
     LET named   == Firsts(ByTrust(r), KeysOf(ByTrust(r)))
         curated == {Key[r.curated[i].name] : i \in DOMAIN r.curated}
     IN  Pick(named, {i \in DOMAIN named : KeyOf(named[i]) \notin curated})]

\* What enriched_candidates returns.
Enriched ==
  curated_pairs(repo)
    \o [i \in DOMAIN drafted |-> [candidate |-> ToDraft[repo][i], term |-> drafted[i]]]

validate_term(shape) ==
  shape.difficulty >= BOSS_ELIGIBLE_MIN_DIFFICULTY /\ shape.examples > 0
    => shape.definition_length >= BOSS_ELIGIBLE_MIN_DEFINITION_LEN

Valid == Pick(Enriched, {i \in DOMAIN Enriched : validate_term(Enriched[i].term)})

\* Of the term's own name, which is the candidate's.
validate_batch(pairs) ==
  /\ Distinct(pairs)
  /\ 2 * Cardinality({i \in DOMAIN pairs : pairs[i].term.difficulty = EXPERT}) <= Len(pairs)

-----------------------------------------------------------------------------
(* The job.                                                                *)

Inputs(s) ==
  CASE s \in Extractor -> {}
    [] s = "enriched"         -> Extractor
    [] s = "validated"        -> {"enriched"}
    [] s \in Submitter        -> {"validated"}

Running(s) == step[s] = "waiting" /\ \A i \in Inputs(s) : step[i] = "done"

Ended == \A s \in Step : ~Running(s)

\* The input of ainvoke: every candidate's graph starts afresh.
FreshGraph ==
  /\ node' = "retrieve" /\ retrieval_passes' = 0

Init ==
  /\ repo \in Repo /\ was = <<repo>>
  /\ launches = 1
  /\ step = [s \in Step |-> "waiting"]
  /\ drafted = << >> /\ validated = << >>
  /\ position = [s \in Submitter |-> 0]
  /\ ids = [s \in Submitter |-> << >>]
  /\ rejected = [s \in Submitter |-> << >>]
  /\ node = "retrieve" /\ retrieval_passes = 0
  /\ review_queue = << >>

Extract(s) ==
  /\ s \in Extractor /\ Running(s)
  /\ step' = [step EXCEPT ![s] = "done"]
  /\ UNCHANGED <<files, launches, drafted, validated, loops, graph, review_queue>>

\* The next draft of enriched_candidates, or its end.  A name twice on the
\* curated list is a Failure before the first draft.
Enrich ==
  /\ Running("enriched")
  /\ IF ~Distinct(curated_pairs(repo))
     THEN step' = [step EXCEPT !["enriched"] = "failed"] /\ UNCHANGED drafted
     ELSE IF Len(drafted) < Len(ToDraft[repo])
     THEN (\E d \in Draft : drafted' = Append(drafted, d)) /\ UNCHANGED step
     ELSE step' = [step EXCEPT !["enriched"] = "done"] /\ UNCHANGED drafted
  /\ UNCHANGED <<files, launches, validated, loops, graph, review_queue>>

Validate ==
  /\ Running("validated")
  /\ IF validate_batch(Valid)
     THEN step' = [step EXCEPT !["validated"] = "done"] /\ validated' = Valid
     ELSE step' = [step EXCEPT !["validated"] = "failed"] /\ UNCHANGED validated
  /\ UNCHANGED <<files, launches, drafted, loops, graph, review_queue>>

\* The candidate submitter s is at.
Current(s) == validated[position[s] + 1].candidate

Queued(s) ==
  review_queue' = Append(review_queue, [candidate |-> Current(s), by |-> s, launch |-> launches])

Advance(s) == position' = [position EXCEPT ![s] = @ + 1]

\* The row is in the queue, and its id comes back.
Accepted(s) ==
  /\ Queued(s) /\ Advance(s)
  /\ ids' = [ids EXCEPT ![s] = Append(@, Len(review_queue) + 1)]
  /\ UNCHANGED <<step, rejected>>

\* Mutant of Rejected: a rejection ends the loop.
RejectedBreaks(s) ==
  /\ position' = [position EXCEPT ![s] = Len(validated)]
  /\ rejected' = [rejected EXCEPT ![s] = Append(@, Current(s).name)]
  /\ UNCHANGED <<step, ids, review_queue>>

\* ReviewCandidateRejected: any answer with a status of 400 or more.
Rejected(s) ==
  /\ Advance(s)
  /\ rejected' = [rejected EXCEPT ![s] = Append(@, Current(s).name)]
  /\ UNCHANGED <<step, ids, review_queue>>

\* The row is in the queue, and the answer never comes: httpx raises.
Unanswered(s) ==
  /\ Queued(s)
  /\ step' = [step EXCEPT ![s] = "failed"]
  /\ UNCHANGED loops

\* submit_for_review.
Submit(s) == Accepted(s) \/ Rejected(s) \/ Unanswered(s)

AtEnd(s) == Running(s) /\ position[s] = Len(validated)
Busy(s)  == Running(s) /\ position[s] < Len(validated)

Finish(s) ==
  /\ AtEnd(s)
  /\ step' = [step EXCEPT ![s] = "done"]
  /\ UNCHANGED <<files, launches, drafted, validated, loops, graph, review_queue>>

Load ==
  /\ Busy("loaded")
  /\ Submit("loaded")
  /\ UNCHANGED <<files, launches, drafted, validated, graph>>

-----------------------------------------------------------------------------
(* The agent's graph.                                                      *)

AtNode(n) ==
  /\ Busy("agentic") /\ node = n
  /\ UNCHANGED <<files, launches, drafted, validated>>

\* Mutant of retrieve: the passes are not counted.
retrieveUncounted ==
  /\ AtNode("retrieve")
  /\ node' = "draft"
  /\ UNCHANGED <<retrieval_passes, step, loops, review_queue>>

\* A search that fails finds nothing.
retrieve ==
  /\ AtNode("retrieve")
  /\ retrieval_passes' = retrieval_passes + 1
  /\ node' = "draft"
  /\ UNCHANGED <<step, loops, review_queue>>

write_draft ==
  /\ AtNode("draft")
  /\ node' = "critique"
  /\ UNCHANGED <<retrieval_passes, step, loops, review_queue>>

\* What the critic may say: a rejection without a new query is an acceptance.
AgenticCritic == {"submit_review", "retrieve"}

\* Mutant of critique: one pass too many.
critiqueOnceMore ==
  /\ AtNode("critique")
  /\ node' \in IF retrieval_passes > MAX_RETRIEVAL_PASSES THEN {"submit_review"}
               ELSE AgenticCritic
  /\ UNCHANGED <<retrieval_passes, step, loops, review_queue>>

\* The draft of the last pass is accepted unread.
critique ==
  /\ AtNode("critique")
  /\ node' \in IF retrieval_passes >= MAX_RETRIEVAL_PASSES THEN {"submit_review"}
               ELSE AgenticCritic
  /\ UNCHANGED <<retrieval_passes, step, loops, review_queue>>

submit_review ==
  /\ AtNode("submit_review")
  /\ Submit("agentic")
  /\ FreshGraph

-----------------------------------------------------------------------------
(* Failures and launches.                                                  *)

\* An exception no step catches: a file or a draft that does not parse, a call
\* that does not get through; or the end of the process.
Fail(s) ==
  /\ Running(s)
  /\ step' = [step EXCEPT ![s] = "failed"]
  /\ UNCHANGED <<files, launches, drafted, validated, loops, graph, review_queue>>

\* What the files hold by now: what steps outside S found is in their outputs.
Edited(S) ==
  {r \in Repo : /\ \A s \in Extractor \ S : r.mentions[s] = repo.mentions[s]
                /\ "enriched" \in S \/ r.curated = repo.curated}

\* What the steps of S had in memory or had returned is dropped.
Relaunch(S) ==
  /\ Ended /\ launches < MaxLaunches
  /\ launches' = launches + 1
  /\ step' = [s \in Step |-> IF s \in S THEN "waiting" ELSE step[s]]
  /\ drafted' = IF "enriched" \in S THEN << >> ELSE drafted
  /\ validated' = IF "validated" \in S THEN << >> ELSE validated
  /\ position' = [s \in Submitter |-> IF s \in S THEN 0 ELSE position[s]]
  /\ ids' = [s \in Submitter |-> IF s \in S THEN << >> ELSE ids[s]]
  /\ rejected' = [s \in Submitter |-> IF s \in S THEN << >> ELSE rejected[s]]
  /\ FreshGraph
  /\ repo' \in Edited(S) /\ was' = Append(was, repo')
  /\ UNCHANGED review_queue

\* From where the run failed, or from the start.
RelaunchFailed == (\E s \in Step : step[s] = "failed") /\ Relaunch({s \in Step : step[s] # "done"})
RelaunchAll    == Relaunch(Step)

\* One step of each process of the job.
Progress(s) ==
  \/ Extract(s)
  \/ s = "enriched"  /\ Enrich
  \/ s = "validated" /\ Validate
  \/ s = "loaded"    /\ Load
  \/ s = "agentic"   /\ (retrieve \/ write_draft \/ critique \/ submit_review)
  \/ s \in Submitter /\ Finish(s)

Next ==
  \/ \E s \in Step : Progress(s) \/ Fail(s)
  \/ RelaunchFailed \/ RelaunchAll

\* While steps run, one of them goes on: no call waits for ever (httpx and the
\* Anthropic client have timeouts).  Nobody has to launch a run again.
Fairness == WF_vars(\E s \in Step : Progress(s))

Spec == Init /\ [][Next]_vars /\ Fairness

-----------------------------------------------------------------------------
(* Properties.                                                             *)

\* Every run of the job ends, whatever the critic says (MAX_RETRIEVAL_PASSES).
EveryRunEnds == []<>Ended

\* The sources that name a term of key k, in any spelling.
Naming(r, k) ==
  {s \in Extractor : \E m \in ToSet(r.mentions[s]) : Key[m.name] = k}
    \cup {s \in {"CURATED"} : \E c \in ToSet(r.curated) : Key[c.name] = k}

\* What a launch puts into the queue has the provenance of the most trusted source
\* that named the term in the files this launch read, also when some steps kept
\* what they found in an earlier one (enriched_candidates: "ties broken by explicit
\* confidence rank").  And while the files stay as they are, a term is there under
\* one name and provenance, however often and on whichever way it was submitted.
MostTrusted ==
  \A e, f \in ToSet(review_queue) :
    LET k == KeyOf(e.candidate) IN
      /\ \A source \in Naming(was[e.launch], k) :
           confidence_rank(e.candidate.source_type) <= confidence_rank(source)
      /\ KeyOf(f.candidate) = k /\ was[f.launch] = was[e.launch] =>
           f.candidate = e.candidate

\* A step that is done has submitted every validated term, except what was
\* rejected, and nothing twice; the queue has a term twice from one step only
\* when the step was launched again (loaded_candidates, submit_review).
EachOnce ==
  /\ \A s \in Submitter :
       step[s] = "done" =>
         /\ {validated[i].candidate.name : i \in DOMAIN validated}
              = {review_queue[i].candidate.name : i \in ToSet(ids[s])} \cup ToSet(rejected[s])
         /\ Len(ids[s]) + Len(rejected[s]) = Len(validated)
  /\ IsInjective(review_queue)
=============================================================================
