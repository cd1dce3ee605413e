------------------------------- MODULE Corpus -------------------------------
(***************************************************************************)
(* The document chunks of content-service: ingestion, which replaces all   *)
(* chunks of the documents in a batch, and the embedding of what has no    *)
(* vector yet (application/use_cases.py, infrastructure/                   *)
(* sql_repositories.py, database.py).                                      *)
(*                                                                         *)
(* Each request has a transaction of its own at READ COMMITTED.  A DELETE  *)
(* looks for its rows once, when it starts, and then takes them in some    *)
(* order, waiting for whoever has written one and skipping those gone by   *)
(* then.  An INSERT waits for whoever has written the same key, and fails  *)
(* if the key is taken.  When transactions wait for each other in a circle *)
(* the database makes one of them fail.                                    *)
(*                                                                         *)
(* What a chunk says is named by the ingestion that brought it and by its  *)
(* place in the document; a vector is named by what it was computed from.  *)
(***************************************************************************)
EXTENDS Naturals, FiniteSets

CONSTANTS
  Source,       \* documents
  MaxIngests,   \* bound on ingestion requests
  Pass,         \* coroutines that embed, one batch after the other
  Batches,      \* for each batch the pipeline may post: chunks by document
  Choices,      \* bound: which of them each request may bring
  BatchSize,    \* EMBED_BATCH_SIZE
  MaxFaults,    \* bound on ingestions that abort and passes that fail
  NoVector

Ingest  == 1..MaxIngests  \* ingestion requests, in the order of their arrival
Request == Ingest \cup Pass

\* The documents of one request, each with its number of chunks.
IsBatch(b) ==
  /\ DOMAIN b \subseteq Source /\ DOMAIN b # {} /\ IsFiniteSet(DOMAIN b)
  /\ \A s \in DOMAIN b : b[s] \in Nat \ {0}

ASSUME CorpusConstants ==
  /\ \A b \in Batches : IsBatch(b)
  /\ Choices \in [Ingest -> SUBSET Batches]
  /\ BatchSize \in Nat \ {0}
  /\ {MaxIngests, MaxFaults} \subseteq Nat
  /\ Ingest \cap Pass = {}

VARIABLES
  document_chunks,  \* committed rows
  next_id,          \* the sequence the rows' ids are drawn from
  phase,            \* where each request stands
  batch,            \* what an ingestion was asked to store
  to_delete,        \* documents it has not dealt with
  victims,          \* ids its DELETE has found and not taken yet
  deleted,          \* ids it has deleted, uncommitted
  inserted,         \* rows it has inserted, uncommitted
  pending,          \* rows a pass has still to embed
  embedded,         \* vectors it has written, uncommitted
  faults,
  latest            \* history: who last replaced each document

ingestion == <<batch, to_delete, victims, deleted, inserted>>
passes    == <<pending, embedded>>
vars      == <<document_chunks, next_id, phase, ingestion, passes, faults, latest>>

Text == [by : Ingest, source_file : Source, chunk_index : Nat]
Row  == [id : Nat, text : Text, embedding : Text \cup {NoVector}]

Key(row) == <<row.text.source_file, row.text.chunk_index>>
Keys(b)  == UNION {{s} \X (0..(b[s] - 1)) : s \in DOMAIN b}

Open  == {"deleting", "inserted", "embedding"}
Ended == {"committed", "conflict", "aborted"}

NoBatch == [s \in {} |-> 0]

TypeOK ==
  /\ document_chunks \subseteq Row
  /\ \A r, u \in document_chunks : r # u => r.id # u.id /\ Key(r) # Key(u)
  /\ \A r \in document_chunks : r.id < next_id
  /\ next_id \in Nat
  /\ phase \in [Request -> Open \cup Ended \cup {"idle"}]
  /\ batch \in [Ingest -> Batches \cup {NoBatch}]
  /\ to_delete \in [Ingest -> SUBSET Source]
  /\ victims \in [Ingest -> SUBSET Nat]
  /\ deleted \in [Ingest -> SUBSET Nat]
  /\ inserted \in [Ingest -> SUBSET Row]
  /\ pending \in [Pass -> SUBSET Row]
  /\ embedded \in [Pass -> SUBSET [id : Nat, vector : Text]]
  /\ faults \in 0..MaxFaults
  /\ latest \subseteq Source \X Ingest

Init ==
  /\ document_chunks = {}
  /\ next_id = 0
  /\ phase = [r \in Request |-> "idle"]
  /\ batch = [q \in Ingest |-> NoBatch]
  /\ to_delete = [q \in Ingest |-> {}]
  /\ victims = [q \in Ingest |-> {}]
  /\ deleted = [q \in Ingest |-> {}]
  /\ inserted = [q \in Ingest |-> {}]
  /\ pending = [p \in Pass |-> {}]
  /\ embedded = [p \in Pass |-> {}]
  /\ faults = 0
  /\ latest = {}

Move(r, from, to) == phase[r] = from /\ phase' = [phase EXCEPT ![r] = to]

Fault == faults < MaxFaults /\ faults' = faults + 1

RowsOf(s) == {r \in document_chunks : r.text.source_file = s}

\* Rows written by a transaction that is still open.
Written(r) == IF r \in Ingest THEN deleted[r] ELSE {e.id : e \in embedded[r]}

LockedFor(r, id) == \E o \in Request \ {r} : id \in Written(o)

-----------------------------------------------------------------------------
(* IngestDocumentChunks.                                                   *)

Post(q, b) ==
  /\ \A o \in 1..(q - 1) : phase[o] # "idle"
  /\ b \in Choices[q]
  /\ Move(q, "idle", "deleting")
  /\ batch' = [batch EXCEPT ![q] = b]
  /\ to_delete' = [to_delete EXCEPT ![q] = DOMAIN b]
  /\ UNCHANGED <<document_chunks, next_id, victims, deleted, inserted, passes, faults, latest>>

\* Mutant of DeleteBySource: chunks are merged one by one.
DeleteReplaced(q, s) ==
  /\ phase[q] = "deleting" /\ victims[q] = {}
  /\ s \in to_delete[q]
  /\ to_delete' = [to_delete EXCEPT ![q] = @ \ {s}]
  /\ victims' = [victims EXCEPT ![q] =
                    {r.id : r \in {r \in RowsOf(s) : Key(r) \in Keys(batch[q])}}]
  /\ UNCHANGED <<document_chunks, next_id, phase, batch, deleted, inserted, passes,
                 faults, latest>>

\* delete_by_source_file, for the documents in the order of a Python set.
DeleteBySource(q, s) ==
  /\ phase[q] = "deleting" /\ victims[q] = {}
  /\ s \in to_delete[q]
  /\ to_delete' = [to_delete EXCEPT ![q] = @ \ {s}]
  /\ victims' = [victims EXCEPT ![q] = {r.id : r \in RowsOf(s)}]
  /\ UNCHANGED <<document_chunks, next_id, phase, batch, deleted, inserted, passes,
                 faults, latest>>

DeleteRow(q, id) ==
  /\ phase[q] = "deleting" /\ id \in victims[q]
  /\ ~LockedFor(q, id)
  /\ victims' = [victims EXCEPT ![q] = @ \ {id}]
  /\ deleted' = IF \E r \in document_chunks : r.id = id
                THEN [deleted EXCEPT ![q] = @ \cup {id}] ELSE deleted
  /\ UNCHANGED <<document_chunks, next_id, phase, batch, to_delete, inserted, passes,
                 faults, latest>>

AllDeleted(q) == phase[q] = "deleting" /\ to_delete[q] = {} /\ victims[q] = {}

\* Keys of another transaction's inserted or deleted rows.
KeysOf(o) ==
  {Key(r) : r \in inserted[o] \cup {r \in document_chunks : r.id \in deleted[o]}}

InsertWaitsFor(q, o) == o # q /\ Keys(batch[q]) \cap KeysOf(o) # {}

\* Mutant of KeyTaken: the table has no unique constraint.
NeverTaken(q) == FALSE

\* uq_document_chunks_source_file_index.
KeyTaken(q) ==
  \E r \in document_chunks :
    Key(r) \in Keys(batch[q]) /\ \A o \in Ingest : r.id \notin deleted[o]

\* add_batch: the rows get consecutive ids in the order of the batch.
AddBatch(q) ==
  /\ AllDeleted(q)
  /\ \A o \in Ingest : ~InsertWaitsFor(q, o)
  /\ ~KeyTaken(q)
  /\ Move(q, "deleting", "inserted")
  /\ LET n == Cardinality(Keys(batch[q]))
     IN  /\ next_id' = next_id + n
         /\ \E place \in [Keys(batch[q]) -> 0..(n - 1)] :
              /\ \A k, l \in Keys(batch[q]) :
                   (k[1] = l[1] /\ k[2] < l[2]) => place[k] < place[l]
              /\ \A k, l \in Keys(batch[q]) : k # l => place[k] # place[l]
              /\ inserted' = [inserted EXCEPT ![q] =
                   {[id |-> next_id + place[k],
                     text |-> [by |-> q, source_file |-> k[1], chunk_index |-> k[2]],
                     embedding |-> NoVector] : k \in Keys(batch[q])}]
  /\ UNCHANGED <<document_chunks, batch, to_delete, victims, deleted, passes, faults, latest>>

\* Mutant of Close: the session is not closed, and its transaction is left open.
CloseForgotten(q) == UNCHANGED <<batch, to_delete, victims, deleted, inserted>>

\* The locals and the locks of an ingestion are gone.
Close(q) ==
  /\ to_delete' = [to_delete EXCEPT ![q] = {}]
  /\ victims' = [victims EXCEPT ![q] = {}]
  /\ deleted' = [deleted EXCEPT ![q] = {}]
  /\ inserted' = [inserted EXCEPT ![q] = {}]
  /\ UNCHANGED batch

\* IntegrityError, a 500 to the client.
UniqueViolation(q) ==
  /\ AllDeleted(q)
  /\ KeyTaken(q)
  /\ Move(q, "deleting", "conflict")
  /\ Close(q)
  /\ UNCHANGED <<document_chunks, next_id, passes, faults, latest>>

Commit(q) ==
  /\ Move(q, "inserted", "committed")
  /\ document_chunks' =
       {r \in document_chunks : r.id \notin deleted[q]} \cup inserted[q]
  /\ latest' = {l \in latest : l[1] \notin DOMAIN batch[q]}
                 \cup ((DOMAIN batch[q]) \X {q})
  /\ Close(q)
  /\ UNCHANGED <<next_id, passes, faults>>

\* The client leaves, the process dies, the database fails.
Abort(q) ==
  /\ Fault
  /\ \E from \in {"deleting", "inserted"} : Move(q, from, "aborted")
  /\ Close(q)
  /\ UNCHANGED <<document_chunks, next_id, passes, latest>>

-----------------------------------------------------------------------------
(* EmbedDocumentChunks.                                                    *)

\* Mutant of unembedded: the rows that have a vector are taken again.
AnyRow == document_chunks

unembedded == {r \in document_chunks : r.embedding = NoVector}

\* What a search by similarity ranks.
searchable == {r \in document_chunks : r.embedding # NoVector}

FirstRows(rows, n) ==
  {r \in rows : Cardinality({u \in rows : u.id < r.id}) < n}

\* Up to BatchSize rows, in the order of their ids.  With nothing to do the pass is
\* over at once.
Select(p) ==
  /\ Move(p, "idle", "embedding")
  /\ unembedded # {}
  /\ pending' = [pending EXCEPT ![p] = FirstRows(unembedded, BatchSize)]
  /\ UNCHANGED <<document_chunks, next_id, ingestion, embedded, faults, latest>>

\* Mutant of SetEmbedding: the row is addressed by its place in the document.
SetEmbeddingByKey(p, r) ==
  /\ phase[p] = "embedding"
  /\ r \in pending[p] /\ \A u \in pending[p] : r.id <= u.id
  /\ ~LockedFor(p, r.id)
  /\ pending' = [pending EXCEPT ![p] = @ \ {r}]
  /\ embedded' = [embedded EXCEPT ![p] =
       @ \cup {[id |-> u.id, vector |-> r.text] :
                  u \in {u \in document_chunks : Key(u) = Key(r)}}]
  /\ UNCHANGED <<document_chunks, next_id, phase, ingestion, faults, latest>>

\* The vector for the row of that id, if it is still there.
set_embedding(id, vector) ==
  {[id |-> u.id, vector |-> vector] : u \in {u \in document_chunks : u.id = id}}

\* embed, which takes its time, and set_embedding of the next row.
SetEmbedding(p, r) ==
  /\ phase[p] = "embedding"
  /\ r \in pending[p] /\ \A u \in pending[p] : r.id <= u.id
  /\ ~LockedFor(p, r.id)
  /\ pending' = [pending EXCEPT ![p] = @ \ {r}]
  /\ embedded' = [embedded EXCEPT ![p] = @ \cup set_embedding(r.id, r.text)]
  /\ UNCHANGED <<document_chunks, next_id, phase, ingestion, faults, latest>>

ClosePass(p) ==
  /\ Move(p, "embedding", "idle")
  /\ pending' = [pending EXCEPT ![p] = {}]
  /\ embedded' = [embedded EXCEPT ![p] = {}]

CommitPass(p) ==
  /\ pending[p] = {}
  /\ ClosePass(p)
  /\ document_chunks' = {r \in document_chunks : r.id \notin Written(p)} \cup
       {[x[1] EXCEPT !.embedding = x[2].vector] :
          x \in {x \in document_chunks \X embedded[p] : x[1].id = x[2].id}}
  /\ UNCHANGED <<next_id, ingestion, faults, latest>>

\* The embedder or the database fails, and the batch with it.
FailPass(p) ==
  /\ Fault
  /\ ClosePass(p)
  /\ UNCHANGED <<document_chunks, next_id, ingestion, latest>>

-----------------------------------------------------------------------------
(* The database's deadlock detection.                                      *)

NextRows(p) == {r.id : r \in {r \in pending[p] : \A u \in pending[p] : r.id <= u.id}}

WaitsFor(r, o) ==
  \/ r \in Ingest /\ victims[r] \cap Written(o) # {} /\ o # r
  \/ r \in Ingest /\ o \in Ingest /\ AllDeleted(r) /\ InsertWaitsFor(r, o)
  \/ r \in Pass /\ NextRows(r) \cap Written(o) # {} /\ o # r

\* r waits, over any number of steps, for itself.
InCircle(r) ==
  /\ \E o \in Request : WaitsFor(r, o)
  /\ \A s \in SUBSET Request :
       (/\ \A o \in Request : WaitsFor(r, o) => o \in s
        /\ \A x \in s, y \in Request : WaitsFor(x, y) => y \in s) => r \in s

DeadlockVictim(r) ==
  /\ InCircle(r)
  /\ IF r \in Ingest
     THEN Move(r, "deleting", "aborted") /\ Close(r) /\ UNCHANGED passes
     ELSE ClosePass(r) /\ UNCHANGED ingestion
  /\ UNCHANGED <<document_chunks, next_id, faults, latest>>

-----------------------------------------------------------------------------
Advance(r) ==
  \/ /\ r \in Ingest
     /\ \/ \E s \in Source : DeleteBySource(r, s)
        \/ \E id \in victims[r] : DeleteRow(r, id)
        \/ AddBatch(r) \/ UniqueViolation(r) \/ Commit(r)
  \/ /\ r \in Pass
     /\ \/ Select(r)
        \/ \E row \in pending[r] : SetEmbedding(r, row)
        \/ CommitPass(r)
  \/ DeadlockVictim(r)

Next ==
  \/ \E q \in Ingest, b \in Batches : Post(q, b)
  \/ \E r \in Request : Advance(r)
  \/ \E q \in Ingest : Abort(q)
  \/ \E p \in Pass : FailPass(p)

Spec == Init /\ [][Next]_vars

\* The embedder returns, and as long as there is something to embed somebody asks
\* for a pass.  The database breaks deadlocks, and whoever waits for a lock gets it
\* before those who come later.
Fairness ==
  /\ WF_vars(\E p \in Pass : Advance(p))
  /\ SF_vars(\E q \in Ingest : Advance(q))

FairSpec == Spec /\ Fairness

-----------------------------------------------------------------------------
(* Properties.                                                             *)

ChunksOf(q, s) == {[by |-> q, source_file |-> s, chunk_index |-> i] : i \in 0..(batch[q][s] - 1)}

\* "A document's chunk set is fully superseded, not merged chunk-by-chunk"
\* (IngestDocumentChunks): whoever overlaps, a document's chunks are those of the
\* ingestion that last committed it, all of them and no others.  A DELETE that has
\* waited misses the rows its rival put in; the INSERT then meets their chunk 0.
FullySuperseded ==
  \A s \in Source :
    {r.text : r \in RowsOf(s)} = UNION {ChunksOf(l[2], s) : l \in {l \in latest : l[1] = s}}

\* What a search ranks, it ranks by a vector of its own text, though documents may
\* have been replaced while the embedder was at work (EmbedDocumentChunks.execute,
\* set_embedding, search_by_similarity).
EmbeddingsMatch ==
  \A r \in searchable : r.embedding = r.text

\* Every ingestion ends, though they delete documents in different orders.  (Each
\* request comes once, if at all: from some moment on none is on its way.)
EveryIngestionEnds ==
  <>[](\A q \in Ingest : phase[q] \in Ended \cup {"idle"})

\* Once ingestion is over, the backlog is cleared: no pass is for nothing, however
\* two of them embed the same rows at once, fail, or meet deletions
\* (EmbedDocumentChunks: "called repeatedly until it returns an empty tuple").
BacklogCleared == <>[](searchable = document_chunks)
=============================================================================
