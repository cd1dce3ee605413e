---------------------------- MODULE CorpusProofs ----------------------------
(***************************************************************************)
(* Proofs about Corpus: types, that an ingestion supersedes its documents  *)
(* whole, that a row's vector is that of its own text, and that passes     *)
(* never wait for each other in a circle.                                  *)
(*                                                                         *)
(* An ingestion's DELETE looks for rows once, so the question is what it   *)
(* may miss.  Rows of a document come and go together, and an id is never  *)
(* given out twice: whoever has seen one of the rows a document has now    *)
(* has seen them all.  The unique constraint then does the rest: whoever   *)
(* inserts has deleted chunk 0 of each of its documents, if there was one, *)
(* hence every row, and nobody else inserts the same documents meanwhile.  *)
(***************************************************************************)
EXTENDS Corpus, FiniteSetTheorems, WellFoundedInduction, TLAPS

TextOf(q, k) == [by |-> q, source_file |-> k[1], chunk_index |-> k[2]]

\* What an ingestion's DELETEs have found so far.
Seen(q) == victims[q] \cup deleted[q]

\* An id that was given out before, and to no row that is still uncommitted.
Old(i) == i < next_id /\ \A q \in Ingest : \A r \in inserted[q] : r.id # i

BatchesKnown ==
  \A q \in Ingest :
    /\ phase[q] # "idle" => batch[q] \in Batches
    /\ to_delete[q] \subseteq DOMAIN batch[q]
    /\ phase[q] # "inserted" => inserted[q] = {}
    /\ phase[q] \notin {"deleting", "inserted"} => Seen(q) = {} /\ to_delete[q] = {}

LatestCommitted ==
  \A l \in latest :
    /\ l[2] \in Ingest /\ phase[l[2]] = "committed" /\ l[1] \in DOMAIN batch[l[2]]

InsertedWhole ==
  \A q \in Ingest : phase[q] = "inserted" =>
    /\ \A r \in inserted[q] : r.embedding = NoVector /\ \E k \in Keys(batch[q]) : r.text = TextOf(q, k)
    /\ \A k \in Keys(batch[q]) : \E r \in inserted[q] : r.text = TextOf(q, k)
    /\ \A r, u \in inserted[q] : r # u => r.id # u.id /\ Key(r) # Key(u)

OldIds ==
  /\ \A r \in document_chunks : Old(r.id)
  /\ \A q \in Ingest : \A i \in Seen(q) : Old(i)
  /\ \A p \in Pass : /\ \A r \in pending[p] : Old(r.id)
                     /\ \A e \in embedded[p] : Old(e.id)

NewIds ==
  \A q \in Ingest : \A r \in inserted[q] :
    r.id < next_id /\ \A o \in Ingest \ {q} : \A u \in inserted[o] : u.id # r.id

\* Whoever has seen one of the rows that a document has now has seen them all.
SeenTogether ==
  \A q \in Ingest : \A r, u \in document_chunks :
    r.text.source_file = u.text.source_file /\ r.id \in Seen(q) => u.id \in Seen(q)

SeenOwn ==
  \A q \in Ingest : \A r \in document_chunks :
    r.id \in Seen(q) => r.text.source_file \in DOMAIN batch[q]

RivalsApart ==
  \A o, q \in Ingest : \A s \in Source :
    o # q /\ phase[o] = "inserted" /\ phase[q] = "inserted" =>
      ~(s \in DOMAIN batch[o] /\ s \in DOMAIN batch[q])

AllSeen ==
  \A q \in Ingest : \A r \in document_chunks :
    phase[q] = "inserted" /\ r.text.source_file \in DOMAIN batch[q] => r.id \in deleted[q]

VectorsOfText ==
  \A p \in Pass : \A r \in document_chunks :
    /\ \A u \in pending[p] : u.id = r.id => u.text = r.text
    /\ \A e \in embedded[p] : e.id = r.id => e.vector = r.text

\* FullySuperseded, chunk by chunk.
ChunksAreLatest ==
  \A r \in document_chunks : \E l \in latest :
    l[1] = r.text.source_file /\ r.text \in ChunksOf(l[2], l[1])

LatestAreStored ==
  \A l \in latest : \A t \in ChunksOf(l[2], l[1]) : \E r \in document_chunks : r.text = t

ChunkInv ==
  /\ TypeOK
  /\ BatchesKnown
  /\ LatestCommitted
  /\ InsertedWhole
  /\ OldIds
  /\ NewIds
  /\ SeenTogether
  /\ SeenOwn
  /\ RivalsApart
  /\ AllSeen
  /\ VectorsOfText
  /\ EmbeddingsMatch
  /\ ChunksAreLatest
  /\ LatestAreStored

-----------------------------------------------------------------------------
(* Batches and their keys.                                                 *)

LEMMA Requests ==
  /\ Ingest \subseteq Nat /\ MaxFaults \in Nat /\ BatchSize \in Nat
  /\ \A q \in Ingest : q \in Request /\ \A p \in Pass : p # q
  /\ \A p \in Pass : p \in Request
BY CorpusConstants DEF Ingest, Request

LEMMA KeysOfBatch ==
  ASSUME NEW b \in Batches
  PROVE  /\ DOMAIN b \subseteq Source /\ DOMAIN b # {}
         /\ \A s \in DOMAIN b : b[s] \in Nat /\ b[s] > 0 /\ <<s, 0>> \in Keys(b)
         /\ \A k \in Keys(b) : /\ k = <<k[1], k[2]>> /\ k[1] \in DOMAIN b
                               /\ k[2] \in 0..(b[k[1]] - 1) /\ k[2] \in Nat
         /\ \A s \in DOMAIN b : \A i \in 0..(b[s] - 1) : <<s, i>> \in Keys(b)
<1>1. IsBatch(b)
  BY CorpusConstants
<1>2. DOMAIN b \subseteq Source /\ DOMAIN b # {} /\ \A s \in DOMAIN b : b[s] \in Nat /\ b[s] > 0
  BY <1>1 DEF IsBatch
<1>3. \A s \in DOMAIN b : \A i \in 0..(b[s] - 1) : <<s, i>> \in Keys(b)
  BY DEF Keys
<1>4. ASSUME NEW k \in Keys(b)
      PROVE  /\ k = <<k[1], k[2]>> /\ k[1] \in DOMAIN b
             /\ k[2] \in 0..(b[k[1]] - 1) /\ k[2] \in Nat
  <2>1. PICK s \in DOMAIN b : k \in {s} \X (0..(b[s] - 1))
    BY DEF Keys
  <2>2. k = <<k[1], k[2]>> /\ k[1] = s /\ k[2] \in 0..(b[s] - 1)
    BY <2>1
  <2>. QED BY <1>2, <2>2
<1>5. \A s \in DOMAIN b : 0 \in 0..(b[s] - 1)
  BY <1>2
<1>. QED BY <1>2, <1>3, <1>4, <1>5

LEMMA KeysFinite ==
  ASSUME NEW b \in Batches
  PROVE  IsFiniteSet(Keys(b))
<1>. DEFINE Of(s) == {s} \X (0..(b[s] - 1))
            sets  == {Of(s) : s \in DOMAIN b}
            f     == [s \in DOMAIN b |-> Of(s)]
<1>1. IsFiniteSet(DOMAIN b)
  BY CorpusConstants DEF IsBatch
<1>2. f \in Surjection(DOMAIN b, sets)
  BY DEF Surjection
<1>3. IsFiniteSet(sets)
  <2>. HIDE DEF f, sets
  <2>. QED BY <1>1, <1>2, FS_Surjection
<1>4. \A t \in sets : IsFiniteSet(t)
  <2>. SUFFICES ASSUME NEW s \in DOMAIN b PROVE IsFiniteSet(Of(s))
    OBVIOUS
  <2>1. b[s] - 1 \in Int
    <3>1. b[s] \in Nat
      BY KeysOfBatch
    <3>. QED BY <3>1
  <2>2. IsFiniteSet(0..(b[s] - 1))
    BY <2>1, FS_Interval
  <2>3. IsFiniteSet({s})
    BY FS_Singleton
  <2>. QED BY <2>2, <2>3, FS_Product
<1>5. IsFiniteSet(UNION sets)
  <2>. HIDE DEF sets
  <2>. QED BY <1>3, <1>4, FS_UNION
<1>6. Keys(b) = UNION sets
  BY DEF Keys
<1>. QED BY <1>5, <1>6

\* FullySuperseded is what it says of each chunk.
LEMMA SupersededByChunk ==
  ASSUME TypeOK, ChunksAreLatest, LatestAreStored
  PROVE  FullySuperseded
<1>. SUFFICES ASSUME NEW s \in Source
              PROVE  {r.text : r \in RowsOf(s)} =
                       UNION {ChunksOf(l[2], s) : l \in {l \in latest : l[1] = s}}
  BY DEF FullySuperseded
<1>1. ASSUME NEW r \in RowsOf(s)
      PROVE  r.text \in UNION {ChunksOf(l[2], s) : l \in {l \in latest : l[1] = s}}
  <2>1. r \in document_chunks /\ r.text.source_file = s
    BY DEF RowsOf
  <2>2. PICK l \in latest : l[1] = s /\ r.text \in ChunksOf(l[2], s)
    BY <2>1 DEF ChunksAreLatest
  <2>. QED BY <2>2
<1>2. ASSUME NEW l \in latest, l[1] = s, NEW t \in ChunksOf(l[2], s)
      PROVE  t \in {r.text : r \in RowsOf(s)}
  <2>1. PICK r \in document_chunks : r.text = t
    BY <1>2 DEF LatestAreStored
  <2>2. t.source_file = s
    BY DEF ChunksOf
  <2>. QED BY <2>1, <2>2 DEF RowsOf
<1>. QED BY <1>1, <1>2

-----------------------------------------------------------------------------
(* Steps that change no committed row.                                     *)

\* Such a step keeps the invariant if it opens no INSERT, gives out no id, and does
\* what is right with what the transactions have found.
LEMMA StillKeeps ==
  ASSUME ChunkInv, UNCHANGED <<document_chunks, next_id, latest>>,
         TypeOK', BatchesKnown', SeenTogether', SeenOwn', VectorsOfText',
         \A q \in Ingest :
           /\ phase[q] # "idle" => batch'[q] = batch[q]
           /\ phase[q] = "committed" => phase'[q] = "committed"
           /\ inserted'[q] \subseteq inserted[q]
           /\ phase'[q] = "inserted" =>
                /\ phase[q] = "inserted" /\ inserted'[q] = inserted[q]
                /\ batch'[q] = batch[q] /\ deleted'[q] = deleted[q]
           /\ \A i \in Seen(q)' : Old(i),
         \A p \in Pass : /\ \A r \in pending'[p] : Old(r.id)
                         /\ \A e \in embedded'[p] : Old(e.id)
  PROVE  ChunkInv'
<1>. USE DEF ChunkInv
<1>1. \A i : Old(i) => Old(i)'
  BY DEF Old
<1>2. LatestCommitted'
  BY DEF LatestCommitted
<1>3. InsertedWhole'
  <2>. SUFFICES ASSUME NEW q \in Ingest, phase'[q] = "inserted"
                PROVE  /\ phase[q] = "inserted" /\ inserted'[q] = inserted[q]
                       /\ batch'[q] = batch[q]
    BY DEF InsertedWhole
  <2>. QED OBVIOUS
<1>4. OldIds'
  BY <1>1 DEF OldIds
<1>5. NewIds'
  BY DEF NewIds
<1>6. RivalsApart'
  BY DEF RivalsApart
<1>7. AllSeen'
  BY DEF AllSeen
<1>8. EmbeddingsMatch'
  BY DEF EmbeddingsMatch, searchable
<1>9. \A l \in latest : ChunksOf(l[2], l[1])' = ChunksOf(l[2], l[1])
  BY DEF LatestCommitted, ChunksOf
<1>10. ChunksAreLatest' /\ LatestAreStored'
  BY <1>9 DEF ChunksAreLatest, LatestAreStored
<1>. QED BY <1>2, <1>3, <1>4, <1>5, <1>6, <1>7, <1>8, <1>10

LEMMA PhasesMove ==
  ASSUME TypeOK, NEW r \in Request, NEW from, NEW to \in Open \cup Ended \cup {"idle"},
         Move(r, from, to)
  PROVE  /\ phase[r] = from /\ phase'[r] = to
         /\ phase' \in [Request -> Open \cup Ended \cup {"idle"}]
         /\ \A o \in Request \ {r} : phase'[o] = phase[o]
BY DEF TypeOK, Move

LEMMA PostKeeps ==
  ASSUME ChunkInv, NEW q \in Ingest, NEW b \in Batches, Post(q, b)
  PROVE  ChunkInv'
<1>. USE DEF ChunkInv
<1>1. /\ phase[q] = "idle" /\ phase'[q] = "deleting"
      /\ phase' \in [Request -> Open \cup Ended \cup {"idle"}]
      /\ \A o \in Ingest \ {q} : phase'[o] = phase[o]
  BY Requests, PhasesMove DEF Post, Open
<1>2. /\ batch' = [batch EXCEPT ![q] = b]
      /\ to_delete' = [to_delete EXCEPT ![q] = DOMAIN b]
      /\ UNCHANGED <<document_chunks, next_id, latest, victims, deleted, inserted,
                     pending, embedded, faults>>
  BY DEF Post, passes
<1>3. batch \in [Ingest -> Batches \cup {NoBatch}] /\ to_delete \in [Ingest -> SUBSET Source]
  BY DEF TypeOK
<1>4. TypeOK'
  <2>1. to_delete' \in [Ingest -> SUBSET Source]
    BY <1>2, <1>3, KeysOfBatch
  <2>2. batch' \in [Ingest -> Batches \cup {NoBatch}]
    BY <1>2, <1>3
  <2>. QED BY <1>1, <1>2, <2>1, <2>2 DEF TypeOK
<1>5. inserted[q] = {} /\ Seen(q) = {}
  BY <1>1 DEF BatchesKnown
<1>6. \A o : Seen(o)' = Seen(o)
  BY <1>2 DEF Seen
<1>7. BatchesKnown'
  BY <1>1, <1>2, <1>3, <1>5, <1>6 DEF BatchesKnown
<1>8. SeenTogether'
  BY <1>2, <1>6 DEF SeenTogether
<1>9. SeenOwn'
  BY <1>2, <1>3, <1>5, <1>6 DEF SeenOwn
<1>10. VectorsOfText'
  BY <1>2 DEF VectorsOfText
<1>11. \A o \in Ingest : \A i \in Seen(o)' : Old(i)
  BY <1>6 DEF OldIds
<1>12. \A o \in Ingest :
         /\ phase[o] # "idle" => batch'[o] = batch[o]
         /\ phase[o] = "committed" => phase'[o] = "committed"
         /\ phase'[o] = "inserted" => phase[o] = "inserted" /\ batch'[o] = batch[o]
  BY <1>1, <1>2, <1>3
<1>13. \A p \in Pass : /\ \A r \in pending'[p] : Old(r.id)
                       /\ \A e \in embedded'[p] : Old(e.id)
  BY <1>2 DEF OldIds
<1>. QED BY <1>2, <1>4, <1>7, <1>8, <1>9, <1>10, <1>11, <1>12, <1>13, StillKeeps

\* A DELETE that looks for rows, or takes one or finds it gone.
LEMMA DeletingKeeps ==
  ASSUME ChunkInv, NEW q \in Ingest, phase[q] = "deleting",
         UNCHANGED <<document_chunks, next_id, phase, batch, inserted, passes, faults, latest>>,
         to_delete' \in [Ingest -> SUBSET Source], to_delete'[q] \subseteq to_delete[q],
         victims' \in [Ingest -> SUBSET Nat], deleted' \in [Ingest -> SUBSET Nat],
         \A o \in Ingest \ {q} : /\ victims'[o] = victims[o] /\ deleted'[o] = deleted[o]
                                 /\ to_delete'[o] = to_delete[o],
         \A i \in Seen(q)' : Old(i),
         \A r, u \in document_chunks :
           r.text.source_file = u.text.source_file /\ r.id \in Seen(q)' => u.id \in Seen(q)',
         \A r \in document_chunks :
           r.id \in Seen(q)' => r.text.source_file \in DOMAIN batch[q]
  PROVE  ChunkInv'
<1>. USE DEF ChunkInv
<1>1. UNCHANGED <<pending, embedded>>
  BY DEF passes
<1>2. TypeOK'
  BY <1>1 DEF TypeOK
<1>3. \A o \in Ingest \ {q} : Seen(o)' = Seen(o)
  BY DEF Seen
<1>4. BatchesKnown'
  BY <1>3 DEF BatchesKnown
<1>5. SeenTogether'
  BY <1>3 DEF SeenTogether
<1>6. SeenOwn'
  BY <1>3 DEF SeenOwn
<1>7. VectorsOfText'
  BY <1>1 DEF VectorsOfText
<1>8. \A o \in Ingest : \A i \in Seen(o)' : Old(i)
  BY <1>3 DEF OldIds
<1>9. \A o \in Ingest : phase'[o] = "inserted" => deleted'[o] = deleted[o]
  OBVIOUS
<1>10. \A p \in Pass : /\ \A r \in pending'[p] : Old(r.id)
                       /\ \A e \in embedded'[p] : Old(e.id)
  BY <1>1 DEF OldIds
<1>. QED BY <1>2, <1>4, <1>5, <1>6, <1>7, <1>8, <1>9, <1>10, StillKeeps

LEMMA DeleteBySourceKeeps ==
  ASSUME ChunkInv, NEW q \in Ingest, NEW s \in Source, DeleteBySource(q, s)
  PROVE  ChunkInv'
<1>. USE DEF ChunkInv
<1>1. /\ phase[q] = "deleting" /\ victims[q] = {} /\ s \in to_delete[q]
      /\ to_delete' = [to_delete EXCEPT ![q] = to_delete[q] \ {s}]
      /\ victims' = [victims EXCEPT ![q] = {r.id : r \in RowsOf(s)}]
      /\ UNCHANGED <<document_chunks, next_id, phase, batch, deleted, inserted, passes,
                     faults, latest>>
  BY DEF DeleteBySource
<1>2. {r.id : r \in RowsOf(s)} \subseteq Nat
  BY DEF RowsOf, TypeOK, Row
<1>3. /\ victims' \in [Ingest -> SUBSET Nat] /\ deleted' \in [Ingest -> SUBSET Nat]
      /\ to_delete' \in [Ingest -> SUBSET Source]
  BY <1>1, <1>2 DEF TypeOK
<1>4. \A o \in Ingest \ {q} : /\ victims'[o] = victims[o] /\ deleted'[o] = deleted[o]
                              /\ to_delete'[o] = to_delete[o]
  BY <1>1 DEF TypeOK
<1>5. to_delete'[q] \subseteq to_delete[q]
  BY <1>1 DEF TypeOK
<1>6. Seen(q) = deleted[q] /\ Seen(q)' = {r.id : r \in RowsOf(s)} \cup Seen(q)
  BY <1>1 DEF TypeOK, Seen
<1>7. \A r \in document_chunks :
        r.id \in Seen(q)' <=> r.text.source_file = s \/ r.id \in Seen(q)
  BY <1>6 DEF RowsOf, TypeOK
<1>8. \A i \in Seen(q)' : Old(i)
  BY <1>6 DEF RowsOf, OldIds
<1>9. \A r, u \in document_chunks :
        r.text.source_file = u.text.source_file /\ r.id \in Seen(q)' => u.id \in Seen(q)'
  BY <1>7 DEF SeenTogether
<1>10. s \in DOMAIN batch[q]
  BY <1>1 DEF BatchesKnown
<1>11. \A r \in document_chunks :
         r.id \in Seen(q)' => r.text.source_file \in DOMAIN batch[q]
  BY <1>7, <1>10 DEF SeenOwn
<1>. QED BY <1>1, <1>3, <1>4, <1>5, <1>8, <1>9, <1>11, DeletingKeeps

LEMMA DeleteRowKeeps ==
  ASSUME ChunkInv, NEW q \in Ingest, NEW id \in victims[q], DeleteRow(q, id)
  PROVE  ChunkInv'
<1>. USE DEF ChunkInv
<1>1. /\ phase[q] = "deleting"
      /\ victims' = [victims EXCEPT ![q] = victims[q] \ {id}]
      /\ deleted' = IF \E r \in document_chunks : r.id = id
                    THEN [deleted EXCEPT ![q] = deleted[q] \cup {id}] ELSE deleted
      /\ UNCHANGED <<document_chunks, next_id, phase, batch, to_delete, inserted, passes,
                     faults, latest>>
  BY DEF DeleteRow
<1>2. id \in Nat /\ id \in Seen(q)
  BY DEF TypeOK, Seen
<1>3. /\ victims' \in [Ingest -> SUBSET Nat] /\ deleted' \in [Ingest -> SUBSET Nat]
      /\ to_delete' \in [Ingest -> SUBSET Source]
  BY <1>1, <1>2 DEF TypeOK
<1>4. \A o \in Ingest \ {q} : /\ victims'[o] = victims[o] /\ deleted'[o] = deleted[o]
                              /\ to_delete'[o] = to_delete[o]
  BY <1>1 DEF TypeOK
<1>5. Seen(q)' \subseteq Seen(q)
  BY <1>1 DEF TypeOK, Seen
<1>6. \A r \in document_chunks : r.id \in Seen(q) => r.id \in Seen(q)'
  BY <1>1 DEF TypeOK, Seen
<1>7. \A i \in Seen(q)' : Old(i)
  BY <1>5 DEF OldIds
<1>8. \A r, u \in document_chunks :
        r.text.source_file = u.text.source_file /\ r.id \in Seen(q)' => u.id \in Seen(q)'
  BY <1>5, <1>6 DEF SeenTogether
<1>9. \A r \in document_chunks :
        r.id \in Seen(q)' => r.text.source_file \in DOMAIN batch[q]
  BY <1>5 DEF SeenOwn
<1>. QED BY <1>1, <1>3, <1>4, <1>7, <1>8, <1>9, DeletingKeeps

\* An ingestion that ends without a commit.
LEMMA CloseKeeps ==
  ASSUME ChunkInv, NEW q \in Ingest, NEW from \in {"deleting", "inserted"},
         NEW to \in {"conflict", "aborted"},
         Move(q, from, to), Close(q),
         UNCHANGED <<document_chunks, next_id, passes, latest>>, faults' \in 0..MaxFaults
  PROVE  ChunkInv'
<1>. USE DEF ChunkInv
<1>1. /\ phase[q] = from /\ phase'[q] = to
      /\ phase' \in [Request -> Open \cup Ended \cup {"idle"}]
      /\ \A o \in Ingest \ {q} : phase'[o] = phase[o]
  BY Requests, PhasesMove DEF Ended
<1>2. /\ UNCHANGED <<pending, embedded, batch>>
      /\ to_delete' = [to_delete EXCEPT ![q] = {}]
      /\ victims' = [victims EXCEPT ![q] = {}]
      /\ deleted' = [deleted EXCEPT ![q] = {}]
      /\ inserted' = [inserted EXCEPT ![q] = {}]
  BY DEF Close, passes
<1>3. TypeOK'
  BY <1>1, <1>2 DEF TypeOK
<1>4. /\ Seen(q)' = {} /\ inserted'[q] = {} /\ to_delete'[q] = {}
      /\ \A o \in Ingest \ {q} : /\ Seen(o)' = Seen(o) /\ inserted'[o] = inserted[o]
                                 /\ to_delete'[o] = to_delete[o] /\ deleted'[o] = deleted[o]
  BY <1>2 DEF TypeOK, Seen
<1>5. BatchesKnown'
  BY <1>1, <1>2, <1>4 DEF BatchesKnown
<1>6. SeenTogether'
  BY <1>4 DEF SeenTogether
<1>7. SeenOwn'
  BY <1>2, <1>4 DEF SeenOwn
<1>8. VectorsOfText'
  BY <1>2 DEF VectorsOfText
<1>9. \A o \in Ingest :
        /\ phase[o] = "committed" => phase'[o] = "committed"
        /\ inserted'[o] \subseteq inserted[o]
        /\ phase'[o] = "inserted" =>
             phase[o] = "inserted" /\ inserted'[o] = inserted[o] /\ deleted'[o] = deleted[o]
        /\ \A i \in Seen(o)' : Old(i)
  BY <1>1, <1>4 DEF OldIds
<1>10. \A p \in Pass : /\ \A r \in pending'[p] : Old(r.id)
                       /\ \A e \in embedded'[p] : Old(e.id)
  BY <1>2 DEF OldIds
<1>. QED BY <1>2, <1>3, <1>5, <1>6, <1>7, <1>8, <1>9, <1>10, StillKeeps

\* A pass that has not committed.
LEMMA PassKeeps ==
  ASSUME ChunkInv, NEW p \in Pass,
         UNCHANGED <<document_chunks, next_id, ingestion, latest>>,
         phase' \in [Request -> Open \cup Ended \cup {"idle"}],
         \A o \in Ingest : phase'[o] = phase[o],
         faults' \in 0..MaxFaults,
         pending' \in [Pass -> SUBSET Row],
         embedded' \in [Pass -> SUBSET [id : Nat, vector : Text]],
         \A o \in Pass \ {p} : pending'[o] = pending[o] /\ embedded'[o] = embedded[o],
         \A u \in pending'[p] : u \in pending[p] \/ u \in document_chunks,
         \A e \in embedded'[p] :
           \/ e \in embedded[p]
           \/ \E r \in document_chunks : e = [id |-> r.id, vector |-> r.text]
  PROVE  ChunkInv'
<1>. USE DEF ChunkInv
<1>1. UNCHANGED <<batch, to_delete, victims, deleted, inserted>>
  BY DEF ingestion
<1>2. TypeOK'
  BY <1>1 DEF TypeOK
<1>3. \A o : Seen(o)' = Seen(o)
  BY <1>1 DEF Seen
<1>4. BatchesKnown'
  BY <1>1, <1>3 DEF BatchesKnown
<1>5. SeenTogether' /\ SeenOwn'
  BY <1>1, <1>3 DEF SeenTogether, SeenOwn
<1>6. VectorsOfText'
  <2>. SUFFICES ASSUME NEW r \in document_chunks
                PROVE  /\ \A u \in pending'[p] : u.id = r.id => u.text = r.text
                       /\ \A e \in embedded'[p] : e.id = r.id => e.vector = r.text
    BY DEF VectorsOfText
  <2>1. ASSUME NEW u \in pending'[p], u.id = r.id
        PROVE  u.text = r.text
    BY <2>1 DEF VectorsOfText, TypeOK
  <2>2. ASSUME NEW e \in embedded'[p], e.id = r.id
        PROVE  e.vector = r.text
    BY <2>2 DEF VectorsOfText, TypeOK
  <2>. QED BY <2>1, <2>2
<1>7. \A o \in Ingest : \A i \in Seen(o)' : Old(i)
  BY <1>3 DEF OldIds
<1>8. \A o \in Pass : /\ \A r \in pending'[o] : Old(r.id)
                      /\ \A e \in embedded'[o] : Old(e.id)
  BY DEF OldIds
<1>. QED BY <1>1, <1>2, <1>4, <1>5, <1>6, <1>7, <1>8, StillKeeps

LEMMA SelectKeeps ==
  ASSUME ChunkInv, NEW p \in Pass, Select(p)
  PROVE  ChunkInv'
<1>. USE DEF ChunkInv
<1>1. /\ phase' \in [Request -> Open \cup Ended \cup {"idle"}]
      /\ \A o \in Ingest : phase'[o] = phase[o]
  BY Requests, PhasesMove DEF Select, Open
<1>2. /\ pending' = [pending EXCEPT ![p] = FirstRows(unembedded, BatchSize)]
      /\ UNCHANGED <<document_chunks, next_id, ingestion, embedded, faults, latest>>
  BY DEF Select
<1>3. FirstRows(unembedded, BatchSize) \subseteq document_chunks
  BY DEF FirstRows, unembedded
<1>4. /\ pending' \in [Pass -> SUBSET Row] /\ faults' \in 0..MaxFaults
      /\ embedded' \in [Pass -> SUBSET [id : Nat, vector : Text]]
      /\ pending'[p] \subseteq document_chunks
      /\ \A o \in Pass \ {p} : pending'[o] = pending[o]
  BY <1>2, <1>3 DEF TypeOK
<1>. QED BY <1>1, <1>2, <1>4, PassKeeps

LEMMA SetEmbeddingKeeps ==
  ASSUME ChunkInv, NEW p \in Pass, NEW r \in pending[p], SetEmbedding(p, r)
  PROVE  ChunkInv'
<1>. USE DEF ChunkInv
<1>1. /\ pending' = [pending EXCEPT ![p] = pending[p] \ {r}]
      /\ embedded' = [embedded EXCEPT ![p] = embedded[p] \cup set_embedding(r.id, r.text)]
      /\ UNCHANGED <<document_chunks, next_id, phase, ingestion, faults, latest>>
  BY DEF SetEmbedding
<1>2. \A e \in set_embedding(r.id, r.text) :
        \E u \in document_chunks : e = [id |-> u.id, vector |-> u.text]
  <2>. SUFFICES ASSUME NEW u \in document_chunks, u.id = r.id
                PROVE  r.text = u.text
    BY DEF set_embedding
  <2>. QED BY DEF VectorsOfText
<1>3. set_embedding(r.id, r.text) \subseteq [id : Nat, vector : Text]
  BY <1>2 DEF TypeOK, Row
<1>4. /\ pending' \in [Pass -> SUBSET Row] /\ faults' \in 0..MaxFaults
      /\ embedded' \in [Pass -> SUBSET [id : Nat, vector : Text]]
      /\ phase' \in [Request -> Open \cup Ended \cup {"idle"}]
  BY <1>1, <1>3 DEF TypeOK
<1>5. /\ \A o \in Pass \ {p} : pending'[o] = pending[o] /\ embedded'[o] = embedded[o]
      /\ pending'[p] \subseteq pending[p]
      /\ embedded'[p] = embedded[p] \cup set_embedding(r.id, r.text)
  BY <1>1 DEF TypeOK
<1>. QED BY <1>1, <1>2, <1>4, <1>5, PassKeeps

LEMMA ClosePassKeeps ==
  ASSUME ChunkInv, NEW p \in Pass, ClosePass(p),
         UNCHANGED <<document_chunks, next_id, ingestion, latest>>, faults' \in 0..MaxFaults
  PROVE  ChunkInv'
<1>. USE DEF ChunkInv
<1>1. /\ phase' \in [Request -> Open \cup Ended \cup {"idle"}]
      /\ \A o \in Ingest : phase'[o] = phase[o]
  BY Requests, PhasesMove DEF ClosePass
<1>2. /\ pending' = [pending EXCEPT ![p] = {}]
      /\ embedded' = [embedded EXCEPT ![p] = {}]
  BY DEF ClosePass
<1>3. /\ pending' \in [Pass -> SUBSET Row]
      /\ embedded' \in [Pass -> SUBSET [id : Nat, vector : Text]]
      /\ pending'[p] = {} /\ embedded'[p] = {}
      /\ \A o \in Pass \ {p} : pending'[o] = pending[o] /\ embedded'[o] = embedded[o]
  BY <1>2 DEF TypeOK
<1>. QED BY <1>1, <1>3, PassKeeps

-----------------------------------------------------------------------------
(* The INSERT: whoever gets it through has seen all there is to replace.   *)

LEMMA AddBatchSeesAll ==
  ASSUME ChunkInv, NEW q \in Ingest, batch[q] \in Batches,
         AllDeleted(q), \A o \in Ingest : ~InsertWaitsFor(q, o), ~KeyTaken(q),
         NEW r \in document_chunks, r.text.source_file \in DOMAIN batch[q]
  PROVE  r.id \in deleted[q]
<1>. USE DEF ChunkInv
<1>. DEFINE s == r.text.source_file
<1>1. PICK l \in latest : l[1] = s /\ r.text \in ChunksOf(l[2], l[1])
  BY DEF ChunksAreLatest
<1>2. /\ l[2] \in Ingest /\ s \in DOMAIN batch[l[2]] /\ phase[l[2]] = "committed"
  BY <1>1 DEF LatestCommitted
<1>3. batch[l[2]] \in Batches
  BY <1>2 DEF BatchesKnown
<1>4. 0 \in 0..(batch[l[2]][s] - 1)
  BY <1>2, <1>3, KeysOfBatch
<1>5. PICK first \in document_chunks :
        first.text = [by |-> l[2], source_file |-> s, chunk_index |-> 0]
  BY <1>1, <1>4 DEF LatestAreStored, ChunksOf
<1>6. Key(first) = <<s, 0>> /\ Key(first) \in Keys(batch[q])
  BY <1>5, KeysOfBatch DEF Key
<1>7. PICK o \in Ingest : first.id \in deleted[o]
  BY <1>6 DEF KeyTaken
<1>8. o = q
  <2>1. Key(first) \in KeysOf(o)
    BY <1>7 DEF KeysOf
  <2>. QED BY <1>6, <2>1 DEF InsertWaitsFor
<1>9. first.id \in Seen(q) /\ first.text.source_file = s
  BY <1>5, <1>7, <1>8 DEF Seen
<1>10. r.id \in Seen(q)
  BY <1>9 DEF SeenTogether
<1>. QED BY <1>10 DEF Seen, AllDeleted

LEMMA AddBatchKeeps ==
  ASSUME ChunkInv, NEW q \in Ingest, AddBatch(q)
  PROVE  ChunkInv'
<1>. USE DEF ChunkInv
<1>. DEFINE keys == Keys(batch[q])
            n    == Cardinality(keys)
            RowAt(place, k) == [id |-> next_id + place[k],
                                text |-> TextOf(q, k),
                                embedding |-> NoVector]
<1>1. /\ phase[q] = "deleting" /\ phase'[q] = "inserted"
      /\ phase' \in [Request -> Open \cup Ended \cup {"idle"}]
      /\ \A o \in Ingest \ {q} : phase'[o] = phase[o]
  BY Requests, PhasesMove DEF AddBatch, Open
<1>2. /\ AllDeleted(q) /\ (\A o \in Ingest : ~InsertWaitsFor(q, o)) /\ ~KeyTaken(q)
      /\ next_id' = next_id + n
      /\ UNCHANGED <<document_chunks, batch, to_delete, victims, deleted, pending, embedded,
                     faults, latest>>
  BY DEF AddBatch, passes
<1>3. PICK place \in [keys -> 0..(n - 1)] :
        /\ \A k, l \in keys : k # l => place[k] # place[l]
        /\ inserted' = [inserted EXCEPT ![q] = {RowAt(place, k) : k \in keys}]
  BY DEF AddBatch, TextOf
<1>4. batch[q] \in Batches
  BY <1>1 DEF BatchesKnown
<1>5. n \in Nat /\ next_id \in Nat
  BY <1>4, KeysFinite, FS_CardinalityType DEF TypeOK
<1>6. \A k \in keys : /\ k = <<k[1], k[2]>> /\ k[1] \in DOMAIN batch[q] /\ k[1] \in Source
                      /\ k[2] \in Nat
  BY <1>4, KeysOfBatch
<1>7. /\ inserted'[q] = {RowAt(place, k) : k \in keys}
      /\ \A o \in Ingest \ {q} : inserted'[o] = inserted[o]
  BY <1>3 DEF TypeOK
<1>8. \A k \in keys : /\ RowAt(place, k) \in Row
                      /\ RowAt(place, k).id >= next_id /\ RowAt(place, k).id < next_id'
  <2>. SUFFICES ASSUME NEW k \in keys
                PROVE  /\ RowAt(place, k) \in Row
                       /\ next_id + place[k] >= next_id /\ next_id + place[k] < next_id'
    OBVIOUS
  <2>1. place[k] \in 0..(n - 1)
    BY <1>3
  <2>2. TextOf(q, k) \in Text
    BY <1>6 DEF TextOf, Text
  <2>3. next_id + place[k] \in Nat
    BY <1>5, <2>1
  <2>. QED BY <1>2, <1>5, <2>1, <2>2, <2>3 DEF Row
<1>9. \A k \in keys : Key(RowAt(place, k)) = k
  BY <1>6 DEF Key, TextOf
<1>10. \A o \in Ingest : \A r \in inserted[o] : r \in Row /\ r.id \in Nat /\ r.id < next_id
  BY DEF TypeOK, Row, NewIds
<1>11. TypeOK'
  <2>1. inserted' \in [Ingest -> SUBSET Row]
    <3>1. {RowAt(place, k) : k \in keys} \in SUBSET Row
      BY <1>8
    <3>. QED BY <1>3, <3>1 DEF TypeOK
  <2>2. next_id' \in Nat /\ \A r \in document_chunks : r.id < next_id'
    BY <1>2, <1>5 DEF TypeOK, Row
  <2>. QED BY <1>1, <1>2, <2>1, <2>2 DEF TypeOK
<1>12. \A o : Seen(o)' = Seen(o)
  BY <1>2 DEF Seen
<1>13. BatchesKnown'
  BY <1>1, <1>2, <1>4, <1>7, <1>12 DEF BatchesKnown
<1>14. LatestCommitted'
  BY <1>1, <1>2 DEF LatestCommitted
<1>15. InsertedWhole'
  <2>1. /\ \A r \in inserted'[q] : r.embedding = NoVector /\ \E k \in keys : r.text = TextOf(q, k)
        /\ \A k \in keys : \E r \in inserted'[q] : r.text = TextOf(q, k)
    <3>1. \A k : RowAt(place, k).embedding = NoVector /\ RowAt(place, k).text = TextOf(q, k)
      OBVIOUS
    <3>. HIDE DEF RowAt, keys
    <3>. QED BY <1>7, <3>1
  <2>2. ASSUME NEW r \in inserted'[q], NEW u \in inserted'[q], r # u
        PROVE  r.id # u.id /\ Key(r) # Key(u)
    <3>1. PICK k \in keys, l \in keys : r = RowAt(place, k) /\ u = RowAt(place, l)
      BY <1>7
    <3>2. k # l
      BY <2>2, <3>1
    <3>3. place[k] # place[l] /\ place[k] \in Int /\ place[l] \in Int
      BY <1>3, <1>5, <3>2
    <3>. QED BY <1>5, <1>9, <3>1, <3>2, <3>3
  <2>3. ASSUME NEW o \in Ingest, o # q, phase'[o] = "inserted"
        PROVE  phase[o] = "inserted" /\ inserted'[o] = inserted[o] /\ batch'[o] = batch[o]
    BY <1>1, <1>2, <1>7, <2>3
  <2>. QED BY <1>2, <2>1, <2>2, <2>3 DEF InsertedWhole
<1>16. \A i \in Nat : Old(i) => Old(i)'
  <2>. SUFFICES ASSUME NEW i \in Nat, Old(i) PROVE Old(i)'
    OBVIOUS
  <2>1. i < next_id
    BY DEF Old
  <2>2. i < next_id'
    BY <1>2, <1>5, <2>1
  <2>3. \A r \in inserted'[q] : r.id # i
    <3>. SUFFICES ASSUME NEW k \in keys PROVE RowAt(place, k).id # i
      BY <1>7
    <3>1. place[k] \in 0..(n - 1)
      BY <1>3
    <3>. QED BY <1>5, <2>1, <3>1
  <2>. QED BY <1>7, <2>2, <2>3 DEF Old
<1>17. OldIds'
  <2>1. /\ \A r \in document_chunks : r.id \in Nat
        /\ \A o \in Ingest : Seen(o) \subseteq Nat
        /\ \A p \in Pass : /\ \A r \in pending[p] : r.id \in Nat
                           /\ \A e \in embedded[p] : e.id \in Nat
    BY DEF TypeOK, Row, Seen
  <2>. QED BY <1>2, <1>12, <1>16, <2>1 DEF OldIds
<1>18. NewIds'
  <2>1. \A r \in inserted'[q] : r.id < next_id' /\ r.id >= next_id /\ r.id \in Nat
    BY <1>7, <1>8 DEF Row
  <2>2. \A o \in Ingest \ {q} : \A r \in inserted'[o] :
          r.id < next_id /\ r.id < next_id' /\ r.id \in Nat
    BY <1>2, <1>5, <1>7, <1>10
  <2>3. \A r \in inserted'[q] : \A o \in Ingest \ {q} : \A u \in inserted'[o] : u.id # r.id
    BY <1>5, <2>1, <2>2
  <2>4. \A o \in Ingest \ {q} : \A r \in inserted'[o] : \A x \in Ingest \ {o} :
          \A u \in inserted'[x] : u.id # r.id
    <3>. SUFFICES ASSUME NEW o \in Ingest \ {q}, NEW r \in inserted'[o],
                         NEW x \in Ingest \ {o}, NEW u \in inserted'[x]
                  PROVE  u.id # r.id
      OBVIOUS
    <3>1. CASE x = q
      BY <2>3, <3>1
    <3>2. CASE x # q
      BY <1>7, <3>2 DEF NewIds
    <3>. QED BY <3>1, <3>2
  <2>. QED BY <2>1, <2>2, <2>3, <2>4 DEF NewIds
<1>19. SeenTogether' /\ SeenOwn'
  BY <1>2, <1>12 DEF SeenTogether, SeenOwn
<1>20. \A o \in Ingest \ {q} : \A s \in Source :
         phase[o] = "inserted" => ~(s \in DOMAIN batch[o] /\ s \in DOMAIN batch[q])
  <2>. SUFFICES ASSUME NEW o \in Ingest \ {q}, NEW s \in Source, phase[o] = "inserted",
                       s \in DOMAIN batch[o], s \in DOMAIN batch[q]
                PROVE  FALSE
    OBVIOUS
  <2>1. batch[o] \in Batches
    BY DEF BatchesKnown
  <2>2. <<s, 0>> \in Keys(batch[o]) /\ <<s, 0>> \in keys
    BY <1>4, <2>1, KeysOfBatch
  <2>3. PICK r \in inserted[o] : r.text = TextOf(o, <<s, 0>>)
    BY <2>2 DEF InsertedWhole
  <2>4. Key(r) = <<s, 0>>
    BY <2>3 DEF Key, TextOf
  <2>5. <<s, 0>> \in KeysOf(o)
    BY <2>4 DEF KeysOf
  <2>. QED BY <1>2, <2>2, <2>5 DEF InsertWaitsFor
<1>21. RivalsApart'
  BY <1>1, <1>2, <1>20 DEF RivalsApart
<1>22. AllSeen'
  <2>1. \A r \in document_chunks : r.text.source_file \in DOMAIN batch[q] => r.id \in deleted[q]
    BY <1>2, <1>4, AddBatchSeesAll
  <2>. QED BY <1>1, <1>2, <2>1 DEF AllSeen
<1>23. VectorsOfText' /\ EmbeddingsMatch'
  BY <1>2 DEF VectorsOfText, EmbeddingsMatch, searchable
<1>24. ChunksAreLatest' /\ LatestAreStored'
  <2>1. \A o, s : ChunksOf(o, s)' = ChunksOf(o, s)
    BY <1>2 DEF ChunksOf
  <2>. QED BY <1>2, <2>1 DEF ChunksAreLatest, LatestAreStored
<1>. QED BY <1>11, <1>13, <1>14, <1>15, <1>17, <1>18, <1>19, <1>21, <1>22, <1>23, <1>24

-----------------------------------------------------------------------------
(* The commits.                                                            *)

LEMMA CommitKeeps ==
  ASSUME ChunkInv, NEW q \in Ingest, Commit(q)
  PROVE  ChunkInv'
<1>. USE DEF ChunkInv
<1>1. /\ phase[q] = "inserted" /\ phase'[q] = "committed"
      /\ phase' \in [Request -> Open \cup Ended \cup {"idle"}]
      /\ \A o \in Ingest \ {q} : phase'[o] = phase[o]
  BY Requests, PhasesMove DEF Commit, Ended
<1>2. /\ document_chunks' = {r \in document_chunks : r.id \notin deleted[q]} \cup inserted[q]
      /\ latest' = {l \in latest : l[1] \notin DOMAIN batch[q]} \cup ((DOMAIN batch[q]) \X {q})
      /\ UNCHANGED <<next_id, batch, pending, embedded, faults>>
      /\ to_delete' = [to_delete EXCEPT ![q] = {}]
      /\ victims' = [victims EXCEPT ![q] = {}]
      /\ deleted' = [deleted EXCEPT ![q] = {}]
      /\ inserted' = [inserted EXCEPT ![q] = {}]
  BY DEF Commit, Close, passes
<1>3. batch[q] \in Batches /\ DOMAIN batch[q] \subseteq Source
  BY <1>1, KeysOfBatch DEF BatchesKnown
<1>4. /\ Seen(q)' = {} /\ inserted'[q] = {} /\ to_delete'[q] = {}
      /\ \A o \in Ingest \ {q} : /\ Seen(o)' = Seen(o) /\ inserted'[o] = inserted[o]
                                 /\ to_delete'[o] = to_delete[o] /\ deleted'[o] = deleted[o]
  BY <1>2 DEF TypeOK, Seen
<1>5. \A r \in document_chunks :
        r.id \notin deleted[q] <=> r.text.source_file \notin DOMAIN batch[q]
  BY <1>1 DEF AllSeen, SeenOwn, Seen
<1>6. \A r : r \in document_chunks' <=>
               \/ r \in document_chunks /\ r.text.source_file \notin DOMAIN batch[q]
               \/ r \in inserted[q]
  BY <1>2, <1>5
<1>7. \A r \in inserted[q] :
        /\ r \in Row /\ r.id \in Nat /\ r.id < next_id /\ r.embedding = NoVector
        /\ \E k \in Keys(batch[q]) : r.text = TextOf(q, k)
        /\ r.text.source_file \in DOMAIN batch[q]
        /\ Key(r)[1] \in DOMAIN batch[q]
  <2>. SUFFICES ASSUME NEW r \in inserted[q]
                PROVE  /\ r \in Row /\ r.id \in Nat /\ r.id < next_id /\ r.embedding = NoVector
                       /\ \E k \in Keys(batch[q]) : r.text = TextOf(q, k)
                       /\ r.text.source_file \in DOMAIN batch[q]
                       /\ Key(r)[1] \in DOMAIN batch[q]
    OBVIOUS
  <2>1. r \in Row /\ r.id \in Nat /\ r.id < next_id
    BY DEF TypeOK, Row, NewIds
  <2>2. r.embedding = NoVector
    BY <1>1 DEF InsertedWhole
  <2>3. PICK k \in Keys(batch[q]) : r.text = TextOf(q, k)
    BY <1>1 DEF InsertedWhole
  <2>4. r.text.source_file = k[1] /\ k[1] \in DOMAIN batch[q] /\ Key(r)[1] = k[1]
    BY <1>3, <2>3, KeysOfBatch DEF TextOf, Key
  <2>. QED BY <2>1, <2>2, <2>3, <2>4
<1>8. \A r \in document_chunks : \A u \in inserted[q] : r.id # u.id
  BY DEF OldIds, Old
<1>9. ASSUME NEW r \in document_chunks', NEW u \in document_chunks', r # u
      PROVE  r.id # u.id /\ Key(r) # Key(u)
  <2>1. CASE r \in inserted[q] /\ u \in inserted[q]
    BY <1>1, <1>9, <2>1 DEF InsertedWhole
  <2>2. CASE r \notin inserted[q] /\ u \notin inserted[q]
    BY <1>6, <1>9, <2>2 DEF TypeOK
  <2>3. ASSUME NEW x \in document_chunks, x.text.source_file \notin DOMAIN batch[q],
               NEW y \in inserted[q]
        PROVE  x.id # y.id /\ Key(x) # Key(y)
    <3>1. Key(x)[1] = x.text.source_file
      BY DEF Key
    <3>. QED BY <1>7, <1>8, <2>3, <3>1
  <2>. QED BY <1>6, <2>1, <2>2, <2>3
<1>10. TypeOK'
  <2>1. document_chunks' \subseteq Row /\ \A r \in document_chunks' : r.id < next_id
    BY <1>6, <1>7 DEF TypeOK
  <2>2. latest' \subseteq Source \X Ingest
    BY <1>2, <1>3 DEF TypeOK
  <2>3. \A r, u \in document_chunks' : r # u => r.id # u.id /\ Key(r) # Key(u)
    BY <1>9
  <2>4. /\ to_delete' \in [Ingest -> SUBSET Source] /\ victims' \in [Ingest -> SUBSET Nat]
        /\ deleted' \in [Ingest -> SUBSET Nat] /\ inserted' \in [Ingest -> SUBSET Row]
    BY <1>2 DEF TypeOK
  <2>5. /\ next_id' \in Nat /\ batch' \in [Ingest -> Batches \cup {NoBatch}]
        /\ pending' \in [Pass -> SUBSET Row]
        /\ embedded' \in [Pass -> SUBSET [id : Nat, vector : Text]]
        /\ faults' \in 0..MaxFaults /\ next_id' = next_id
    BY <1>2 DEF TypeOK
  <2>. QED BY <1>1, <2>1, <2>2, <2>3, <2>4, <2>5 DEF TypeOK
<1>11. BatchesKnown'
  BY <1>1, <1>2, <1>4 DEF BatchesKnown
<1>12. LatestCommitted'
  <2>. SUFFICES ASSUME NEW l \in latest'
                PROVE  /\ l[2] \in Ingest /\ phase'[l[2]] = "committed"
                       /\ l[1] \in DOMAIN batch[l[2]]
    BY <1>2 DEF LatestCommitted
  <2>1. CASE l \in latest
    BY <1>1, <2>1 DEF LatestCommitted
  <2>2. CASE l \in (DOMAIN batch[q]) \X {q}
    BY <1>1, <2>2
  <2>. QED BY <1>2, <2>1, <2>2
<1>13. InsertedWhole'
  <2>. SUFFICES ASSUME NEW o \in Ingest, phase'[o] = "inserted"
                PROVE  /\ phase[o] = "inserted" /\ inserted'[o] = inserted[o]
                       /\ batch'[o] = batch[o]
    BY DEF InsertedWhole
  <2>. QED BY <1>1, <1>2, <1>4
<1>14. \A i : Old(i) => Old(i)'
  BY <1>2, <1>4 DEF Old
<1>15. OldIds'
  <2>1. \A r \in inserted[q] : Old(r.id)'
    <3>. SUFFICES ASSUME NEW r \in inserted[q]
                  PROVE  r.id < next_id /\ \A o \in Ingest : \A u \in inserted'[o] : u.id # r.id
      BY <1>2 DEF Old
    <3>. QED BY <1>4, <1>7 DEF NewIds
  <2>2. \A r \in document_chunks' : Old(r.id)'
    BY <1>6, <1>14, <2>1 DEF OldIds
  <2>3. \A o \in Ingest : \A i \in Seen(o)' : Old(i)'
    BY <1>4, <1>14 DEF OldIds
  <2>4. \A p \in Pass : /\ \A r \in pending'[p] : Old(r.id)'
                        /\ \A e \in embedded'[p] : Old(e.id)'
    BY <1>2, <1>14 DEF OldIds
  <2>. QED BY <2>2, <2>3, <2>4 DEF OldIds
<1>16. NewIds'
  BY <1>2, <1>4 DEF NewIds
<1>17. \A o \in Ingest : \A r \in document_chunks' :
         r.id \in Seen(o)' =>
           /\ o # q /\ Seen(o)' = Seen(o)
           /\ r \in document_chunks /\ r.text.source_file \notin DOMAIN batch[q]
  <2>. SUFFICES ASSUME NEW o \in Ingest, NEW r \in inserted[q]
                PROVE  r.id \notin Seen(o)
    BY <1>4, <1>6
  <2>. QED BY DEF OldIds, Old
<1>18. SeenTogether'
  <2>. SUFFICES ASSUME NEW o \in Ingest, NEW r \in document_chunks', NEW u \in document_chunks',
                       r.text.source_file = u.text.source_file, r.id \in Seen(o)'
                PROVE  u.id \in Seen(o)'
    BY DEF SeenTogether
  <2>1. /\ Seen(o)' = Seen(o) /\ r \in document_chunks
        /\ r.text.source_file \notin DOMAIN batch[q]
    BY <1>17
  <2>2. u \in document_chunks
    BY <1>6, <1>7, <2>1
  <2>. QED BY <2>1, <2>2 DEF SeenTogether
<1>19. SeenOwn'
  BY <1>2, <1>17 DEF SeenOwn
<1>20. RivalsApart'
  BY <1>1, <1>2 DEF RivalsApart
<1>21. AllSeen'
  <2>. SUFFICES ASSUME NEW o \in Ingest, NEW r \in document_chunks', phase'[o] = "inserted",
                       r.text.source_file \in DOMAIN batch[o]
                PROVE  r.id \in deleted'[o]
    BY <1>2 DEF AllSeen
  <2>1. o # q /\ phase[o] = "inserted" /\ deleted'[o] = deleted[o]
    BY <1>1, <1>4
  <2>2. r \notin inserted[q]
    BY <1>1, <1>3, <1>7, <2>1 DEF RivalsApart
  <2>. QED BY <1>6, <2>1, <2>2 DEF AllSeen
<1>22. VectorsOfText'
  <2>. SUFFICES ASSUME NEW p \in Pass, NEW r \in document_chunks'
                PROVE  /\ \A u \in pending[p] : u.id = r.id => u.text = r.text
                       /\ \A e \in embedded[p] : e.id = r.id => e.vector = r.text
    BY <1>2 DEF VectorsOfText
  <2>1. CASE r \in document_chunks
    BY <2>1 DEF VectorsOfText
  <2>2. CASE r \in inserted[q]
    BY <2>2 DEF OldIds, Old
  <2>. QED BY <1>6, <2>1, <2>2
<1>23. EmbeddingsMatch'
  BY <1>6, <1>7 DEF EmbeddingsMatch, searchable
<1>24. \A o, s : ChunksOf(o, s)' = ChunksOf(o, s)
  BY <1>2 DEF ChunksOf
<1>25. ChunksAreLatest'
  <2>. SUFFICES ASSUME NEW r \in document_chunks'
                PROVE  \E l \in latest' : l[1] = r.text.source_file /\ r.text \in ChunksOf(l[2], l[1])
    BY <1>24 DEF ChunksAreLatest
  <2>1. CASE r \in document_chunks /\ r.text.source_file \notin DOMAIN batch[q]
    <3>1. PICK l \in latest : l[1] = r.text.source_file /\ r.text \in ChunksOf(l[2], l[1])
      BY <2>1 DEF ChunksAreLatest
    <3>. QED BY <1>2, <2>1, <3>1
  <2>2. CASE r \in inserted[q]
    <3>1. PICK k \in Keys(batch[q]) : r.text = TextOf(q, k)
      BY <1>7, <2>2
    <3>2. k[1] \in DOMAIN batch[q] /\ k[2] \in 0..(batch[q][k[1]] - 1)
      BY <1>3, KeysOfBatch
    <3>3. r.text \in ChunksOf(q, k[1]) /\ r.text.source_file = k[1]
      BY <3>1, <3>2 DEF ChunksOf, TextOf
    <3>4. <<k[1], q>> \in latest'
      BY <1>2, <3>2
    <3>. QED BY <3>3, <3>4
  <2>. QED BY <1>6, <2>1, <2>2
<1>26. LatestAreStored'
  <2>. SUFFICES ASSUME NEW l \in latest', NEW t \in ChunksOf(l[2], l[1])
                PROVE  \E r \in document_chunks' : r.text = t
    BY <1>24 DEF LatestAreStored
  <2>1. CASE l \in latest /\ l[1] \notin DOMAIN batch[q]
    <3>1. PICK r \in document_chunks : r.text = t
      BY <2>1 DEF LatestAreStored
    <3>2. t.source_file = l[1]
      BY DEF ChunksOf
    <3>. QED BY <1>6, <2>1, <3>1, <3>2
  <2>2. CASE l \in (DOMAIN batch[q]) \X {q}
    <3>1. l[1] \in DOMAIN batch[q] /\ l[2] = q
      BY <2>2
    <3>2. PICK i \in 0..(batch[q][l[1]] - 1) :
            t = [by |-> q, source_file |-> l[1], chunk_index |-> i]
      BY <3>1 DEF ChunksOf
    <3>3. <<l[1], i>> \in Keys(batch[q]) /\ t = TextOf(q, <<l[1], i>>)
      BY <1>3, <3>1, <3>2, KeysOfBatch DEF TextOf
    <3>. QED BY <1>1, <1>6, <3>3 DEF InsertedWhole
  <2>. QED BY <1>2, <2>1, <2>2
<1>. QED BY <1>10, <1>11, <1>12, <1>13, <1>15, <1>16, <1>18, <1>19, <1>20, <1>21, <1>22,
            <1>23, <1>25, <1>26

\* What a pass commits are the rows there are, some of them with their own text as
\* the vector.
LEMMA PassCommits ==
  ASSUME ChunkInv, NEW p \in Pass, CommitPass(p)
  PROVE  /\ \A x \in document_chunks' : \E r \in document_chunks :
              /\ x = r \/ x = [r EXCEPT !.embedding = r.text]
              /\ x = r <=> (r.embedding = r.text \/ r.id \notin Written(p))
         /\ \A r \in document_chunks : \E x \in document_chunks' :
              x.id = r.id /\ x.text = r.text
<1>. USE DEF ChunkInv
<1>1. Written(p) = {e.id : e \in embedded[p]}
  BY Requests DEF Written
<1>2. document_chunks' = {r \in document_chunks : r.id \notin Written(p)} \cup
        {[x[1] EXCEPT !.embedding = x[2].vector] :
           x \in {x \in document_chunks \X embedded[p] : x[1].id = x[2].id}}
  BY DEF CommitPass
<1>3. \A r \in document_chunks : r = [id |-> r.id, text |-> r.text, embedding |-> r.embedding]
  BY DEF TypeOK, Row
<1>4. \A r \in document_chunks : [r EXCEPT !.embedding = r.text] =
                                   [id |-> r.id, text |-> r.text, embedding |-> r.text]
  BY <1>3
<1>5. \A r \in document_chunks : \A e \in embedded[p] : e.id = r.id => e.vector = r.text
  BY DEF VectorsOfText
<1>6. ASSUME NEW r \in document_chunks, r.id \notin Written(p)
      PROVE  r \in document_chunks'
  BY <1>2, <1>6
<1>7. ASSUME NEW r \in document_chunks, r.id \in Written(p)
      PROVE  [r EXCEPT !.embedding = r.text] \in document_chunks'
  <2>1. PICK e \in embedded[p] : e.id = r.id
    BY <1>1, <1>7
  <2>2. <<r, e>> \in document_chunks \X embedded[p] /\ <<r, e>>[1] = r /\ <<r, e>>[2] = e
    BY <2>1
  <2>3. \A y \in document_chunks \X embedded[p] : y[1].id = y[2].id =>
          [y[1] EXCEPT !.embedding = y[2].vector] \in document_chunks'
    BY Zenon, <1>2
  <2>4. [r EXCEPT !.embedding = e.vector] \in document_chunks'
    BY Zenon, <2>1, <2>2, <2>3
  <2>. QED BY <1>5, <2>1, <2>4
<1>8. ASSUME NEW x \in document_chunks'
      PROVE  \E r \in document_chunks :
               /\ x = r \/ x = [r EXCEPT !.embedding = r.text]
               /\ x = r <=> (r.embedding = r.text \/ r.id \notin Written(p))
  <2>1. CASE x \in document_chunks /\ x.id \notin Written(p)
    BY <2>1
  <2>2. ASSUME NEW y \in document_chunks \X embedded[p], y[1].id = y[2].id,
               x = [y[1] EXCEPT !.embedding = y[2].vector]
        PROVE  \E r \in document_chunks :
                 /\ x = r \/ x = [r EXCEPT !.embedding = r.text]
                 /\ x = r <=> (r.embedding = r.text \/ r.id \notin Written(p))
    <3>1. y[1] \in document_chunks /\ y[1].id \in Written(p) /\ y[2].vector = y[1].text
      BY <1>1, <1>5, <2>2
    <3>2. x = [y[1] EXCEPT !.embedding = y[1].text]
      BY <2>2, <3>1
    <3>3. x = y[1] <=> y[1].embedding = y[1].text
      BY <1>3, <1>4, <3>1, <3>2
    <3>. QED BY <3>1, <3>2, <3>3
  <2>. QED BY <1>2, <2>1, <2>2
<1>9. ASSUME NEW r \in document_chunks
      PROVE  \E x \in document_chunks' : x.id = r.id /\ x.text = r.text
  <2>1. [r EXCEPT !.embedding = r.text].id = r.id /\ [r EXCEPT !.embedding = r.text].text = r.text
    BY <1>4
  <2>. QED BY <1>6, <1>7, <2>1
<1>. QED BY <1>8, <1>9

LEMMA CommitPassKeeps ==
  ASSUME ChunkInv, NEW p \in Pass, CommitPass(p)
  PROVE  ChunkInv'
<1>. USE DEF ChunkInv
<1>1. /\ phase' \in [Request -> Open \cup Ended \cup {"idle"}]
      /\ \A o \in Ingest : phase'[o] = phase[o]
  BY Requests, PhasesMove DEF CommitPass, ClosePass
<1>2. /\ pending' = [pending EXCEPT ![p] = {}]
      /\ embedded' = [embedded EXCEPT ![p] = {}]
      /\ UNCHANGED <<next_id, batch, to_delete, victims, deleted, inserted, faults, latest>>
  BY DEF CommitPass, ClosePass, ingestion
<1>3. /\ pending' \in [Pass -> SUBSET Row]
      /\ embedded' \in [Pass -> SUBSET [id : Nat, vector : Text]]
      /\ \A o \in Pass : pending'[o] \subseteq pending[o] /\ embedded'[o] \subseteq embedded[o]
  BY <1>2 DEF TypeOK
<1>4. \A x \in document_chunks' : \E r \in document_chunks :
        /\ x = r \/ x = [r EXCEPT !.embedding = r.text]
        /\ x = r <=> (r.embedding = r.text \/ r.id \notin Written(p))
  BY PassCommits
<1>5. \A r \in document_chunks :
        /\ [r EXCEPT !.embedding = r.text] \in Row
        /\ [r EXCEPT !.embedding = r.text].id = r.id
        /\ [r EXCEPT !.embedding = r.text].text = r.text
        /\ [r EXCEPT !.embedding = r.text].embedding = r.text
        /\ r \in Row
  BY DEF TypeOK, Row
<1>6. \A x \in document_chunks' : x \in Row /\ \E r \in document_chunks :
        x.id = r.id /\ x.text = r.text /\ (x.embedding = r.embedding \/ x.embedding = r.text)
  BY <1>4, <1>5
<1>7. \A r \in document_chunks : \E x \in document_chunks' : x.id = r.id /\ x.text = r.text
  BY PassCommits
<1>8. ASSUME NEW x \in document_chunks', NEW y \in document_chunks', x # y
      PROVE  x.id # y.id /\ Key(x) # Key(y)
  <2>1. PICK r \in document_chunks :
          /\ x = r \/ x = [r EXCEPT !.embedding = r.text]
          /\ x = r <=> (r.embedding = r.text \/ r.id \notin Written(p))
    BY <1>4
  <2>2. PICK u \in document_chunks :
          /\ y = u \/ y = [u EXCEPT !.embedding = u.text]
          /\ y = u <=> (u.embedding = u.text \/ u.id \notin Written(p))
    BY <1>4
  <2>3. r # u
    BY <1>8, <2>1, <2>2
  <2>4. r.id # u.id /\ Key(r) # Key(u)
    BY <2>3 DEF TypeOK
  <2>5. x.id = r.id /\ y.id = u.id /\ x.text = r.text /\ y.text = u.text
    BY <1>5, <2>1, <2>2
  <2>. QED BY <2>4, <2>5 DEF Key
<1>9. TypeOK'
  <2>1. document_chunks' \subseteq Row /\ \A x \in document_chunks' : x.id < next_id
    BY <1>6 DEF TypeOK
  <2>. QED BY <1>1, <1>2, <1>3, <1>8, <2>1 DEF TypeOK
<1>10. \A o : Seen(o)' = Seen(o)
  BY <1>2 DEF Seen
<1>11. \A i : Old(i)' <=> Old(i)
  BY <1>2 DEF Old
<1>12. BatchesKnown' /\ LatestCommitted'
  BY <1>1, <1>2, <1>10 DEF BatchesKnown, LatestCommitted
<1>13. InsertedWhole'
  BY <1>1, <1>2 DEF InsertedWhole
<1>14. OldIds' /\ NewIds'
  BY <1>2, <1>3, <1>6, <1>10, <1>11 DEF OldIds, NewIds
<1>15. SeenTogether'
  BY <1>6, <1>10 DEF SeenTogether
<1>16. SeenOwn'
  BY <1>2, <1>6, <1>10 DEF SeenOwn
<1>17. RivalsApart'
  BY <1>1, <1>2 DEF RivalsApart
<1>18. AllSeen'
  BY <1>1, <1>2, <1>6 DEF AllSeen
<1>19. VectorsOfText'
  BY <1>3, <1>6 DEF VectorsOfText
<1>20. EmbeddingsMatch'
  BY <1>6 DEF EmbeddingsMatch, searchable
<1>21. \A o, s : ChunksOf(o, s)' = ChunksOf(o, s)
  BY <1>2 DEF ChunksOf
<1>22. ChunksAreLatest'
  BY <1>2, <1>6, <1>21 DEF ChunksAreLatest
<1>23. LatestAreStored'
  BY <1>2, <1>7, <1>21 DEF LatestAreStored
<1>. QED BY <1>9, <1>12, <1>13, <1>14, <1>15, <1>16, <1>17, <1>18, <1>19, <1>20, <1>22, <1>23

-----------------------------------------------------------------------------
(* All together.                                                           *)

LEMMA ChunkStep ==
  ASSUME ChunkInv, [Next]_vars
  PROVE  ChunkInv'
<1>0. faults \in 0..MaxFaults /\ (Fault => faults' \in 0..MaxFaults)
  BY Requests DEF Fault, ChunkInv, TypeOK
<1>1. ASSUME NEW q \in Ingest, UniqueViolation(q)
      PROVE  ChunkInv'
  <2>1. /\ Move(q, "deleting", "conflict") /\ Close(q)
        /\ UNCHANGED <<document_chunks, next_id, passes, faults, latest>>
    BY <1>1 DEF UniqueViolation
  <2>. QED BY <1>0, <2>1, CloseKeeps
<1>2. ASSUME NEW q \in Ingest, Abort(q)
      PROVE  ChunkInv'
  <2>1. PICK from \in {"deleting", "inserted"} : Move(q, from, "aborted")
    BY <1>2 DEF Abort
  <2>2. Close(q) /\ Fault /\ UNCHANGED <<document_chunks, next_id, passes, latest>>
    BY <1>2 DEF Abort
  <2>. QED BY <1>0, <2>1, <2>2, CloseKeeps
<1>3. ASSUME NEW p \in Pass, FailPass(p)
      PROVE  ChunkInv'
  <2>1. ClosePass(p) /\ Fault /\ UNCHANGED <<document_chunks, next_id, ingestion, latest>>
    BY <1>3 DEF FailPass
  <2>. QED BY <1>0, <2>1, ClosePassKeeps
<1>4. ASSUME NEW r \in Request, DeadlockVictim(r)
      PROVE  ChunkInv'
  <2>1. UNCHANGED <<document_chunks, next_id, faults, latest>>
    BY <1>4 DEF DeadlockVictim
  <2>2. CASE r \in Ingest
    <3>1. Move(r, "deleting", "aborted") /\ Close(r) /\ UNCHANGED passes
      BY <1>4, <2>2 DEF DeadlockVictim
    <3>. QED BY <1>0, <2>1, <2>2, <3>1, CloseKeeps
  <2>3. CASE r \notin Ingest
    <3>1. ClosePass(r) /\ UNCHANGED ingestion /\ r \in Pass
      BY <1>4, <2>3 DEF DeadlockVictim, Request
    <3>. QED BY <1>0, <2>1, <3>1, ClosePassKeeps
  <2>. QED BY <2>2, <2>3
<1>5. ASSUME NEW r \in Request, Advance(r)
      PROVE  ChunkInv'
  BY <1>1, <1>4, <1>5, DeleteBySourceKeeps, DeleteRowKeeps, AddBatchKeeps, CommitKeeps,
     SelectKeeps, SetEmbeddingKeeps, CommitPassKeeps
  DEF Advance
<1>6. CASE UNCHANGED vars
  <2>1. UNCHANGED <<document_chunks, next_id, phase, batch, to_delete, victims, deleted,
                    inserted, pending, embedded, faults, latest>>
    BY <1>6 DEF vars, ingestion, passes
  <2>2. TypeOK'
    BY <2>1 DEF ChunkInv, TypeOK
  <2>3. \A q : Seen(q)' = Seen(q)
    BY <2>1 DEF Seen
  <2>4. BatchesKnown' /\ SeenTogether' /\ SeenOwn' /\ VectorsOfText'
    BY <2>1, <2>3 DEF ChunkInv, BatchesKnown, SeenTogether, SeenOwn, VectorsOfText
  <2>5. /\ \A q \in Ingest : \A i \in Seen(q)' : Old(i)
        /\ \A p \in Pass : /\ \A r \in pending'[p] : Old(r.id)
                           /\ \A e \in embedded'[p] : Old(e.id)
    BY <2>1, <2>3 DEF ChunkInv, OldIds
  <2>. QED BY <2>1, <2>2, <2>4, <2>5, StillKeeps
<1>. QED BY <1>2, <1>3, <1>5, <1>6, PostKeeps DEF Next

LEMMA ChunkInit == Init => ChunkInv
<1>. SUFFICES ASSUME Init PROVE ChunkInv
  OBVIOUS
<1>1. \A q \in Ingest : Seen(q) = {}
  BY DEF Init, Seen
<1>2. TypeOK
  BY Requests DEF Init, TypeOK
<1>3. \A q \in Ingest : phase[q] = "idle"
  BY Requests DEF Init
<1>4. BatchesKnown /\ InsertedWhole /\ RivalsApart /\ AllSeen
  BY <1>1, <1>3 DEF Init, BatchesKnown, InsertedWhole, RivalsApart, AllSeen
<1>5. OldIds /\ NewIds
  BY <1>1 DEF Init, OldIds, NewIds
<1>6. /\ LatestCommitted /\ SeenTogether /\ SeenOwn /\ VectorsOfText /\ EmbeddingsMatch
      /\ ChunksAreLatest /\ LatestAreStored
  BY DEF Init, LatestCommitted, SeenTogether, SeenOwn, VectorsOfText, EmbeddingsMatch,
         searchable, ChunksAreLatest, LatestAreStored
<1>. QED BY <1>2, <1>4, <1>5, <1>6 DEF ChunkInv

\* Types are right, and no two committed rows share an id or a place in a document,
\* for any documents, batches and number of overlapping requests.
THEOREM CorpusTyping == Spec => []TypeOK
<1>1. ChunkInv => TypeOK
  BY DEF ChunkInv
<1>. QED BY <1>1, ChunkInit, ChunkStep, PTL DEF Spec

\* The chunks of a document are those of the ingestion that last committed it, all
\* of them and no others, whatever ingestions overlap, in whatever order their
\* DELETEs take the rows, and wherever they are aborted (FullySuperseded;
\* IngestDocumentChunks, delete_by_source_file, uq_document_chunks_source_file_index).
THEOREM DocumentsSuperseded == Spec => []FullySuperseded
<1>1. ChunkInv => FullySuperseded
  BY SupersededByChunk DEF ChunkInv
<1>. QED BY <1>1, ChunkInit, ChunkStep, PTL DEF Spec

\* A row never has the vector of another text, though its document may be replaced
\* between the selection of the batch and the UPDATE, and passes may overlap
\* (EmbeddingsMatch; EmbedDocumentChunks.execute, set_embedding).
THEOREM VectorsAreOwn == Spec => []EmbeddingsMatch
<1>1. ChunkInv => EmbeddingsMatch
  BY DEF ChunkInv
<1>. QED BY <1>1, ChunkInit, ChunkStep, PTL DEF Spec

-----------------------------------------------------------------------------
(* Passes take the rows in the order of their ids: each has written lower  *)
(* ids than those it is still to write.                                    *)

PassInOrder(p) ==
  /\ phase[p] = "idle" => embedded[p] = {}
  /\ \A r, u \in pending[p] : r # u => r.id # u.id
  /\ \A e \in embedded[p], r \in pending[p] : e.id < r.id

PassesInOrder == \A p \in Pass : PassInOrder(p)

\* Some pass of each set of passes waits for none of the set.
PassesNeverInCircle ==
  \A s \in SUBSET Pass : s # {} => \E p \in s : \A o \in s : ~WaitsFor(p, o)

\* A set of numbers has a least one.
LEMMA LeastOf ==
  ASSUME NEW S \in SUBSET Nat, S # {}
  PROVE  \E m \in S : \A n \in S : m <= n
<1>1. \E m \in S : \A n \in S : ~ (<<n, m>> \in OpToRel(<, Nat))
  BY NatLessThanWellFounded, WFMin
<1>2. PICK m \in S : \A n \in S : ~ (<<n, m>> \in OpToRel(<, Nat))
  BY <1>1
<1>3. ASSUME NEW n \in S PROVE m <= n
  <2>1. <<n, m>> \in Nat \X Nat /\ ~ (<<n, m>> \in OpToRel(<, Nat))
    BY <1>2
  <2>2. ~(<<n, m>>[1] < <<n, m>>[2])
    BY <2>1 DEF OpToRel
  <2>. QED BY <2>2
<1>. QED BY <1>3

\* What one pass does, or what it leaves alone.
LEMMA OrderKept ==
  ASSUME PassesInOrder, NEW p \in Pass, PassInOrder(p)',
         \A o \in Pass \ {p} : /\ pending'[o] = pending[o] /\ embedded'[o] = embedded[o]
                               /\ phase'[o] = phase[o]
  PROVE  PassesInOrder'
<1>. SUFFICES ASSUME NEW o \in Pass, o # p PROVE PassInOrder(o)'
  BY DEF PassesInOrder
<1>1. PassInOrder(o)
  BY DEF PassesInOrder
<1>. QED BY <1>1 DEF PassInOrder

\* A batch is selected: its rows have distinct ids.
LEMMA SelectInOrder ==
  ASSUME ChunkInv, PassesInOrder, NEW p \in Pass, Select(p)
  PROVE  PassesInOrder'
<1>1. TypeOK
  BY DEF ChunkInv
<1>2. /\ phase[p] = "idle" /\ phase'[p] = "embedding"
      /\ \A o \in Request \ {p} : phase'[o] = phase[o]
  BY <1>1, Requests, PhasesMove DEF Select, Open
<1>3. /\ pending'[p] = FirstRows(unembedded, BatchSize) /\ embedded' = embedded
      /\ \A o \in Pass \ {p} : pending'[o] = pending[o]
  BY <1>1 DEF Select, TypeOK
<1>4. pending'[p] \subseteq document_chunks
  BY <1>3 DEF FirstRows, unembedded
<1>5. embedded[p] = {}
  BY <1>2 DEF PassesInOrder, PassInOrder
<1>6. \A r, u \in pending'[p] : r # u => r.id # u.id
  BY <1>1, <1>4 DEF TypeOK
<1>7. PassInOrder(p)'
  BY <1>2, <1>3, <1>5, <1>6 DEF PassInOrder
<1>. QED BY <1>2, <1>3, <1>7, Requests, OrderKept

\* The row of the least id is written.
LEMMA SetEmbeddingInOrder ==
  ASSUME ChunkInv, PassesInOrder, NEW p \in Pass, NEW r \in pending[p], SetEmbedding(p, r)
  PROVE  PassesInOrder'
<1>1. TypeOK /\ PassInOrder(p)
  BY DEF ChunkInv, PassesInOrder
<1>2. /\ pending'[p] = pending[p] \ {r} /\ phase' = phase /\ phase[p] = "embedding"
      /\ embedded'[p] = embedded[p] \cup set_embedding(r.id, r.text)
      /\ \A o \in Pass \ {p} : pending'[o] = pending[o] /\ embedded'[o] = embedded[o]
      /\ \A u \in pending[p] : r.id <= u.id
  BY <1>1 DEF SetEmbedding, TypeOK
<1>3. \A u \in pending[p] : u.id \in Nat
  BY <1>1 DEF TypeOK, Row
<1>4. \A e \in set_embedding(r.id, r.text) : e.id = r.id
  BY DEF set_embedding
<1>5. ASSUME NEW u \in pending'[p], NEW e \in embedded'[p] PROVE e.id < u.id
  <2>1. u \in pending[p] /\ u # r
    BY <1>2
  <2>2. r.id <= u.id /\ r.id # u.id /\ r.id \in Nat /\ u.id \in Nat
    BY <1>1, <1>2, <1>3, <2>1 DEF PassInOrder
  <2>3. CASE e \in embedded[p]
    BY <1>1, <2>1, <2>3 DEF PassInOrder
  <2>4. CASE e \in set_embedding(r.id, r.text)
    BY <1>4, <2>2, <2>4
  <2>. QED BY <1>2, <2>3, <2>4
<1>6. \A x, u \in pending'[p] : x # u => x.id # u.id
  BY <1>1, <1>2 DEF PassInOrder
<1>7. PassInOrder(p)'
  BY <1>2, <1>5, <1>6 DEF PassInOrder
<1>. QED BY <1>2, <1>7, OrderKept

\* The batch is over.
LEMMA ClosePassInOrder ==
  ASSUME ChunkInv, PassesInOrder, NEW p \in Pass, ClosePass(p)
  PROVE  PassesInOrder'
<1>1. TypeOK
  BY DEF ChunkInv
<1>2. /\ phase'[p] = "idle" /\ \A o \in Request \ {p} : phase'[o] = phase[o]
  BY <1>1, Requests, PhasesMove DEF ClosePass
<1>3. /\ pending'[p] = {} /\ embedded'[p] = {}
      /\ \A o \in Pass \ {p} : pending'[o] = pending[o] /\ embedded'[o] = embedded[o]
  BY <1>1 DEF ClosePass, TypeOK
<1>4. PassInOrder(p)'
  BY <1>3 DEF PassInOrder
<1>. QED BY <1>2, <1>3, <1>4, Requests, OrderKept

\* What an ingestion does leaves the passes alone.
LEMMA IngestInOrder ==
  ASSUME ChunkInv, PassesInOrder, NEW q \in Ingest, UNCHANGED passes,
         \/ phase' = phase
         \/ \E from, to \in Open \cup Ended \cup {"idle"} : Move(q, from, to)
  PROVE  PassesInOrder'
<1>1. TypeOK /\ pending' = pending /\ embedded' = embedded
  BY DEF ChunkInv, passes
<1>2. \A o \in Pass : phase'[o] = phase[o]
  BY <1>1, Requests, PhasesMove
<1>. SUFFICES ASSUME NEW o \in Pass PROVE PassInOrder(o)'
  BY DEF PassesInOrder
<1>3. PassInOrder(o)
  BY DEF PassesInOrder
<1>. QED BY <1>1, <1>2, <1>3 DEF PassInOrder

\* Every step of the system.
LEMMA PassesStep ==
  ASSUME ChunkInv, PassesInOrder, [Next]_vars
  PROVE  PassesInOrder'
<1>1. ASSUME NEW q \in Ingest, NEW b \in Batches, Post(q, b) PROVE PassesInOrder'
  BY <1>1, IngestInOrder DEF Post, Open
<1>2. ASSUME NEW q \in Ingest, NEW s \in Source, DeleteBySource(q, s) PROVE PassesInOrder'
  BY <1>2, IngestInOrder DEF DeleteBySource
<1>3. ASSUME NEW q \in Ingest, NEW id \in victims[q], DeleteRow(q, id) PROVE PassesInOrder'
  BY <1>3, IngestInOrder DEF DeleteRow
<1>4. ASSUME NEW q \in Ingest, AddBatch(q) \/ UniqueViolation(q) \/ Commit(q) \/ Abort(q)
      PROVE  PassesInOrder'
  <2>1. UNCHANGED passes
    BY <1>4 DEF AddBatch, UniqueViolation, Commit, Abort
  <2>2. \E from, to \in Open \cup Ended \cup {"idle"} : Move(q, from, to)
    BY <1>4 DEF AddBatch, UniqueViolation, Commit, Abort, Open, Ended
  <2>. QED BY <2>1, <2>2, IngestInOrder
<1>5. ASSUME NEW r \in Request, DeadlockVictim(r) PROVE PassesInOrder'
  <2>1. CASE r \in Ingest
    <3>1. Move(r, "deleting", "aborted") /\ UNCHANGED passes
      BY <1>5, <2>1 DEF DeadlockVictim
    <3>. QED BY <2>1, <3>1, IngestInOrder DEF Open, Ended
  <2>2. CASE r \notin Ingest
    <3>1. ClosePass(r) /\ r \in Pass
      BY <1>5, <2>2 DEF DeadlockVictim, Request
    <3>. QED BY <3>1, ClosePassInOrder
  <2>. QED BY <2>1, <2>2
<1>6. ASSUME NEW p \in Pass, CommitPass(p) \/ FailPass(p) PROVE PassesInOrder'
  BY <1>6, ClosePassInOrder DEF CommitPass, FailPass
<1>7. ASSUME NEW r \in Request, Advance(r) PROVE PassesInOrder'
  BY <1>2, <1>3, <1>4, <1>5, <1>6, <1>7, SelectInOrder, SetEmbeddingInOrder DEF Advance
<1>8. CASE UNCHANGED vars
  <2>1. pending' = pending /\ embedded' = embedded /\ phase' = phase
    BY <1>8 DEF vars, passes
  <2>. QED BY <2>1 DEF PassesInOrder, PassInOrder
<1>. QED BY <1>1, <1>4, <1>6, <1>7, <1>8 DEF Next

\* Of passes that wait, the one that has come furthest waits for none of them.
LEMMA FurthestWaitsForNone ==
  ASSUME ChunkInv, PassesInOrder
  PROVE  PassesNeverInCircle
<1>. SUFFICES ASSUME NEW s \in SUBSET Pass, s # {},
                     \A p \in s : \E o \in s : WaitsFor(p, o)
              PROVE  FALSE
  BY DEF PassesNeverInCircle
<1>. DEFINE left == {next_id - i : i \in UNION {NextRows(p) : p \in s}}
<1>1. TypeOK
  BY DEF ChunkInv
<1>2. ASSUME NEW p \in s
      PROVE  /\ \A i \in NextRows(p) : i \in Nat /\ i < next_id
             /\ \A i, j \in NextRows(p) : i = j
  <2>1. \A r \in pending[p] : r.id \in Nat /\ r.id < next_id
    BY <1>1 DEF TypeOK, Row, ChunkInv, OldIds, Old
  <2>. QED BY <2>1 DEF NextRows
<1>3. ASSUME NEW p \in s
      PROVE  \E o \in s : \E i \in NextRows(p) : \E e \in embedded[o] : e.id = i
  <2>1. PICK o \in s : WaitsFor(p, o)
    OBVIOUS
  <2>2. p \notin Ingest /\ o \notin Ingest
    BY Requests
  <2>3. NextRows(p) \cap Written(o) # {}
    BY <2>1, <2>2 DEF WaitsFor
  <2>. QED BY <2>2, <2>3 DEF Written
<1>4. left \subseteq Nat /\ left # {}
  <2>1. next_id \in Nat
    BY <1>1 DEF TypeOK
  <2>2. ASSUME NEW p \in s, NEW i \in NextRows(p) PROVE next_id - i \in Nat
    BY <1>2, <2>1, <2>2
  <2>3. PICK p \in s : NextRows(p) # {}
    BY <1>3
  <2>. QED BY <2>2, <2>3
<1>5. PICK p \in s : \E i \in NextRows(p) : \A n \in left : next_id - i <= n
  <2>1. PICK m \in left : \A n \in left : m <= n
    <3>. HIDE DEF left
    <3>. QED BY <1>4, LeastOf
  <2>. QED BY <2>1
<1>6. PICK i \in NextRows(p) : \A n \in left : next_id - i <= n
  BY <1>5
<1>7. PICK o \in s : \E e \in embedded[o] : e.id = i
  BY <1>2, <1>3
<1>8. PICK j \in NextRows(o) : TRUE
  BY <1>3
<1>9. PICK r \in pending[o] : r.id = j
  BY DEF NextRows
<1>10. i < j
  BY <1>7, <1>9 DEF PassesInOrder, PassInOrder
<1>11. next_id - j \in left
  OBVIOUS
<1>12. next_id \in Nat /\ i \in Nat /\ j \in Nat
  BY <1>1, <1>2 DEF TypeOK
<1>. HIDE DEF left
<1>. QED BY <1>6, <1>10, <1>11, <1>12

\* Passes that overlap never wait for each other in a circle: in any number of
\* them, a circle the database has to break goes through an ingestion
\* (EmbedDocumentChunks.execute; unembedded, which orders the rows by id).
THEOREM PassesWaitInOrder == Spec => []PassesNeverInCircle
<1>1. Init => PassesInOrder
  BY DEF Init, PassesInOrder, PassInOrder
<1>2. ChunkInv /\ PassesInOrder => PassesNeverInCircle
  BY FurthestWaitsForNone
<1>. QED BY <1>1, <1>2, ChunkInit, ChunkStep, PassesStep, PTL DEF Spec
=============================================================================
