-------------------------------- MODULE Rtbf --------------------------------
(***************************************************************************)
(* The data of a subject and its erasure: the chunks that POST /docs       *)
(* (ingest/pipeline.py over ingest/store.py) and the jobs of the queue     *)
(* (_process_job of ingest/worker.py) store, the embedding cache both go   *)
(* through (ingest/embed.py), and rtbf_certificate (security/rtbf.py),     *)
(* which runs beside them.                                                 *)
(*                                                                         *)
(* Both writers create the table "chunks" of one database if it is not     *)
(* there, with different columns: the table is of whichever came first,    *)
(* the other's inserts fail.  Only the worker's table, and the worker's    *)
(* Qdrant payload, have the subject_id an erasure looks for.               *)
(*                                                                         *)
(* The vector of a text is the text.  Each call on a store or on a         *)
(* database is one step, and may fail; so is each critical section of the  *)
(* cache.  A post here is one document; DocsApi has the rest of a post,    *)
(* IngestQueue the retries of a job.  The request log of an erasure is     *)
(* left out: no code writes it.                                            *)
(***************************************************************************)
EXTENDS Naturals, Sequences, FiniteSets, Functions

CONSTANTS Posts, Jobs,   \* documents posted, and jobs of the worker
          Erasures,      \* calls of rtbf_certificate
          Source, Subject, Texts,   \* of each writer: source id, subject, chunks
          Target,        \* of each erasure: the subject
          MaxCache,      \* _MAX_CACHE
          Evicted,       \* _MAX_CACHE // 10
          BatchSize,     \* batch_size: texts in a call of the provider
          ShortAnswers,  \* whether the provider may return too few vectors
          None

Writers  == Posts \union Jobs
AllTexts == UNION {Range(Texts[w]) : w \in Writers}

ASSUME RtbfAssumption ==
    /\ Posts \intersect Jobs = {} /\ IsFiniteSet(Erasures)
    /\ MaxCache \in Nat /\ Evicted \in 1..MaxCache
    /\ BatchSize \in Nat \ {0} /\ ShortAnswers \in BOOLEAN
    /\ DOMAIN Target = Erasures
    /\ DOMAIN Source = Writers /\ DOMAIN Subject = Writers
    /\ Texts \in [Writers -> Seq(AllTexts)] /\ None \notin AllTexts

VARIABLES backend,      \* SHRAG_VECTOR_BACKEND
          store,        \* what get_store() has built
          operational,  \* QdrantChunkStore: _ready and operational
          schema,       \* whose columns the table "chunks" has
          rows,         \* the table
          points,       \* the Qdrant collection
          cache,        \* _embed_cache, oldest first
          task,         \* where each writer is
          erase,        \* where each erasure is
          audit         \* rtbf_audit

vars == <<backend, store, operational, schema, rows, points, cache, task, erase, audit>>

Backends == {"sqlite", "qdrant"}
Chunks == UNION {[by : {w}, n : DOMAIN Texts[w], vec : AllTexts] : w \in Writers}

WriterPC == {"begin", "lookup", "encode", "put", "store", "fallback", "done", "failed"}
(* n: the chunk of a post; found: results; asked: pending_indices;         *)
(* base: batch_start; got: the length of vecs; puts: local_i.              *)
Task == [pc : WriterPC, n : Nat, found : Seq(AllTexts \union {None}),
         asked : Seq(Nat), base : Nat, got : Nat, puts : Nat, short : BOOLEAN]
Fresh == [pc |-> "begin", n |-> 1, found |-> <<>>, asked |-> <<>>, base |-> 0, got |-> 0,
          puts |-> 0, short |-> FALSE]

ErasurePC == {"begin", "select", "delete", "cache", "audit", "done"}
Erasure == [pc : ErasurePC, dry : BOOLEAN, had : SUBSET Chunks, seen : SUBSET Chunks,
            counted : Nat]

Init ==
    /\ backend \in Backends
    /\ store = "unset" /\ operational = FALSE
    /\ schema = "none" /\ rows = {} /\ points = {}
    /\ cache = <<>>
    /\ task = [w \in Writers |-> Fresh]
    /\ erase \in [Erasures -> [pc : {"begin"}, dry : BOOLEAN, had : {{}}, seen : {{}},
                               counted : {0}]]
    /\ audit = <<>>

Stores == <<schema, rows, points>>
Goto(w, pc) == task' = [task EXCEPT ![w].pc = pc]
(* A document without chunks has nothing to embed or to store.             *)
Begun(w) == IF Texts[w] = <<>> THEN "done" ELSE "lookup"

-----------------------------------------------------------------------------
(* embed_batch.  A post embeds its chunks one by one, a job all at once.   *)
Batch(w) == IF w \in Posts THEN <<Texts[w][task[w].n]>> ELSE Texts[w]
Cached(t) == \E i \in DOMAIN cache : cache[i].text = t
CacheGet(t) == cache[CHOOSE i \in DOMAIN cache : cache[i].text = t].vec

(* Mutant: the limit is compared with > instead of >=.                     *)
CachePutLate(c, t, v) ==
    LET kept == IF Len(c) > MaxCache THEN SubSeq(c, Evicted + 1, Len(c)) ELSE c
        at   == {i \in DOMAIN kept : kept[i].text = t}
    IN IF at = {} THEN Append(kept, [text |-> t, vec |-> v])
       ELSE [i \in DOMAIN kept |-> IF i \in at THEN [text |-> t, vec |-> v] ELSE kept[i]]
(* _cache_put: at the limit the oldest entries go first.                   *)
CachePut(c, t, v) ==
    LET kept == IF Len(c) >= MaxCache THEN SubSeq(c, Evicted + 1, Len(c)) ELSE c
        at   == {i \in DOMAIN kept : kept[i].text = t}
    IN IF at = {} THEN Append(kept, [text |-> t, vec |-> v])
       ELSE [i \in DOMAIN kept |-> IF i \in at THEN [text |-> t, vec |-> v] ELSE kept[i]]

Lookup(w) ==
    LET s == task[w]
        i == Len(s.found) + 1
        t == Batch(w)[i]
        asked == IF Cached(t) THEN s.asked ELSE Append(s.asked, i) IN
    /\ s.pc = "lookup"
    /\ task' = [task EXCEPT ![w].found = Append(@, IF Cached(t) THEN CacheGet(t) ELSE None),
                            ![w].asked = asked,
                            ![w].pc = CASE i < Len(Batch(w)) -> "lookup"
                                        [] i = Len(Batch(w)) /\ asked = <<>> -> "store"
                                        [] OTHER -> "encode"]
    /\ UNCHANGED <<backend, store, operational, Stores, cache, erase, audit>>

(* What is pending is asked for a batch at a time.                         *)
Wanted(s) ==
    IF s.base + BatchSize <= Len(s.asked) THEN BatchSize ELSE Len(s.asked) - s.base
NextBatch(s) ==
    IF s.base + BatchSize < Len(s.asked)
      THEN [s EXCEPT !.pc = "encode", !.base = @ + BatchSize, !.got = 0, !.puts = 0]
      ELSE [s EXCEPT !.pc = "store"]

(* The provider answers one of max_attempts calls, or none of them.        *)
Encode(w, got) ==
    LET s == task[w]
        answered == [s EXCEPT !.got = got, !.short = @ \/ got < Wanted(s)] IN
    /\ s.pc = "encode"
    /\ got = Wanted(s) \/ (ShortAnswers /\ got < Wanted(s))
    /\ task' = [task EXCEPT ![w] = IF got > 0 THEN [answered EXCEPT !.pc = "put"]
                                              ELSE NextBatch(answered)]
    /\ UNCHANGED <<backend, store, operational, Stores, cache, erase, audit>>

EncodeRaises(w) ==
    /\ task[w].pc = "encode"
    /\ Goto(w, "failed")
    /\ UNCHANGED <<backend, store, operational, Stores, cache, erase, audit>>

(* Mutant: the offset of the batch is forgotten.                           *)
LocalIndex(s) == s.asked[s.puts + 1]
GlobalIndex(s) == s.asked[s.base + s.puts + 1]
Put(w) ==
    LET s == task[w]
        vec == Batch(w)[s.asked[s.base + s.puts + 1]]
        filled == [s EXCEPT !.found[GlobalIndex(s)] = vec, !.puts = @ + 1] IN
    /\ s.pc = "put"
    /\ cache' = CachePut(cache, vec, vec)
    /\ task' = [task EXCEPT ![w] = IF s.puts + 1 < s.got THEN filled ELSE NextBatch(filled)]
    /\ UNCHANGED <<backend, store, operational, Stores, erase, audit>>

(* [r for r in results if r is not None]: the n-th vector is the one of    *)
(* the n-th place that has one.                                            *)
Places(found) == {i \in DOMAIN found : found[i] # None}
Nth(at, n)    == CHOOSE i \in at : Cardinality({k \in at : k <= i}) = n
Present(found) ==
    [n \in 1..Cardinality(Places(found)) |-> found[Nth(Places(found), n)]]
Vectors(w) == Present(task[w].found)

EmbedBatch(w) ==
    \/ Lookup(w) \/ EncodeRaises(w) \/ Put(w)
    \/ \E got \in 0..BatchSize : Encode(w, got)

-----------------------------------------------------------------------------
(* A chunk's id: of its place for a post, of its place and text for a job. *)
ChunkId(c) == IF c.by \in Posts THEN <<Source[c.by], c.n>>
              ELSE <<Source[c.by], c.n, Texts[c.by][c.n]>>
Replacing(stored, new) ==
    {c \in stored : \A d \in new : ChunkId(c) # ChunkId(d)} \union new
OfSource(stored, w) == {c \in stored : Source[c.by] = Source[w]}

(* CREATE TABLE IF NOT EXISTS.                                             *)
Created(columns) == IF schema = "none" THEN columns ELSE schema

(* get_store(): Qdrant when it answers, SQLite otherwise.                  *)
GetStore ==
    /\ store = "unset"
    /\ \E w \in Posts : task[w].pc = "begin"
    /\ \/ store' = "qdrant" /\ operational' = TRUE /\ backend = "qdrant" /\ UNCHANGED schema
       \/ store' = "sqlite" /\ operational' = TRUE /\ schema' = Created("api")
    /\ UNCHANGED <<backend, rows, points, cache, task, erase, audit>>

(* Mutant: an error of Qdrant goes unnoticed.                              *)
QdrantErrorHidden == operational' = operational
QdrantError == operational' = FALSE

(* The API's store of either kind: done, or, in the words of its client,   *)
(* failed.  Qdrant's errors are swallowed, and nothing is tried any more.  *)
OnQdrant(written) ==
    \/ operational /\ points' = written /\ UNCHANGED operational
    \/ operational /\ QdrantError /\ UNCHANGED points
    \/ ~operational /\ UNCHANGED <<points, operational>>

DeleteBySource(p) ==
    /\ task[p].pc = "begin" /\ store # "unset"
    /\ IF store = "qdrant"
         THEN /\ OnQdrant(points \ OfSource(points, p))
              /\ Goto(p, Begun(p))
              /\ UNCHANGED rows
         ELSE /\ \/ rows' = rows \ OfSource(rows, p) /\ Goto(p, Begun(p))
                 \/ UNCHANGED rows /\ Goto(p, "failed")
              /\ UNCHANGED <<points, operational>>
    /\ UNCHANGED <<backend, store, schema, cache, erase, audit>>

NextPiece(s) == [Fresh EXCEPT !.pc = "lookup", !.n = s.n + 1, !.short = s.short]
AfterPiece(p) == IF task[p].n < Len(Texts[p]) THEN NextPiece(task[p])
                 ELSE [task[p] EXCEPT !.pc = "done"]

(* embed_text raises when there is no vector.                              *)
NoVector(p) ==
    /\ task[p].pc = "store" /\ Vectors(p) = <<>>
    /\ Goto(p, "failed")
    /\ UNCHANGED <<backend, store, operational, Stores, cache, erase, audit>>

Upsert(p) ==
    LET new == {[by |-> p, n |-> task[p].n, vec |-> Vectors(p)[1]]}
        next == [task EXCEPT ![p] = AfterPiece(p)] IN
    /\ task[p].pc = "store" /\ Vectors(p) # <<>>
    /\ IF store = "qdrant"
         THEN /\ OnQdrant(Replacing(points, new))
              /\ task' = next
              /\ UNCHANGED rows
         ELSE /\ \/ schema = "api" /\ rows' = Replacing(rows, new) /\ task' = next
                 \/ UNCHANGED rows /\ Goto(p, "failed")
              /\ UNCHANGED <<points, operational>>
    /\ UNCHANGED <<backend, store, schema, cache, erase, audit>>

Post(p) == DeleteBySource(p) \/ EmbedBatch(p) \/ NoVector(p) \/ Upsert(p)

-----------------------------------------------------------------------------
StartJob(j) ==
    /\ task[j].pc = "begin"
    /\ Goto(j, Begun(j))
    /\ UNCHANGED <<backend, store, operational, Stores, cache, erase, audit>>

(* zip(chunks, vectors)                                                    *)
Zipped(j) == {[by |-> j, n |-> i, vec |-> Vectors(j)[i]] : i \in DOMAIN Vectors(j)}

(* _upsert_qdrant: an error falls back to SQLite.  The ids of the points,  *)
(* eight digits of a digest, are taken to differ where ChunkId does and to *)
(* be accepted; for a server that refuses them only the second case is     *)
(* left.                                                                   *)
UpsertQdrant(j) ==
    /\ task[j].pc = "store" /\ backend = "qdrant"
    /\ \/ points' = Replacing(points, Zipped(j)) /\ Goto(j, "done")
       \/ UNCHANGED points /\ Goto(j, "fallback")
    /\ UNCHANGED <<backend, store, operational, schema, rows, cache, erase, audit>>

(* _upsert_sqlite: one transaction, after the table is there.              *)
UpsertSqlite(j) ==
    /\ task[j].pc = "fallback" \/ (task[j].pc = "store" /\ backend = "sqlite")
    /\ \/ /\ schema' = Created("worker") /\ schema' = "worker"
          /\ rows' = Replacing(rows, Zipped(j))
          /\ Goto(j, "done")
       \/ /\ schema' \in {schema, Created("worker")}
          /\ UNCHANGED rows
          /\ Goto(j, "failed")
    /\ UNCHANGED <<backend, store, operational, points, cache, erase, audit>>

ProcessJob(j) == StartJob(j) \/ EmbedBatch(j) \/ UpsertQdrant(j) \/ UpsertSqlite(j)

-----------------------------------------------------------------------------
(* rtbf_certificate.  Its helpers swallow what they raise and return 0.    *)
OfSubject(stored, e) == {c \in stored : Subject[c.by] = Target[e]}
Tagged(stored, e) == {c \in OfSubject(stored, e) : c.by \in Jobs}

BeginErasure(e) ==
    /\ erase[e].pc = "begin"
    /\ erase' = [erase EXCEPT ![e].pc = "select", ![e].had = OfSubject(rows \union points, e)]
    /\ UNCHANGED <<backend, store, operational, Stores, cache, task, audit>>

(* The filter's count, or its delete, which is reported as 1.              *)
EraseQdrant(e) ==
    LET hits == Tagged(points, e) IN
    /\ erase[e].pc = "select" /\ backend = "qdrant"
    /\ \/ /\ ~erase[e].dry
          /\ points' = points \ hits
          /\ erase' = [erase EXCEPT ![e].pc = "cache", ![e].seen = hits, ![e].counted = 1]
       \/ /\ erase[e].dry
          /\ erase' = [erase EXCEPT ![e].pc = "cache", ![e].counted = Cardinality(hits)]
          /\ UNCHANGED points
       \/ erase' = [erase EXCEPT ![e].pc = "cache"] /\ UNCHANGED points
    /\ UNCHANGED <<backend, store, operational, schema, rows, cache, task, audit>>

(* SELECT COUNT( * ): raises for want of the table or of its column, or    *)
(* because the database is locked.                                         *)
CountSqlite(e) ==
    LET hits == Tagged(rows, e) IN
    /\ erase[e].pc = "select" /\ backend = "sqlite"
    /\ \/ /\ schema = "worker"
          /\ erase' = [erase EXCEPT ![e].seen = hits, ![e].counted = Cardinality(hits),
                         ![e].pc = IF erase[e].dry \/ hits = {} THEN "cache" ELSE "delete"]
       \/ erase' = [erase EXCEPT ![e].pc = "cache"]
    /\ UNCHANGED <<backend, store, operational, Stores, cache, task, audit>>

(* Mutant: the count is kept when the delete fails.                        *)
CountKept(s) == [s EXCEPT !.pc = "cache"]
DeleteFailed(s) == [s EXCEPT !.pc = "cache", !.counted = 0]
DeleteSqlite(e) ==
    /\ erase[e].pc = "delete"
    /\ \/ rows' = rows \ Tagged(rows, e) /\ erase' = [erase EXCEPT ![e].pc = "cache"]
       \/ UNCHANGED rows /\ erase' = [erase EXCEPT ![e] = DeleteFailed(@)]
    /\ UNCHANGED <<backend, store, operational, schema, points, cache, task, audit>>

(* _evict_embed_cache looks for the subject in the keys, which are digests *)
(* of texts: none has it, unless the subject is a few hexadecimal digits.  *)
(* Then the certificate, unless it was a dry run.                          *)
EvictCache(e) ==
    /\ erase[e].pc = "cache"
    /\ erase' = [erase EXCEPT ![e].pc = IF erase[e].dry THEN "done" ELSE "audit"]
    /\ UNCHANGED <<backend, store, operational, Stores, cache, task, audit>>

WriteAudit(e) ==
    /\ erase[e].pc = "audit"
    /\ \/ audit' = Append(audit, [subject |-> Target[e], chunks |-> erase[e].counted])
       \/ UNCHANGED audit
    /\ erase' = [erase EXCEPT ![e].pc = "done"]
    /\ UNCHANGED <<backend, store, operational, Stores, cache, task>>

Erase(e) == \/ BeginErasure(e) \/ EraseQdrant(e) \/ CountSqlite(e) \/ DeleteSqlite(e)
            \/ EvictCache(e) \/ WriteAudit(e)

Next == \/ GetStore
        \/ \E p \in Posts : Post(p)
        \/ \E j \in Jobs : ProcessJob(j)
        \/ \E e \in Erasures : Erase(e)

Spec == Init /\ [][Next]_vars

-----------------------------------------------------------------------------
(* Types, the limit of the cache (_cache_put), and one entry for a text.   *)
RtbfTypeOK ==
    /\ backend \in Backends /\ store \in Backends \union {"unset"}
    /\ operational \in BOOLEAN /\ schema \in {"none", "api", "worker"}
    /\ rows \subseteq Chunks /\ points \subseteq Chunks
    /\ cache \in Seq([text : AllTexts, vec : AllTexts]) /\ Len(cache) <= MaxCache
    /\ Cardinality({c.text : c \in Range(cache)}) = Len(cache)
    /\ task \in [Writers -> Task] /\ erase \in [Erasures -> Erasure]
    /\ Len(audit) <= Cardinality(Erasures)

(* A vector belongs to the text it is stored with, whoever filled the      *)
(* cache and whatever it has evicted: in the cache always, with a chunk    *)
(* unless a provider's answer was short (embed_batch, zip in the worker).  *)
OwnVectors ==
    /\ \A c \in Range(cache) : c.vec = c.text
    /\ \A c \in rows \union points : task[c.by].short \/ c.vec = Texts[c.by][c.n]

(* A chunk of a post or job that succeeded is stored; if it is not, it was *)
(* erased, its document posted again, the provider's answer was short, or  *)
(* the API's store says that it is not operational (store.py, worker.py).  *)
(* A job takes the chunks of an earlier job of its document over, under    *)
(* its own subject: they are erased with that one.                         *)
ErasedFor(w) ==
    \E e \in Erasures, j \in Jobs :
        /\ ~erase[e].dry /\ erase[e].pc # "begin"
        /\ Target[e] = Subject[j] /\ Source[j] = Source[w]
Excused(w) ==
    \/ task[w].short
    \/ w \in Posts /\ ~operational
    \/ w \in Jobs /\ ErasedFor(w)
    \/ \E p \in Posts \ {w} : task[p].pc # "begin" /\ Source[p] = Source[w]
Stored(w, n) == \E c \in rows \union points : ChunkId(c) = ChunkId([by |-> w, n |-> n])
NothingLostSilently ==
    \A w \in Writers : (task[w].pc = "done" /\ ~Excused(w)) =>
        \A n \in DOMAIN Texts[w] : Stored(w, n)

(* What a certificate says it deleted is gone, whatever ran beside the     *)
(* erasure: an erasure that failed between its count and its delete does   *)
(* not report the count (_delete_from_vector_store).                       *)
CertifiedIsGone ==
    \A e \in Erasures :
        (~erase[e].dry /\ erase[e].pc \in {"cache", "audit", "done"} /\ erase[e].counted > 0) =>
            erase[e].seen \intersect (rows \union points) = {}

(* Not a property of the code: rtbf.py promises to remove all chunks of    *)
(* the subject from the vector store, and answers "purged".                *)
PurgedIsForgotten ==
    \A e \in Erasures : (~erase[e].dry /\ erase[e].pc = "done") =>
        erase[e].had \intersect (rows \union points) = {}
=============================================================================
