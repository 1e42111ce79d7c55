# A verification of the self-healing enterprise RAG service

TLA+ models of the service in `src/shrag`, the TLC runs that check them on small
instances, and TLAPS proofs, for every value of the constants, of all the safety
invariants those runs check. Line numbers below are those of the repository's files.

## 1. The system

| Component | State it keeps | Operations | Interacts with |
|---|---|---|---|
| Background ingest queue, `ingest/worker.py` | the queue, the processing list and the dead-letter list (Redis, or a list in the process), the status store, the thread pool | enqueue, poll, process, acknowledge, retry, dead-letter, stop | callers in any thread, Redis, the vector store |
| API server, `api/routes.py` with `api/backpressure.py` | the inflight guard, six stage bulkheads | `POST /query`, `POST /docs`, status, feedback, health | every store below; each request runs in a thread of its own |
| Idempotency keys and jobs, `api/idempotency.py`, `api/jobs.py` | two SQLite tables | `seen`, `mark`; `create_deterministic`, `update_status`, `get` | `/docs` |
| Ingest stage and chunk store, `ingest/pipeline.py`, `ingest/store.py` | the table of chunks | delete a document's chunks, upsert one chunk, read all | `/docs` writes, `/query` reads |
| Query stages: `retrieve`, `grade`, `generate`, `reflect`, `heal`, `eval`, `security` | none but their bulkheads | one call per query each | the chunk store, the language model |
| Rate limiter, `api/rate_limit.py` | counters per window, in SQLite or Redis | `allow` | every endpoint |
| Right to be forgotten, `security/rtbf.py` | nothing of its own | a cascade of deletions | chunk store, logs, cache |
| Embeddings, `ingest/embed.py` | a bounded cache | `embed_batch` with retries | ingest and retrieval |
| Canary, circuit and retry, `heal/canary.py`, `heal/retry.py` | a window of errors, a list of results | record, trip, report | the healing stage |
| Repair, refinement, CoVe, ReAct | nothing | bounded loops around the model | the language model |
| Connectors, `ingest/connectors` | cursors | discover, fetch, tombstones | outside systems |
| Authentication and authorisation, `security/authn.py`, `authz.py` | settings | identify, authorise, check a scope | every endpoint |
| Training and promotion, `ops/training` | a registry in one JSON file | train, gate, promote, roll back | the release gate |
| Release verification and drills, `ops/verification`, `ops/drills` | reports | read reports, decide | the registry |

What is hard here, and hardly reached by the repository's tests: requests of
different threads that interleave between two critical sections (keys and jobs;
the delete and the upserts of a document; a query that reads in between); a
worker that dies or a Redis call that raises at any point of a job's way; a
retry of what was half done; guards that must be given back on every way out;
and long chains of pure decisions (score, abstain, circuit, repair) that nobody
looks at together. `PROJECT.json` lists each of these hazards at its line.

What makes each component correct:

* the queue: a job is in one place at a time, is never dropped, is tried at most
  as often as configured, and its status is true;
* `/docs`: no slot leaks, one request ingests for a key, the answer is true, and
  what a completed job promised is in the store, without remains of old versions;
* `/query`: no slot leaks in any stage, the evidence is of one version and of the
  own tenant, citations are among the evidence, an issue never passes unhealed,
  and every admitted query is answered;
* the stores and the embeddings: a chunk has the vector of its own text, and what
  was answered completed is stored or the store says that it is not operational;
* erasure: what is certified as deleted is gone, also beside a running ingest;
* the limiter: no more requests in a minute than allowed, no counter for ever;
* the loops around the model: they end, and what they call done was looked at;
* the registry and the gate: what is promoted was trained, no record is lost
  without a race, and a release that passed rests on what really happened.

## 2. The modules

| Module | Models | Lines |
|---|---|---|
| `IngestQueue` | the queue of `worker.py`, all but the content of the vectors | 44-380 |
| `JobLifecycle` | what the queue promises to a poller of `get_job_status` | abstract |
| `IngestQueueProofs` | theorems about `IngestQueue` | |
| `IngestQueueRefinement` | that `IngestQueue` implements `JobLifecycle` | |
| `DocsApi` | `docs()` and everything it calls that keeps state | `routes.py` 455-535, `pipeline.py` 45-131 |
| `DocsApiProofs` | theorems about `DocsApi` | |
| `QueryApi` | `query()`, its stages, and the two endpoints in one server | `routes.py` 363-430 |
| `QueryApiProofs` | theorems about `QueryApi` | |
| `Rtbf` | what is stored of a subject, by both writers, with its vectors, and the erasure | `embed.py`, `store.py`, `_process_job` of `worker.py`, `rtbf.py` |
| `RtbfProofs` | theorems about `Rtbf` | |
| `LlmLoops` | the bounded loops around the model | `refine.py`, `cove.py`, `react.py`, `repair.py`, `retry.py` |
| `Canary` | the shadow threads that run those loops, and their circuit | `canary.py` |
| `CanaryProofs` | theorems about `LlmLoops` and `Canary` | |
| `Authz` | identity, versions, roles, scopes and rules | `authn.py`, `authz.py`, `versioning.py`, `routes.py` |
| `Gateway` | the limiter behind each admitted request; the readiness of a region | `rate_limit.py`, `ha.py` |
| `GatewayProofs` | theorems about `Authz` and `Gateway` | |
| `Governance` | training, promotion, the registry, the evidence, the release gate and the audit | `ops/training`, `ops/verification`, `ops/drills`, `finetune/contracts.py` |
| `GovernanceProofs` | theorems about `Governance` | |
| `MC...` | the instances TLC checks | |

`QueryApi` EXTENDS `DocsApi` and composes the two: a query and a post share the
inflight guard, the chunk store, the faults and the crash. `Canary` EXTENDS
`LlmLoops`: a shadow thread runs a loop to its end and records it. `Gateway`
EXTENDS `Authz`: only what is admitted comes to the limiter. `Rtbf` composes the
worker's job and the post at the database they share; the retries of a job are
in `IngestQueue`, the batches of a post in `DocsApi`.

### IngestQueue

`queue`, `processing`, `dlq` are the three Redis lists (for the local backend,
`queue` is `_local_queue`); `store` is `_status_store`; `caller` says where each
`enqueue_ingest_job` is; `loop` is the thread of `run()` with the job in its
hand; `pool` and `worker` are the executor's queue and threads; `stopping` and
`shutdown` are the event and the executor's refusal.

One action is one step between two points where another thread or Redis can be
seen: `StoreJob`, `PushJob` (`enqueue_ingest_job`), `CheckStop`, `Pop`,
`PopEmpty`, `Submit` (`run`), `StartJob`, `CompleteJob`, `Ack`, `FailJob`,
`Requeue`, `DlqPush`, `DlqRem` (`_process_one` and what it calls), `Stop`,
`Shutdown` (`stop`). Every Redis call may raise, before or after the server did
its part: `PushJobRaises`, `PopRaises`, `AckRaises`, `HandlerRaises`, with the
code's way of (not) catching it. `Crash` keeps what Redis holds and starts a new
worker. An entry has the fields that change (`retries`, `status`); it is compared
as a whole, as LREM compares payloads.

### DocsApi

`pc` is a request's place in `docs()`; `previously` and `created` are its
variables; `inflight` and `ingesting` the two guards; `seen`, `jobs`, `store` the
three tables. Each store call holds its lock, so each is one action. `last` and
`mixed` are history: who deleted a document's chunks last, and which documents
two requests ingested at once. A request may be refused (`EnterRefused`,
`LimitRefuses`, `IngestRefused`), fail (`TableRaises`, `DecodeRaises`, `IngestRaises`,
`CompleteRaises`) or be lost in a `Crash`; the tables outlive it. `TableRaises` is an
exception of `seen`, `mark` or `create_deterministic`; `CompleteRaises` is one of
`update_status`, or of the `get` behind it, when the row already says completed and the
client is told 500. Keys, jobs and chunks are identified by the tuples the code joins
with `:`: two that would be the same string (a document id that contains `:att:`, a
tenant that ends like another's key begins) are taken to be different.

### QueryApi

`place` and `stage` say where a query is; `busy` holds the five bulkheads;
`chunks`, `draft`, `issues`, `reply` are what the stages hand on. Retrieval is
one read of the whole table; which of the relevant chunks come first, and their
scores, are a free choice within the cap per source, `top_k` and the grader's
threshold; `_dedupe_chunks` keeps one of the pieces of a document that read alike, and any two
pieces of one text may do so (`MayReadAlike`). The scores of the evaluation are computed in thousandths from the
length of the text, its citations and whether it repeats the query, exactly as
the judges, the critic and `should_abstain` do, because the decisions after them
depend on nothing else. The model answers, fails and is retried, and at the end
falls back to the mock or fails the request.

### Rtbf

`schema` is whose columns the table `chunks` has: the API's store and the worker
both say CREATE TABLE IF NOT EXISTS with different columns (`store.py` 41,
`worker.py` 209), so the table is of whichever came first and the other's inserts
fail. `rows` and `points` are the table and the Qdrant collection, `store` and
`operational` what `get_store` has built; a Qdrant error is swallowed and turns
the store into a no-op. `cache` is the embedding cache, oldest first, and a vector
is the text it was made of, so that a vector in a wrong place shows. `task` is a
post or a job, one step for each lookup, provider call, put and store call; what
is pending goes to the provider in batches of `BatchSize` (`NextBatch`), each of which
may be answered short or fail, the earlier ones being cached by then;
`erase` is a call of `rtbf_certificate`, a step for its count, its delete, the
cache and the certificate. Every helper of the erasure may fail at its call and
then reports 0. `had` and `seen` are history: the subject's chunks when the
erasure began, and those its count or filter matched. The worker's ids of points are
eight digits of a digest (`worker.py` 248): the model takes them to differ and to be
accepted. A Qdrant server that takes only numbers and UUIDs refuses them all; that is
the choice of `UpsertQdrant` that fails every time, and each job then falls back to
SQLite.

### LlmLoops and Canary

`call` is one call of a loop by each thread. A completion is what the loop tells
apart (blank, similar, new; confirmed or not; empty, short, long; raised), a
version of an answer is how often it was rewritten. A critic that raises says
nothing, and nothing said converges; a model that raises while it improves
returns the answer, which is then similar; UNCONFIRMED contains CONFIRMED and
counts as it (`cove.py` 130). What a prompt shows and what an answer cites is left
out: no decision of these loops looks at it. `Canary` has `shadow` (where a request
and its thread are), `errors` (the age of each error of the window) and `results`. The
errors join the window under one lock, so they are in order of time and pruning
keeps the end of the list. `Check` looks at the circuit, `StartShadow` starts the
thread, `Record` is the critical section at the end; `Tick` lets the errors grow
old. `run_canary_shadow` takes any function (`canary.py` 105) and no code of the
repository calls it: that the function is one of the loops above is the model's choice,
so that the two are composed at least once.

### Authz and Gateway

`Authz` is operators: whom a request's token or headers make it, in which order
the endpoint's dependencies refuse it, which scopes its roles have, and the loop
of `_abac_allows`. Two facts of the code are in it: an unset SHRAG_ROLE_SCOPES
parses to an empty mapping, so the module's defaults are used only when the setting
parses to something that is no mapping (`authz.py` 54-57, `RoleScopes`), and a
deprecated version is among the supported ones and is refused all the same. An
access of `CheckScope` may bring scopes granted explicitly, roles from the user or
from a token, a role in another case than the rule's, and a resource without the tag
a rule asks for; `Accesses` are all of these. `Gateway` counts time in half minutes. `Arrive` computes the window,
before any lock; then Redis' `Incr` and `Expire`, or SQLite's `Lock`, `Select` and
`Write`. `KeyExpires` is Redis' own. `CallRaises` is a call that raises before or
after the server did its part, `Crash` a process that dies. `onTime` and `late` are
history: what was let through in a minute, by the window it was counted in.

### Governance

The jobs of `ops` are separate programs that talk through the files of `.state`
and the registry. `dir` holds one record for each file, `registry` the JSON file
(`Torn` between the truncation of `open("w")` and the write) or the service's
table, `lane` the job each terminal or runner is in, `verdict` what the last gate
said. A job that reads several files, or reads, changes and writes one, does so in
several steps: the readiness check reads its four reports one by one (`ReadDataset` to
`ReadExec`), and the gate its eight files (`GateBase` for scale, benchmark, drill and
connectors, then `GateReadiness` to `GateStrict`). `Killed` may end a job between any
two steps. `stored` and `facts` are history: the rows that were written and what the
jobs really did, with the mode they ran in.

A mode is "production", "simulated", the same word spelled "Simulated", or another:
the contracts compare it in lower case (`contracts.py` 132), the promotion does not
(`run_promotion.py` 69) and writes "Simulated" as production. The scale report is a
script's that always passes, the benchmark's may fail. The default training command
is an echo: a "real" training is what its mode and return code say. Three things are
left out: `run_finetune_readiness_simulated.py`, which no make target runs and which
writes the three reports at once without any row of the registry (`PromotedDescends`
would not hold of its promotion report); a readiness report without details
(`enterprise_readiness_audit.py` 99), which no job writes; and the audit's items that
only ask whether a file is there (60-79, 117-130).

## 3. The runs

| Run | Instance | What it shows |
|---|---|---|
| `queue_safety` | 3 jobs, 2 threads, both backends, 2 retries, a stop, 2 raised calls, 1 crash; symmetric in jobs and threads | seven invariants of the queue |
| `queue_settles` | 3 jobs, no fault | every job settles; the queue implements `JobLifecycle` |
| `queue_ack` | 1 job, no fault | a settled job's payload stays in the processing list |
| `docs_api` | 3 posts (a retried key, a damaged attachment, another version, another tenant), 2 inside, 1 or 2 ingests, 1 raised call, 1 crash | six invariants, and that accepted jobs complete unless their request failed |
| `docs_tenants` | two tenants, one document id | one deletes the other's chunks |
| `query_api` | a query beside two posts of one document; two queries in stages of size 1; a flagged query; 1 raised call, 1 crash | five invariants, and that admitted queries are answered |
| `query_heal` | one query with a good answer | healing replaces a text that passes every check |
| `rtbf` | a post and two jobs of one document, under two subjects; an erasure of one of them; texts in common, a cache of two, batches of two, both backends, any call failing | own vectors, nothing lost silently, what is certified is gone |
| `rtbf_purged` | the same | "purged" is answered and the subject's chunks are there |
| `canary` | a thread over every loop beside one that may fail; one error allowed in a window of two ticks | an answer called converged was scored; the window's overshoot is bounded; calls end; the circuit closes again |
| `gateway` | two threads, one process on SQLite or two on Redis, a limit of two, two minutes, 1 fault; two lists of rules | the limit holds, only a fault leaks a counter, a deny cannot be overridden |
| `governance` | two lanes: two trainings and promotions on both backends; a production lane up to the strict gate beside a second training or simulated jobs, or in an odd mode, or simulated and spelled otherwise; a simulated lane beside the relaxed gate; any job killed | promotions descend from trainings, records are lost by a race only, a release is grounded, gate and audit agree |

Every property of a passing run has a mutant: a definition of the code changed as
a bug would change it (kept beside the definition, marked `Mutant`), under which
TLC finds the property violated. No violated run needs a crash; `PROJECT.json`
quotes the line each of them contradicts.

What else the models show of the code, without a run of its own:

* A job popped before a crash of the worker stays in the processing list, and no
  code reads that list back: `NeverLostFromRedis` says that it is kept, not that
  it is ever processed (`worker.py` 114, beside the docstring's "At-least-once
  delivery", line 13).
* `stop()` may shut the executor down while the loop holds a job it has just
  popped; `submit` raises, the thread dies, and with the local backend the job is
  in no list (`worker.py` 365).
* A post refused by the full bulkhead leaves its job row: the retry with the same
  key is answered as a duplicate of a job that stays "accepted" (`routes.py` 515;
  the exception in `AcceptedCompletes`).
* The strict gate accepts a training command whose provenance mode is neither
  simulated nor production; the enterprise audit does not. It is the one
  exception in `GateAgreesWithAudit`.
* A promotion that ran with the mode spelled "Simulated" is reported as production,
  and a strict gate accepts it; a training spelled so is refused (`ReleaseGrounded`
  counts them so).
* The gate compares no run ids: reports of different runs pass together, and a
  promotion may write a record back over that of a newer training. `ReleaseGrounded`
  and `PromotedDescends` say what holds all the same: each report was of something
  that had happened, and what is promoted had been registered.
* A post may be answered 500 with its job completed: `update_status` commits before
  the `get` that raises (`routes.py` 519-520).
* A registered record disappears when two jobs overlap between reading and writing
  the registry's file, and a file torn by two writers stops every later job
  (`LostOnlyByOverlap` says that nothing else loses one).
* The limit may be exceeded in a minute, by requests that were counted in the
  minute before: by at most one for each thread (`LimitHolds`).
* A job that stores a text at a place where another job of the same document has
  stored it takes the chunk over, under its own subject: an erasure of the second
  job's subject removes what the first job was told is completed, and one of the
  first job's subject leaves it (`worker.py` 224, `ErasedFor` in
  `NothingLostSilently`). The proof found it: the exception was first stated for
  the subject of the job itself, and could not be proved.
* No text of the model reaches a client: every answer of `/query` abstains, has
  confidence 0 and was repaired (`NoTextSurvives`, proved; `query_heal` shows it of
  one good text).
* The canary's window may hold more errors than allowed: one for each thread that
  had passed the check.

**Bounds.** Two jobs meet in every list and two threads in every step; the third
job lets a queue have an order. One retry left and none left are both reached
with a limit of two. Two faults allow a fault in the handling of a fault. For the
posts, two with one key and a third with the same document give each pair of
requests that share state; documents have no, one or two pieces, so that a version may be
longer or shorter than the next. Stage limits of one make two queries contend.
The model's texts are one that is empty and one of 70 characters that cites a
source it was not given; `query_heal` has one of 400 that passes every check.
In `rtbf`, three texts do not fit a cache of two, so that an entry is evicted
between a lookup and a put, nor a batch of two, so that the last one comes in a
batch of its own; the post and the jobs are of one document, so that
each may replace another's chunks, and the jobs share a chunk under two subjects,
so that one takes it from the other. In `gateway`, a limit of two can be met by two threads and
exceeded by a third request of the same; two minutes have one boundary, where a
late request, an expiry and a crash can all happen. In `canary`, rounds of two let
a loop end in its first, its last and by exhaustion, four questions pass the three
a revision names. In `governance`, two models and two runs are what it
takes for a write to lose another's; each script is one of the make targets' real
orders. Where a system really may come to rest (a stopped worker, requests that
are all answered, jobs that are all over) the configuration says `CHECK_DEADLOCK
FALSE`.

**Fairness.** A thread that can go on does: weak fairness of each caller once it
has begun, of the loop and of each pool thread; of each admitted request; of a
shadow thread that was started, and of the clock that ages the errors. That is
what the operating system's threads give. Nothing has to raise, crash, stop, be
sent or be sampled. The stages are under weak fairness as a whole, so nothing promises that
the model ever succeeds: `QueriesAnswered` rests on the bound of its retries, and
`EveryCallEnds` on the bounds of the loops. `Rtbf`, `Gateway` and `Governance`
state safety only.

## 4. The proofs

`IngestQueueProofs` proves, for any sets of jobs and threads, any `MaxRetries`,
any number of faults and crashes, and from nothing but `QueueAssumption`:
`TypeCorrect`, `OneCopy`, `NoDrop`, `RedisKeeps`, `BoundedAttempts`,
`ExhaustedDeadLetters`, `TruthfulStatus`: the seven invariants of `queue_safety`.

None of them is inductive alone. The inductive invariant is `TypeInv` (types, and
which hands are empty) and `IInv`: the copies of a job exclude one another and are
distinct (`CopiesOK`), each copy agrees with the status store (`StoreOK`) and with
the history of attempts (`RecordsOK`), and there is a place where Redis still
has the job (`KeptOK`). `OneCopy` needs `RecordsOK` because only the retry counter
tells a payload in the processing list from the one in the queue;
`BoundedAttempts` needs `CopiesOK` because two copies would share one counter.
The step is split by action, and under each action by conjunct; the lemmas on
sequences (what Append and Tail do to the set of entries) come first.

`DocsApiProofs` proves the six invariants of `docs_api` for any set of requests,
any workload, any limits and any number of faults and crashes, from
`DocsAssumption`: `TypeCorrect`, `SlotsCorrect`, `CreatorUnique`,
`TruthfulAnswers`, `NothingStale`, `CompletedStored`. `SlotsMatch` is inductive
beside the types; the others are not. `CreatorInv` adds that a request before
`create_deterministic` created nothing (`CreatedOK`) and that every job has a
creator (`Somebody`), which a repeated post's "duplicate" rests on. `StoreInv`
says what an ingest has written so far: between the pieces of a document, the
pieces before this one (`WriterOK`); of the documents it has passed, all of them
until somebody begins them again (`PassedOK`); and a completed job has passed all
(`DoneOK`). `mixed` is the exception two overlapping ingests of one document need:
without it neither statement holds.

`IngestQueueRefinement` proves `FollowsLifecycle`: with `MaxFaults = 0` and
`MaxCrashes = 0` (`Quiet`) the queue implements `JobLifecycle`, for any jobs,
threads and retry limit, stopped or not. Beside `IInv` it needs `Known`: the
status store has an entry of a job exactly when its caller has begun. Four steps
map to steps of `JobLifecycle` (`StoreJob`, `StartJob`, `CompleteJob`, and
`FailJob`, which is a `Retry` or a `GiveUp`), all others to a stutter. It is
false without `Quiet`: a crash forgets the statuses, and an acknowledgement that
raises takes a completed job back to pending.

`GatewayProofs` proves `TypeCorrect`, `NoLeak` and `LimitKept` for any number of
threads, any deployments, limit, duration and faults, from `GatewayAssumption`,
whose part that matters is that with SQLite all threads are of one process.
`BaseInv` says that a backend has its own steps and that the thread about to write
has read the count as it is (by the lock, of which `GatewayTypeOK` says who owns
it). `LimitInv` counts: in a window that is not over, what was let through and
the threads at their EXPIRE are no more than the counter and no more than the
limit (`CountOK`), which an expiry cannot disturb because a key's expiry is set
after its window began and lasts longer than it (`ExpiryOK`); and the late
requests of a minute and the threads still on their way in an earlier window are
together no more than the threads (`LateOK`). `RegionsExclude` is what
`evaluate_ha_readiness` gives: of a primary and a secondary that agree about the
primary's health at most one serves.

`DenyWins` is about the loop of `_abac_allows` over a list of any length. The loop
is a recursive function over the rules; the proof gives its value after `n` rules
in closed form (`Verdict`) and shows that a function which takes the loop's turns
one by one has that value everywhere, at the least place where it would not.

`QueryApiProofs` proves the five invariants of `query_api`, from `QueryAssumption`
and `DocsAssumption`. It uses what `DocsApiProofs` shows of a step of a post, and
shows of a step of a query that it leaves the posts' part alone; so the four
promises of `/docs` hold in the whole server (`DocsPromisesKept`).
`ServerSlotsInv` splits each stage's count into the queries that take, give and
keep a slot in a step. The evidence of a query is what one read of the table
found, and of a document not written by two posts at once the table never has
two versions (`StoreInv` and `OneCreator`'s `CreatorInv`, which is why
`EvidenceCorrect` needs them). `AnswerInv` says by its place what a query carries:
citations are among its chunks (`GroundedOK`; that these are of the client's own
tenant is said by the theorem for any traffic, and is not tried by the run, whose
posts are of one tenant), and once it is answered the text is
repaired (`AnsweredOK`), because the reflection always has an issue
(`UnderwayOK`); `IssuesAreHealed` and `NoTextSurvives` follow from it.

`GovernanceProofs` proves the five invariants of `governance` for any lanes, runs,
models and scripts. A lane on its way to the registry carries a row, and the table
it read (`LaneOK`). `GateAndAuditAgree` needs `ReadinessSawExec`: a strict readiness
report that passed has looked at a training command, and the later checks read the
same reports. `Grounded` follows facts: every report that says real was written by a job that
recorded its fact, and so is what the readiness job and the gate have read already.
`PromotionsDescend` needs that rows in a lane's hand, not only those of the table,
are of registered runs (`RowsDescend`, `TablesStored`). `RowsLostOnlyByOverlap` rests
on `OneWriter`: as long as nobody overlapped, at most one lane is between reading
and writing, and the table in its hand is complete.

`CanaryProofs` proves the three safety invariants of `canary`, the loops' bounds
among them, for any finite set of threads and any bounds. `LoopOK` is the room a
call has left in its loop, by its place. `Room` is the invariant behind
`OvershootIsBounded`: the recent errors and the threads between their check and
their record are together no more than the limit and the number of threads. A
record takes its thread out before it adds its error, and time only removes; that
pruning removes no recent error is the lemma `PrunedAreOld`, which needs the
errors in order of time.

`RtbfProofs` proves the four invariants of `rtbf` for any posts, jobs, erasures,
documents, subjects and sizes of the cache. `RtbfInv` has four parts. `Work`: the
cache has one entry for a text, and each vector that was found or that is still
asked for belongs to the text at its place (`Aligned`, `Coming`, `Waiting`), whatever
the cache evicted since the lookup. `StoresOK`: each store has vectors of their
own texts, and a job's chunks only when the job is over. `ErasuresOK`: the
chunks an erasure has seen are of jobs that are over, so nobody writes them again;
`CertifiedGone` rests on it. `Kept`: what a writer has got through is stored
or excused. `NthIsPlace` and `PresentFacts` say what the filter of `embed_batch`
keeps: every vector, in order, and all of them when the provider was not short.
`WantedFacts` and `NextBatchOK` carry that over the batches: what is missing after one
belongs to a later one, for any size of a batch.

**What the proofs changed in the models.** The excuse of `NothingLostSilently`
above; guards of `Authz` that overlapped, whose order TLC took from the text and
which are now nested as the code's early returns are; a job of `Governance` asks
for the runs and models its kind needs and no others; assumptions on
the constants that the instances met and nobody had written down.

**Only model-checked.** The liveness properties (`EveryJobSettles`,
`AcceptedCompletes`, `QueriesAnswered`, `EveryCallEnds`, `CircuitRecloses`): fairness
and ENABLED are out of the prover's reach. The runs that expect a violation are
TLC's too: a counterexample is one behaviour of one instance.

## 5. Not modelled

* **The text side**: chunkers, loaders, keywords, personal data, prompt guards,
  query rewriting, ranking. They are functions of a text; their results are inputs
  of the models. The keyword cache is the embedding cache again.
* **Connectors**: they translate the answers of outside systems, and no code of the
  repository runs a synchronisation; the cursor is the caller's. Their retry loop
  (`connectors/base.py` 144) has the form of `run_with_retry`, which is modelled.
* **Graph retrieval**, off by default. It falls back to the baseline stage, which
  routes to it again when it is on (`graphrag.py` 201, `retrieve/pipeline.py` 36);
  the RecursionError that ends this is swallowed at line 211.
* **Evaluation gates and retrieval metrics**, offline arithmetic over a list of
  results; **observability**, which nothing reads back into a decision.
* The providers' and Qdrant's HTTP, the signature of a token, the parsing of
  settings; a job id that is enqueued twice and payloads that do not parse; the
  request log of an erasure, which no code writes; ids whose parts join to the same
string; several processes on one SQLite
  file, where neither the limiter's lock nor its counts hold.
* Publishing a release's bundle and the audit of the source tree
  (`plan01_audit.py`): file copies and searches for words.

Next: more of the refinement side. The queue's implementation of `JobLifecycle` is
proved; `/docs` and the registry have no abstract specification of their own yet.
The longest proofs (`RtbfProofs`, `IngestQueueProofs`) can share more lemmas on
sequences.
