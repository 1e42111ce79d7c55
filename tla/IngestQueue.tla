---------------------------- MODULE IngestQueue ----------------------------
(***************************************************************************)
(* The background ingest queue of src/shrag/ingest/worker.py: callers      *)
(* enqueue jobs, one polling loop (IngestWorker.run) moves them to a       *)
(* thread pool, the pool's threads process them, retry them, and move the  *)
(* hopeless ones to a dead-letter queue.  Two backends: "redis" (lists     *)
(* that outlive the process) and "local" (a list in the process).          *)
(*                                                                         *)
(* An entry stands for an IngestJob and for its JSON payload: job_id,      *)
(* retries and status.  The fields that never change (content, template,   *)
(* metadata, created_at) and the error text, which changes only together   *)
(* with retries, add nothing to the comparison of two payloads.            *)
(***************************************************************************)
EXTENDS Naturals, Sequences, Functions

CONSTANTS Jobs,        \* the jobs the callers will enqueue, one call each
          NoJob,       \* not a job: an empty hand
          Threads,     \* the pool's threads (SHRAG_WORKER_CONCURRENCY of them)
          MaxRetries,  \* SHRAG_WORKER_MAX_RETRIES
          Backends,    \* the backends a run looks at
          MayStop,     \* whether stop() may be called
          MaxFaults,   \* bound: Redis calls that raise
          MaxCrashes   \* bound: crashes of the process

ASSUME QueueAssumption ==
    /\ NoJob \notin Jobs
    /\ MaxRetries \in Nat
    /\ Backends \subseteq {"redis", "local"}
    /\ MayStop \in BOOLEAN
    /\ MaxFaults \in Nat
    /\ MaxCrashes \in Nat

VARIABLES backend,     \* SHRAG_REDIS_URL set or not
          queue,       \* shrag:ingest:queue or _local_queue; Head is popped next
          processing,  \* shrag:ingest:processing, a set: its payloads all differ
          dlq,         \* shrag:ingest:dlq
          store,       \* _status_store
          caller,      \* where each caller of enqueue_ingest_job is
          loop,        \* the thread of IngestWorker.run and the job in its hand
          pool,        \* the executor's own queue of submitted jobs
          worker,      \* the executor's threads
          stopping,    \* _stop_event
          shutdown,    \* the executor refuses new work
          faults,      \* Redis calls that raised so far
          crashes      \* crashes so far

VARIABLES failures,    \* history: _process_job calls that raised, per job
          successes    \* history: _process_job calls that returned, per job

redisVars == <<queue, processing, dlq>>
poolVars  == <<loop, pool, worker>>
stopVars  == <<stopping, shutdown>>
history   == <<failures, successes>>
vars == <<backend, redisVars, store, caller, poolVars, stopVars, faults,
          crashes, history>>

Status == {"pending", "processing", "completed", "failed"}
Entry  == [job : Jobs, retries : Nat, status : Status]
NoEntry == [job |-> NoJob, retries |-> 0, status |-> "pending"]
(* Mutant: a status no other step knows.                                   *)
FreshQueued(j) == [job |-> j, retries |-> 0, status |-> "queued"]
Fresh(j) == [job |-> j, retries |-> 0, status |-> "pending"]

LoopPC   == {"check", "pop", "submit", "exited", "dead"}
ThreadPC == {"idle", "run", "ack", "requeue", "dlq", "dlq_rem"}
CallerPC == {"idle", "stored", "returned", "raised"}

LoopState   == [pc : LoopPC, entry : Entry \union {NoEntry}]
ThreadState == [pc : ThreadPC, entry : Entry \union {NoEntry}]

IdleThread == [pc |-> "idle", entry |-> NoEntry]
FirstPoll  == [pc |-> "check", entry |-> NoEntry]

Init ==
    /\ backend \in Backends
    /\ queue = <<>> /\ processing = {} /\ dlq = <<>>
    /\ store = [j \in Jobs |-> NoEntry]
    /\ caller = [j \in Jobs |-> "idle"]
    /\ loop = FirstPoll
    /\ pool = <<>>
    /\ worker = [t \in Threads |-> IdleThread]
    /\ stopping = FALSE /\ shutdown = FALSE
    /\ faults = 0 /\ crashes = 0
    /\ failures = [j \in Jobs |-> 0]
    /\ successes = [j \in Jobs |-> 0]

-----------------------------------------------------------------------------
WithStatus(e, st) == [e EXCEPT !.status = st]
OneMoreRetry(e)   == [e EXCEPT !.retries = @ + 1]

(* _status_set: the store holds the job object itself.                     *)
StatusSet(e) == store' = [store EXCEPT ![e.job] = e]

(* _enqueue_redis (LPUSH) and _enqueue_local.                              *)
Enqueue(e) == queue' = Append(queue, e)

(* _ack_redis, and the second half of _dlq_redis: LREM compares the whole  *)
(* payload, status and retries included.                                   *)
LRem(e) == processing' = processing \ {e}

(* A Redis call raises, before or after the server has carried it out.     *)
Raises ==
    /\ backend = "redis"
    /\ faults < MaxFaults
    /\ faults' = faults + 1

-----------------------------------------------------------------------------
(* enqueue_ingest_job: the status first, then the push.                    *)
StoreJob(j) ==
    /\ caller[j] = "idle"
    /\ caller' = [caller EXCEPT ![j] = "stored"]
    /\ StatusSet(Fresh(j))
    /\ UNCHANGED <<backend, redisVars, poolVars, stopVars, faults, crashes,
                   history>>

PushJob(j) ==
    /\ caller[j] = "stored"
    /\ caller' = [caller EXCEPT ![j] = "returned"]
    /\ Enqueue(Fresh(j))
    /\ UNCHANGED <<backend, processing, dlq, store, poolVars, stopVars,
                   faults, crashes, history>>

PushJobRaises(j) ==
    /\ caller[j] = "stored"
    /\ Raises
    /\ caller' = [caller EXCEPT ![j] = "raised"]
    /\ Enqueue(Fresh(j)) \/ UNCHANGED queue
    /\ UNCHANGED <<backend, processing, dlq, store, poolVars, stopVars,
                   crashes, history>>

-----------------------------------------------------------------------------
(* IngestWorker.run.  The stop event is read before the pop, which may     *)
(* block for poll_timeout seconds: a stop in between is not noticed until  *)
(* the next round.                                                         *)
CheckStop ==
    /\ loop.pc = "check"
    /\ loop' = [loop EXCEPT !.pc = IF stopping THEN "exited" ELSE "pop"]
    /\ UNCHANGED <<backend, redisVars, store, caller, pool, worker, stopVars,
                   faults, crashes, history>>

(* Mutants: the pop leaves the job in the queue; a plain BRPOP.            *)
TakeNextPeeks == queue # <<>> /\ UNCHANGED <<queue, processing>>
TakeNextPlain == queue # <<>> /\ queue' = Tail(queue) /\ UNCHANGED processing

(* BRPOPLPUSH keeps the payload in the processing list; _dequeue_local     *)
(* keeps nothing.                                                          *)
TakeNext ==
    /\ queue # <<>>
    /\ queue' = Tail(queue)
    /\ processing' = IF backend = "redis" THEN processing \union {Head(queue)}
                     ELSE processing

Pop ==
    /\ loop.pc = "pop"
    /\ TakeNext
    /\ loop' = [pc |-> "submit", entry |-> Head(queue)]
    /\ UNCHANGED <<backend, dlq, store, caller, pool, worker, stopVars,
                   faults, crashes, history>>

(* Mutant: an empty queue ends the loop.                                   *)
PopEmptyExits ==
    /\ loop.pc = "pop"
    /\ queue = <<>>
    /\ loop' = [loop EXCEPT !.pc = "exited"]
    /\ UNCHANGED <<backend, redisVars, store, caller, pool, worker, stopVars,
                   faults, crashes, history>>

PopEmpty ==
    /\ loop.pc = "pop"
    /\ queue = <<>>
    /\ loop' = [loop EXCEPT !.pc = "check"]
    /\ UNCHANGED <<backend, redisVars, store, caller, pool, worker, stopVars,
                   faults, crashes, history>>

(* Nothing in run() catches an exception of the pop: the thread is gone.   *)
PopRaises ==
    /\ loop.pc = "pop"
    /\ Raises
    /\ TakeNext \/ UNCHANGED <<queue, processing>>
    /\ loop' = [loop EXCEPT !.pc = "dead"]
    /\ UNCHANGED <<backend, dlq, store, caller, pool, worker, stopVars,
                   crashes, history>>

Submit ==
    /\ loop.pc = "submit"
    /\ ~shutdown
    /\ pool' = Append(pool, loop.entry)
    /\ loop' = FirstPoll
    /\ UNCHANGED <<backend, redisVars, store, caller, worker, stopVars,
                   faults, crashes, history>>

(* After shutdown() submit raises RuntimeError: the thread ends with the   *)
(* job it had popped.                                                      *)
SubmitRefused ==
    /\ loop.pc = "submit"
    /\ shutdown
    /\ loop' = [pc |-> "dead", entry |-> NoEntry]
    /\ UNCHANGED <<backend, redisVars, store, caller, pool, worker, stopVars,
                   faults, crashes, history>>

-----------------------------------------------------------------------------
(* One thread of the pool in _process_one.                                 *)
Step(t, pc, e) == worker' = [worker EXCEPT ![t] = [pc |-> pc, entry |-> e]]
Finish(t) == worker' = [worker EXCEPT ![t] = IdleThread]

(* Mutant: the status is not set when processing starts.                   *)
StartJobSilently(t) ==
    /\ worker[t].pc = "idle"
    /\ pool # <<>>
    /\ pool' = Tail(pool)
    /\ Step(t, "run", WithStatus(Head(pool), "processing"))
    /\ UNCHANGED <<backend, redisVars, store, caller, loop, stopVars, faults,
                   crashes, history>>

StartJob(t) ==
    LET e == WithStatus(Head(pool), "processing")
    IN  /\ worker[t].pc = "idle"
        /\ pool # <<>>
        /\ pool' = Tail(pool)
        /\ Step(t, "run", e)
        /\ StatusSet(e)
        /\ UNCHANGED <<backend, redisVars, caller, loop, stopVars, faults,
                       crashes, history>>

(* _process_job returned: _complete_job up to the acknowledgement.         *)
CompleteJob(t) ==
    LET e == WithStatus(worker[t].entry, "completed")
    IN  /\ worker[t].pc = "run"
        /\ successes' = [successes EXCEPT ![e.job] = @ + 1]
        /\ StatusSet(e)
        /\ IF backend = "redis" THEN Step(t, "ack", e) ELSE Finish(t)
        /\ UNCHANGED <<backend, redisVars, caller, loop, pool, stopVars,
                       faults, crashes, failures>>

Ack(t) ==
    /\ worker[t].pc = "ack"
    /\ LRem(worker[t].entry)
    /\ Finish(t)
    /\ UNCHANGED <<backend, queue, dlq, store, caller, loop, pool, stopVars,
                   faults, crashes, history>>

(* _handle_job_failure up to its first Redis call.                         *)
(* Mutants: the limit is compared one too late, one too early.             *)
OutOfRetriesLate(e)  == e.retries > MaxRetries
OutOfRetriesEarly(e) == e.retries + 1 >= MaxRetries

OutOfRetries(e) == e.retries >= MaxRetries

HandleJobFailure(t) ==
    LET e == OneMoreRetry(worker[t].entry)
        failed  == WithStatus(e, "failed")
        pending == WithStatus(e, "pending")
    IN  \/ /\ OutOfRetries(e)
           /\ StatusSet(failed)
           /\ IF backend = "redis" THEN Step(t, "dlq", failed) ELSE Finish(t)
        \/ /\ ~OutOfRetries(e)
           /\ StatusSet(pending)
           /\ Step(t, "requeue", pending)

FailJob(t) ==
    /\ worker[t].pc = "run"
    /\ failures' = [failures EXCEPT ![worker[t].entry.job] = @ + 1]
    /\ HandleJobFailure(t)
    /\ UNCHANGED <<backend, redisVars, caller, loop, pool, stopVars, faults,
                   crashes, successes>>

(* _complete_job runs inside the try: an exception of the acknowledgement  *)
(* is handled as a failure of the job.                                     *)
AckRaises(t) ==
    /\ worker[t].pc = "ack"
    /\ Raises
    /\ LRem(worker[t].entry) \/ UNCHANGED processing
    /\ HandleJobFailure(t)
    /\ UNCHANGED <<backend, queue, dlq, caller, loop, pool, stopVars, crashes,
                   history>>

(* Mutant: the failed job is not pushed again.                             *)
RequeueForgotten(t) ==
    /\ worker[t].pc = "requeue"
    /\ Finish(t)
    /\ UNCHANGED <<backend, redisVars, store, caller, loop, pool, stopVars,
                   faults, crashes, history>>

Requeue(t) ==
    /\ worker[t].pc = "requeue"
    /\ Enqueue(worker[t].entry)
    /\ Finish(t)
    /\ UNCHANGED <<backend, processing, dlq, store, caller, loop, pool,
                   stopVars, faults, crashes, history>>

DlqPush(t) ==
    /\ worker[t].pc = "dlq"
    /\ dlq' = Append(dlq, worker[t].entry)
    /\ Step(t, "dlq_rem", worker[t].entry)
    /\ UNCHANGED <<backend, queue, processing, store, caller, loop, pool,
                   stopVars, faults, crashes, history>>

DlqRem(t) ==
    /\ worker[t].pc = "dlq_rem"
    /\ LRem(worker[t].entry)
    /\ Finish(t)
    /\ UNCHANGED <<backend, queue, dlq, store, caller, loop, pool, stopVars,
                   faults, crashes, history>>

(* An exception of the exception handler ends in a Future nobody reads.    *)
HandlerRaises(t) ==
    /\ Raises
    /\ \/ /\ worker[t].pc = "requeue"
          /\ Enqueue(worker[t].entry) \/ UNCHANGED queue
          /\ UNCHANGED <<processing, dlq>>
       \/ /\ worker[t].pc = "dlq"
          /\ dlq' = Append(dlq, worker[t].entry) \/ UNCHANGED dlq
          /\ UNCHANGED <<queue, processing>>
       \/ /\ worker[t].pc = "dlq_rem"
          /\ LRem(worker[t].entry) \/ UNCHANGED processing
          /\ UNCHANGED <<queue, dlq>>
    /\ Finish(t)
    /\ UNCHANGED <<backend, store, caller, loop, pool, stopVars, crashes,
                   history>>

-----------------------------------------------------------------------------
(* stop(): the event, and with drain=True the executor's shutdown, which   *)
(* waits for the jobs already submitted.                                   *)
Stop ==
    /\ MayStop
    /\ ~stopping
    /\ stopping' = TRUE
    /\ UNCHANGED <<backend, redisVars, store, caller, poolVars, shutdown,
                   faults, crashes, history>>

Shutdown ==
    /\ stopping
    /\ ~shutdown
    /\ shutdown' = TRUE
    /\ UNCHANGED <<backend, redisVars, store, caller, poolVars, stopping,
                   faults, crashes, history>>

(* The process dies and a new worker starts: what was in memory is gone,   *)
(* the Redis lists stay.  No code reads the processing list back.          *)
Crash ==
    /\ crashes < MaxCrashes
    /\ crashes' = crashes + 1
    /\ queue' = IF backend = "redis" THEN queue ELSE <<>>
    /\ store' = [j \in Jobs |-> NoEntry]
    /\ caller' = [j \in Jobs |-> IF caller[j] = "stored" THEN "raised"
                                 ELSE caller[j]]
    /\ loop' = FirstPoll
    /\ pool' = <<>>
    /\ worker' = [t \in Threads |-> IdleThread]
    /\ stopping' = FALSE
    /\ shutdown' = FALSE
    /\ UNCHANGED <<backend, processing, dlq, faults, history>>

-----------------------------------------------------------------------------
Caller(j) == StoreJob(j) \/ PushJob(j) \/ PushJobRaises(j)

Run == CheckStop \/ Pop \/ PopEmpty \/ PopRaises \/ Submit \/ SubmitRefused

ProcessOne(t) ==
    \/ StartJob(t) \/ CompleteJob(t) \/ Ack(t) \/ FailJob(t) \/ AckRaises(t)
    \/ Requeue(t) \/ DlqPush(t) \/ DlqRem(t) \/ HandlerRaises(t)

Next ==
    \/ \E j \in Jobs : Caller(j)
    \/ Run
    \/ \E t \in Threads : ProcessOne(t)
    \/ Stop \/ Shutdown \/ Crash

Spec == Init /\ [][Next]_vars

(* A thread that can run does run: a caller that has begun finishes its    *)
(* call, the loop polls, the pool's threads work.  Nobody has to call      *)
(* enqueue_ingest_job or stop, and nothing has to fail.                    *)
Fairness ==
    /\ \A j \in Jobs : WF_vars(PushJob(j))
    /\ WF_vars(Run)
    /\ \A t \in Threads : WF_vars(ProcessOne(t))

FairSpec == Spec /\ Fairness

-----------------------------------------------------------------------------
(* Where a job's copies are.                                               *)
InSeq(s, j)  == \E e \in Range(s) : e.job = j
Distinct(s)  == \A i, k \in DOMAIN s : s[i].job = s[k].job => i = k
InHand(j)    == loop.entry.job = j
InThread(j)  == \E t \in Threads : worker[t].entry.job = j
HasCopy(j)   == InSeq(queue, j) \/ InHand(j) \/ InSeq(pool, j) \/ InThread(j)
Settled(j)   == store[j].status \in {"completed", "failed"}
Attempts(j)  == failures[j] + successes[j]

(* MaxRetries = 0 still lets a job be tried once.                          *)
Budget == IF MaxRetries = 0 THEN 1 ELSE MaxRetries

(* The variables have the types the code gives them.                       *)
TypeOK ==
    /\ backend \in {"redis", "local"}
    /\ queue \in Seq(Entry) /\ processing \in SUBSET Entry /\ dlq \in Seq(Entry)
    /\ store \in [Jobs -> Entry \union {NoEntry}]
    /\ caller \in [Jobs -> CallerPC]
    /\ loop \in LoopState
    /\ pool \in Seq(Entry)
    /\ worker \in [Threads -> ThreadState]
    /\ stopping \in BOOLEAN /\ shutdown \in BOOLEAN
    /\ faults \in Nat /\ crashes \in Nat
    /\ failures \in [Jobs -> Nat] /\ successes \in [Jobs -> Nat]

(* A job is in one place only: the queue, the loop's hand, the pool or one *)
(* thread.  So no two threads of _process_one ever work on the same job,   *)
(* through retries, raised Redis calls and crashes; and no payload of the  *)
(* queue is already in the processing list, which makes it a set.          *)
AtMostOneCopy ==
    /\ Distinct(queue) /\ Distinct(pool)
    /\ \A t, u \in Threads :
          worker[t].entry.job = worker[u].entry.job =>
              t = u \/ worker[t].entry.job = NoJob
    /\ \A j \in Jobs :
          /\ InSeq(queue, j) => ~(InHand(j) \/ InSeq(pool, j) \/ InThread(j))
          /\ InHand(j) => ~(InSeq(pool, j) \/ InThread(j))
          /\ InSeq(pool, j) => ~InThread(j)
    /\ Range(queue) \intersect processing = {}

(* While nothing has raised or crashed and the pool still takes work, a    *)
(* job whose enqueue_ingest_job returned is settled or somebody has it:    *)
(* no interleaving of callers, loop and threads drops it.                  *)
NothingDropped ==
    faults = 0 /\ crashes = 0 /\ ~shutdown =>
        \A j \in Jobs : caller[j] = "returned" => Settled(j) \/ HasCopy(j)

(* The reliable queue: whatever raises, stops or crashes, a job accepted   *)
(* into Redis is processed, dead-lettered or still in one of the lists.    *)
NeverLostFromRedis ==
    backend = "redis" =>
        \A j \in Jobs : caller[j] = "returned" =>
            \/ successes[j] > 0
            \/ InSeq(dlq, j)
            \/ InSeq(queue, j)
            \/ \E e \in processing : e.job = j

(* _process_job is called at most MaxRetries times for a job, also when    *)
(* an acknowledgement raises and the job is tried again after a success.   *)
AttemptsBounded == \A j \in Jobs : Attempts(j) <= Budget

(* The dead-letter queue holds a job once, and only one whose retries are  *)
(* used up; without raised calls each of them was a failed attempt.        *)
DeadLettersExhausted ==
    /\ Distinct(dlq)
    /\ \A e \in Range(dlq) :
          /\ e.retries = Budget
          /\ ~InSeq(queue, e.job) /\ ~InHand(e.job) /\ ~InSeq(pool, e.job)
          /\ faults = 0 => failures[e.job] = Budget /\ successes[e.job] = 0

(* What get_job_status tells a poller is true: "processing" while exactly  *)
(* a thread runs the job, "completed" only of a processed job, and nobody  *)
(* has any more work to do on a settled job but its bookkeeping in Redis.  *)
StatusTruthful ==
    \A j \in Jobs :
        /\ store[j].status = "processing" <=>
              \E t \in Threads : worker[t].pc = "run" /\ worker[t].entry.job = j
        /\ store[j].status = "completed" => successes[j] > 0
        /\ Settled(j) =>
              /\ ~InSeq(queue, j) /\ ~InHand(j) /\ ~InSeq(pool, j)
              /\ \A t \in Threads : worker[t].entry.job = j =>
                    worker[t].pc \in {"ack", "dlq", "dlq_rem"}

-----------------------------------------------------------------------------
(* What the file's comments promise beyond that.                           *)

(* "Acknowledge completed job - remove from processing list": a settled    *)
(* job nobody works on any more has no payload left in the list.           *)
SettledJobsLeaveProcessing ==
    \A j \in Jobs : Settled(j) /\ ~HasCopy(j) =>
        \A e \in processing : e.job # j

(* Without faults, crashes and stop every accepted job settles.            *)
EveryJobSettles == \A j \in Jobs : caller[j] = "returned" ~> Settled(j)

(* What a poller of get_job_status sees is the lifecycle of JobLifecycle.  *)
Lifecycle == INSTANCE JobLifecycle WITH
    status   <- [j \in Jobs |-> IF store[j].job = NoJob THEN "unknown"
                                ELSE store[j].status],
    attempts <- [j \in Jobs |-> store[j].retries]

ImplementsLifecycle == Lifecycle!Spec
=============================================================================
