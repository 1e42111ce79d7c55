------------------------- MODULE IngestQueueProofs -------------------------
(***************************************************************************)
(* Theorems about IngestQueue, for every set of jobs and threads and every *)
(* bound on retries, faults and crashes.                                   *)
(***************************************************************************)
EXTENDS IngestQueue, TLAPS

-----------------------------------------------------------------------------
(* The sequence operations of the queue and the pool keep their type, and  *)
(* Append and Tail are what they should be, element by element.            *)
LEMMA AppendFacts ==
    ASSUME NEW S, NEW s \in Seq(S), NEW e \in S
    PROVE  /\ Append(s, e) \in Seq(S)
           /\ DOMAIN Append(s, e) = 1 .. Len(s) + 1
           /\ \A i \in DOMAIN s : Append(s, e)[i] = s[i]
           /\ Append(s, e)[Len(s) + 1] = e
  OBVIOUS

LEMMA TailFacts ==
    ASSUME NEW S, NEW s \in Seq(S), s # <<>>
    PROVE  /\ Head(s) \in S /\ Tail(s) \in Seq(S)
           /\ Len(s) \in Nat \ {0}
           /\ DOMAIN s = 1 .. Len(s) /\ Head(s) = s[1]
           /\ DOMAIN Tail(s) = 1 .. Len(s) - 1
           /\ \A i \in DOMAIN Tail(s) : Tail(s)[i] = s[i + 1]
  OBVIOUS

LEMMA EmptySeqType == ASSUME NEW S PROVE <<>> \in Seq(S)
  OBVIOUS

(* The entries an action builds are entries.                               *)
LEMMA EntryFacts ==
    ASSUME NEW e \in Entry
    PROVE  e.job \in Jobs /\ e.retries \in Nat /\ e.status \in Status /\ e.job # NoJob
  BY QueueAssumption DEF Entry

LEMMA WithStatusFacts ==
    ASSUME NEW e \in Entry, NEW st \in Status
    PROVE  /\ WithStatus(e, st) \in Entry
           /\ WithStatus(e, st).job = e.job
           /\ WithStatus(e, st).retries = e.retries
           /\ WithStatus(e, st).status = st
  BY DEF WithStatus, Entry

LEMMA OneMoreRetryFacts ==
    ASSUME NEW e \in Entry
    PROVE  /\ OneMoreRetry(e) \in Entry
           /\ OneMoreRetry(e).job = e.job
           /\ OneMoreRetry(e).retries = e.retries + 1
           /\ OneMoreRetry(e).status = e.status
  BY DEF OneMoreRetry, Entry

LEMMA FreshFacts ==
    ASSUME NEW j \in Jobs
    PROVE  /\ Fresh(j) \in Entry /\ Fresh(j).job = j
           /\ Fresh(j).retries = 0 /\ Fresh(j).status = "pending"
  BY DEF Fresh, Entry, Status

LEMMA NoEntryFacts == NoEntry.job = NoJob /\ NoEntry.job \notin Jobs /\ NoEntry \notin Entry
  BY QueueAssumption DEF NoEntry, Entry

(* What an idle thread and a polling loop are, and what one step of a      *)
(* thread or one _status_set changes.                                      *)
LEMMA IdleFacts ==
    /\ IdleThread \in ThreadState /\ IdleThread.pc = "idle" /\ IdleThread.entry = NoEntry
    /\ FirstPoll \in LoopState /\ FirstPoll.pc = "check" /\ FirstPoll.entry = NoEntry
  BY DEF IdleThread, ThreadState, ThreadPC, FirstPoll, LoopState, LoopPC

LEMMA StepFacts ==
    ASSUME NEW t \in Threads, NEW pc \in ThreadPC, NEW e \in Entry,
           worker \in [Threads -> ThreadState], Step(t, pc, e)
    PROVE  /\ worker' \in [Threads -> ThreadState]
           /\ worker'[t].pc = pc /\ worker'[t].entry = e
           /\ \A u \in Threads : u # t => worker'[u] = worker[u]
  BY DEF Step, ThreadState

LEMMA FinishFacts ==
    ASSUME NEW t \in Threads, worker \in [Threads -> ThreadState], Finish(t)
    PROVE  /\ worker' \in [Threads -> ThreadState]
           /\ worker'[t].pc = "idle" /\ worker'[t].entry = NoEntry
           /\ \A u \in Threads : u # t => worker'[u] = worker[u]
  BY IdleFacts DEF Finish

LEMMA StatusSetFacts ==
    ASSUME NEW e \in Entry, store \in [Jobs -> Entry \union {NoEntry}], StatusSet(e)
    PROVE  /\ store' \in [Jobs -> Entry \union {NoEntry}]
           /\ store'[e.job] = e
           /\ \A j \in Jobs : j # e.job => store'[j] = store[j]
  BY EntryFacts DEF StatusSet

(* The hand of a thread is what its pc says.                               *)
LEMMA ThreadStateFacts ==
    ASSUME NEW w \in ThreadState
    PROVE  w.pc \in ThreadPC /\ w.entry \in Entry \union {NoEntry}
  BY DEF ThreadState

LEMMA LoopStateFacts ==
    /\ \A l \in LoopState : l.pc \in LoopPC /\ l.entry \in Entry \union {NoEntry}
    /\ \A pc \in LoopPC, e \in Entry \union {NoEntry} :
          /\ [pc |-> pc, entry |-> e] \in LoopState
          /\ [pc |-> pc, entry |-> e].pc = pc
          /\ [pc |-> pc, entry |-> e].entry = e
  BY DEF LoopState

LEMMA LoopMoves ==
    ASSUME loop \in LoopState, NEW pc \in LoopPC, loop' = [loop EXCEPT !.pc = pc]
    PROVE  loop' \in LoopState /\ loop'.pc = pc /\ loop'.entry = loop.entry
  BY DEF LoopState

-----------------------------------------------------------------------------
(* Type correctness, with what ties the entry of a hand to its pc: an idle *)
(* thread and a polling loop hold nothing, the others hold an entry.       *)
HandsOK ==
    /\ loop.pc = "submit" => loop.entry \in Entry
    /\ loop.pc # "submit" => loop.entry = NoEntry
    /\ \A t \in Threads :
          /\ worker[t].pc # "idle" => worker[t].entry \in Entry
          /\ worker[t].pc = "idle" => worker[t].entry = NoEntry

TypeInv == TypeOK /\ HandsOK

LEMMA InitType == Init => TypeInv
  <1> SUFFICES ASSUME Init PROVE TypeInv
    OBVIOUS
  <1>1. worker \in [Threads -> ThreadState] /\ loop \in LoopState /\ HandsOK
    BY IdleFacts DEF Init, HandsOK
  <1>2. TypeOK
    BY <1>1, QueueAssumption, EmptySeqType DEF Init, TypeOK, CallerPC
  <1>3. QED
    BY <1>1, <1>2 DEF TypeInv

(* _handle_job_failure leaves the thread with a status it may have.        *)
LEMMA FailureType ==
    ASSUME TypeInv, NEW t \in Threads, HandleJobFailure(t), worker[t].entry \in Entry
    PROVE  /\ store' \in [Jobs -> Entry \union {NoEntry}]
           /\ worker' \in [Threads -> ThreadState]
           /\ \A u \in Threads :
                 /\ worker'[u].pc # "idle" => worker'[u].entry \in Entry
                 /\ worker'[u].pc = "idle" => worker'[u].entry = NoEntry
  <1> DEFINE e == OneMoreRetry(worker[t].entry)
             failed == WithStatus(e, "failed")
             pending == WithStatus(e, "pending")
  <1>1. e \in Entry /\ failed \in Entry /\ pending \in Entry
    BY OneMoreRetryFacts, WithStatusFacts DEF Status
  <1>2. /\ StatusSet(failed) \/ StatusSet(pending)
        /\ Step(t, "dlq", failed) \/ Finish(t) \/ Step(t, "requeue", pending)
    BY DEF HandleJobFailure
  <1> HIDE DEF e, failed, pending
  <1>3. store' \in [Jobs -> Entry \union {NoEntry}]
    BY <1>1, <1>2, StatusSetFacts DEF TypeInv, TypeOK
  <1>4. CASE Finish(t)
    BY <1>3, <1>4, FinishFacts DEF TypeInv, TypeOK, HandsOK
  <1> "dlq" \in ThreadPC /\ "requeue" \in ThreadPC
    BY DEF ThreadPC
  <1>5. CASE Step(t, "dlq", failed)
    <2>1. /\ worker' \in [Threads -> ThreadState]
          /\ worker'[t].pc = "dlq" /\ worker'[t].entry = failed
          /\ \A u \in Threads : u # t => worker'[u] = worker[u]
      BY <1>1, <1>5, StepFacts DEF TypeInv, TypeOK
    <2>2. QED
      BY <1>1, <1>3, <2>1 DEF TypeInv, HandsOK
  <1>6. CASE Step(t, "requeue", pending)
    <2>1. /\ worker' \in [Threads -> ThreadState]
          /\ worker'[t].pc = "requeue" /\ worker'[t].entry = pending
          /\ \A u \in Threads : u # t => worker'[u] = worker[u]
      BY <1>1, <1>6, StepFacts DEF TypeInv, TypeOK
    <2>2. QED
      BY <1>1, <1>3, <2>1 DEF TypeInv, HandsOK
  <1>7. QED
    BY <1>2, <1>4, <1>5, <1>6

LEMMA NextType == TypeInv /\ [Next]_vars => TypeInv'
  <1> SUFFICES ASSUME TypeInv, [Next]_vars PROVE TypeInv'
    OBVIOUS
  <1> USE DEF TypeInv, TypeOK, HandsOK
  <1>1. ASSUME NEW j \in Jobs, StoreJob(j) PROVE TypeInv'
    BY <1>1, FreshFacts, StatusSetFacts
    DEF StoreJob, CallerPC, redisVars, poolVars, stopVars, history
  <1>2. ASSUME NEW j \in Jobs, PushJob(j) PROVE TypeInv'
    BY <1>2, FreshFacts, AppendFacts DEF PushJob, Enqueue, CallerPC, poolVars, stopVars, history
  <1>3. ASSUME NEW j \in Jobs, PushJobRaises(j) PROVE TypeInv'
    <2>1. queue' \in Seq(Entry)
      <3>1. queue' = Append(queue, Fresh(j)) \/ queue' = queue
        BY <1>3 DEF PushJobRaises, Enqueue
      <3>2. Append(queue, Fresh(j)) \in Seq(Entry)
        BY FreshFacts, AppendFacts
      <3>3. QED
        BY <3>1, <3>2
    <2>2. caller' \in [Jobs -> CallerPC]
      BY <1>3 DEF PushJobRaises, CallerPC
    <2>3. QED
      BY <1>3, <2>1, <2>2 DEF PushJobRaises, Raises, poolVars, stopVars, history
  <1>4. CASE CheckStop
    BY <1>4, LoopMoves DEF CheckStop, LoopPC, redisVars, stopVars, history
  <1>5. CASE Pop
    <2>1. /\ queue' \in Seq(Entry) /\ Head(queue) \in Entry
          /\ processing' \in SUBSET Entry
      BY <1>5, TailFacts DEF Pop, TakeNext
    <2>2. loop' \in LoopState /\ loop'.pc = "submit" /\ loop'.entry = Head(queue)
      BY <1>5, <2>1, LoopStateFacts DEF Pop, LoopPC
    <2>3. QED
      BY <1>5, <2>1, <2>2 DEF Pop, stopVars, history
  <1>6. CASE PopEmpty
    BY <1>6, LoopMoves DEF PopEmpty, LoopPC, redisVars, stopVars, history
  <1>7. CASE PopRaises
    <2>1. queue' \in Seq(Entry) /\ processing' \in SUBSET Entry
      BY <1>7, TailFacts DEF PopRaises, TakeNext
    <2>2. loop' \in LoopState /\ loop'.pc = "dead" /\ loop'.entry = NoEntry
      BY <1>7, LoopMoves DEF PopRaises, LoopPC
    <2>3. QED
      BY <1>7, <2>1, <2>2 DEF PopRaises, Raises, stopVars, history
  <1>8. CASE Submit
    BY <1>8, AppendFacts, IdleFacts DEF Submit, redisVars, stopVars, history
  <1>9. CASE SubmitRefused
    <2>1. loop' \in LoopState /\ loop'.pc = "dead" /\ loop'.entry = NoEntry
      BY <1>9, LoopStateFacts DEF SubmitRefused, LoopPC
    <2>2. QED
      BY <1>9, <2>1 DEF SubmitRefused, redisVars, stopVars, history
  <1>10. ASSUME NEW t \in Threads, StartJob(t) PROVE TypeInv'
    <2> DEFINE e == WithStatus(Head(pool), "processing")
    <2>1. pool' \in Seq(Entry) /\ e \in Entry /\ "run" \in ThreadPC
      BY <1>10, TailFacts, WithStatusFacts DEF StartJob, Status, ThreadPC
    <2>2. Step(t, "run", e) /\ StatusSet(e)
      BY <1>10 DEF StartJob
    <2> HIDE DEF e
    <2>3. QED
      BY <1>10, <2>1, <2>2, StepFacts, StatusSetFacts
      DEF StartJob, redisVars, stopVars, history
  <1>11. ASSUME NEW t \in Threads, CompleteJob(t) PROVE TypeInv'
    <2> DEFINE e == WithStatus(worker[t].entry, "completed")
    <2>1. e \in Entry /\ "ack" \in ThreadPC
      BY <1>11, WithStatusFacts DEF CompleteJob, Status, ThreadPC
    <2>2. StatusSet(e) /\ (Step(t, "ack", e) \/ Finish(t))
      BY <1>11 DEF CompleteJob
    <2>3. successes' \in [Jobs -> Nat]
      <3>1. successes' = [successes EXCEPT ![e.job] = @ + 1]
        BY <1>11 DEF CompleteJob
      <3> HIDE DEF e
      <3>2. QED
        BY <2>1, <3>1, EntryFacts
    <2> HIDE DEF e
    <2>4. store' \in [Jobs -> Entry \union {NoEntry}]
      BY <2>1, <2>2, StatusSetFacts
    <2>5. worker' \in [Threads -> ThreadState] /\ HandsOK'
      <3>1. loop' = loop
        BY <1>11 DEF CompleteJob
      <3>2. CASE Step(t, "ack", e)
        <4>1. /\ worker' \in [Threads -> ThreadState]
              /\ worker'[t].pc = "ack" /\ worker'[t].entry = e
              /\ \A u \in Threads : u # t => worker'[u] = worker[u]
          BY <2>1, <3>2, StepFacts
        <4>2. QED
          BY <2>1, <3>1, <4>1
      <3>3. CASE Finish(t)
        BY <3>1, <3>3, FinishFacts
      <3>4. QED
        BY <2>2, <3>2, <3>3
    <2>6. QED
      BY <1>11, <2>3, <2>4, <2>5 DEF CompleteJob, redisVars, stopVars
  <1>12. ASSUME NEW t \in Threads, Ack(t) PROVE TypeInv'
    BY <1>12, FinishFacts DEF Ack, LRem, stopVars, history
  <1>13. ASSUME NEW t \in Threads, FailJob(t) PROVE TypeInv'
    <2>1. worker[t].entry \in Entry
      BY <1>13 DEF FailJob
    <2>2. failures' \in [Jobs -> Nat]
      BY <1>13, <2>1, EntryFacts DEF FailJob
    <2>3. QED
      BY <1>13, <2>1, <2>2, FailureType DEF FailJob, redisVars, stopVars
  <1>14. ASSUME NEW t \in Threads, AckRaises(t) PROVE TypeInv'
    <2>1. worker[t].entry \in Entry /\ processing' \in SUBSET Entry
      BY <1>14 DEF AckRaises, LRem
    <2>2. QED
      BY <1>14, <2>1, FailureType DEF AckRaises, Raises, stopVars, history
  <1>15. ASSUME NEW t \in Threads, Requeue(t) PROVE TypeInv'
    <2>1. worker[t].entry \in Entry /\ Enqueue(worker[t].entry) /\ Finish(t)
      BY <1>15 DEF Requeue
    <2>2. queue' \in Seq(Entry)
      BY <2>1, AppendFacts DEF Enqueue
    <2>3. worker' \in [Threads -> ThreadState] /\ HandsOK'
      BY <1>15, <2>1, FinishFacts DEF Requeue
    <2>4. QED
      BY <1>15, <2>2, <2>3 DEF Requeue, stopVars, history
  <1>16. ASSUME NEW t \in Threads, DlqPush(t) PROVE TypeInv'
    <2>1. /\ worker[t].entry \in Entry /\ "dlq_rem" \in ThreadPC
          /\ Step(t, "dlq_rem", worker[t].entry)
          /\ dlq' = Append(dlq, worker[t].entry)
      BY <1>16 DEF DlqPush, ThreadPC
    <2>2. dlq' \in Seq(Entry)
      BY <2>1, AppendFacts
    <2>3. worker' \in [Threads -> ThreadState] /\ HandsOK'
      <3>1. /\ worker' \in [Threads -> ThreadState]
            /\ worker'[t].pc = "dlq_rem" /\ worker'[t].entry = worker[t].entry
            /\ \A u \in Threads : u # t => worker'[u] = worker[u]
        BY <2>1, StepFacts
      <3>2. loop' = loop
        BY <1>16 DEF DlqPush
      <3>3. QED
        BY <2>1, <3>1, <3>2
    <2>4. QED
      BY <1>16, <2>2, <2>3 DEF DlqPush, stopVars, history
  <1>17. ASSUME NEW t \in Threads, DlqRem(t) PROVE TypeInv'
    BY <1>17, FinishFacts DEF DlqRem, LRem, stopVars, history
  <1>18. ASSUME NEW t \in Threads, HandlerRaises(t) PROVE TypeInv'
    <2>1. /\ worker[t].entry \in Entry /\ Finish(t)
          /\ queue' = queue \/ queue' = Append(queue, worker[t].entry)
          /\ dlq' = dlq \/ dlq' = Append(dlq, worker[t].entry)
          /\ processing' \subseteq processing
      BY <1>18 DEF HandlerRaises, Enqueue, LRem
    <2>2. /\ queue' \in Seq(Entry) /\ dlq' \in Seq(Entry)
          /\ processing' \in SUBSET Entry
      <3>1. Append(queue, worker[t].entry) \in Seq(Entry)
        BY <2>1, AppendFacts
      <3>2. Append(dlq, worker[t].entry) \in Seq(Entry)
        BY <2>1, AppendFacts
      <3>3. QED
        BY <2>1, <3>1, <3>2
    <2>3. worker' \in [Threads -> ThreadState] /\ HandsOK'
      BY <1>18, <2>1, FinishFacts DEF HandlerRaises
    <2>4. QED
      BY <1>18, <2>2, <2>3 DEF HandlerRaises, Raises, stopVars, history
  <1>19. CASE Stop
    BY <1>19 DEF Stop, redisVars, poolVars, history
  <1>20. CASE Shutdown
    BY <1>20 DEF Shutdown, redisVars, poolVars, history
  <1>21. CASE Crash
    <2>1. queue' \in Seq(Entry) /\ pool' \in Seq(Entry)
      BY <1>21, EmptySeqType DEF Crash
    <2>2. caller' \in [Jobs -> CallerPC]
      BY <1>21 DEF Crash, CallerPC
    <2>3. /\ worker' \in [Threads -> ThreadState] /\ loop' \in LoopState /\ HandsOK'
      BY <1>21, IdleFacts DEF Crash
    <2>4. store' \in [Jobs -> Entry \union {NoEntry}] /\ crashes' \in Nat
      BY <1>21 DEF Crash
    <2>5. /\ processing' \in SUBSET Entry /\ dlq' \in Seq(Entry) /\ faults' \in Nat
          /\ stopping' \in BOOLEAN /\ shutdown' \in BOOLEAN
          /\ failures' \in [Jobs -> Nat] /\ successes' \in [Jobs -> Nat]
          /\ backend' \in {"redis", "local"}
      BY <1>21 DEF Crash, history
    <2>6. QED
      BY <2>1, <2>2, <2>3, <2>4, <2>5
  <1>22. CASE UNCHANGED vars
    BY <1>22 DEF vars, redisVars, poolVars, stopVars, history
  <1>23. QED
    BY <1>1, <1>2, <1>3, <1>4, <1>5, <1>6, <1>7, <1>8, <1>9, <1>10, <1>11, <1>12, <1>13,
       <1>14, <1>15, <1>16, <1>17, <1>18, <1>19, <1>20, <1>21, <1>22
    DEF Next, Caller, Run, ProcessOne

(* Every variable keeps its type, through faults, crashes and stops; the   *)
(* strengthening TypeInv ties what a thread holds to where it is.          *)
THEOREM TypeCorrect == Spec => []TypeOK
  <1>1. Spec => []TypeInv
    BY InitType, NextType, PTL DEF Spec
  <1>2. TypeInv => TypeOK
    BY DEF TypeInv
  <1>3. QED
    BY <1>1, <1>2, PTL

-----------------------------------------------------------------------------
(* The inductive invariant behind the other theorems.  A copy of a job is  *)
(* an entry at a place: in the queue, in the loop's hand, in the pool, or  *)
(* with a thread, where the place is the thread's pc.                      *)
Places == {"queue", "submit", "pool"} \union ThreadPC

ThreadAt(place, e) ==
    \E t \in Threads : worker[t].pc # "idle" /\ worker[t].pc = place /\ worker[t].entry = e

At(place, e) ==
    \/ place = "queue" /\ e \in Range(queue)
    \/ place = "submit" /\ loop.pc = "submit" /\ loop.entry = e
    \/ place = "pool" /\ e \in Range(pool)
    \/ ThreadAt(place, e)

StatusAt(place) == IF place = "run" THEN "processing"
                   ELSE IF place = "ack" THEN "completed"
                   ELSE IF place \in {"dlq", "dlq_rem"} THEN "failed"
                   ELSE "pending"

(* What the rest of the state knows of a copy: its caller, its status in   *)
(* the store, the payloads of the job already in the processing list, and  *)
(* the attempts made so far.                                               *)
KnownAt(place, e) ==
    /\ e.status = StatusAt(place)
    /\ caller[e.job] \in {"returned", "raised"}
    /\ store[e.job] = e \/ (store[e.job] = NoEntry /\ place \in {"queue", "submit", "pool"})
    /\ InSeq(dlq, e.job) => place = "dlq_rem"

PayloadsAt(place, e) ==
    \A p \in processing : p.job = e.job =>
        /\ p.retries <= e.retries
        /\ place \in {"queue", "requeue"} => p.retries < e.retries

AttemptsAt(place, e) ==
    /\ place \in {"dlq", "dlq_rem"} => e.retries = Budget
    /\ place \notin {"dlq", "dlq_rem"} => e.retries < Budget
    /\ Attempts(e.job) <= e.retries + 1
    /\ place # "ack" => Attempts(e.job) <= e.retries
    /\ faults = 0 => /\ failures[e.job] = e.retries
                     /\ place # "ack" => successes[e.job] = 0

CopiesOK(j) ==
    /\ \A place \in Places, e \in Entry : At(place, e) /\ e.job = j =>
          KnownAt(place, e) /\ PayloadsAt(place, e) /\ AttemptsAt(place, e)
    /\ \A p, q \in Places, e, f \in Entry :
          At(p, e) /\ At(q, f) /\ e.job = j /\ f.job = j => p = q

(* What holds of a job whether it has a copy or not.                       *)
RecordsOK(j) ==
    /\ Attempts(j) <= Budget
    /\ caller[j] \in {"idle", "stored"} =>
          Attempts(j) = 0 /\ ~InSeq(dlq, j) /\ \A p \in processing : p.job # j
    /\ caller[j] = "stored" => store[j] = Fresh(j)
    /\ \A p \in processing : p.job = j => p.status = "pending"
    /\ \A e \in Range(dlq) : e.job = j =>
          /\ e.retries = Budget
          /\ faults = 0 => failures[j] = Budget /\ successes[j] = 0

StoreOK(j) ==
    /\ store[j].status = "processing" => \E e \in Entry : At("run", e) /\ e.job = j
    /\ store[j].status = "completed" => successes[j] > 0

KeptOK(j) ==
    caller[j] = "returned" =>
        /\ faults = 0 /\ crashes = 0 /\ ~shutdown =>
              Settled(j) \/ \E place \in Places, e \in Entry : At(place, e) /\ e.job = j
        /\ backend = "redis" =>
              \/ successes[j] > 0
              \/ InSeq(dlq, j)
              \/ \E e \in Entry : At("queue", e) /\ e.job = j
              \/ \E e \in processing : e.job = j

JobOK(j) == CopiesOK(j) /\ RecordsOK(j) /\ StoreOK(j) /\ KeptOK(j)

ThreadsApart ==
    \A t, u \in Threads :
        worker[t].pc # "idle" /\ worker[u].pc # "idle"
        /\ worker[t].entry.job = worker[u].entry.job => t = u

Apart == Distinct(queue) /\ Distinct(pool) /\ Distinct(dlq) /\ ThreadsApart

IInv == Apart /\ \A j \in Jobs : JobOK(j)

-----------------------------------------------------------------------------
(* A step that concerns job j only (no job, if j is NoJob).                *)
Others(j) ==
    /\ backend' = backend
    /\ faults' = 0 => faults = 0
    /\ crashes' = 0 => crashes = 0
    /\ shutdown => shutdown'
    /\ \A k \in Jobs : k # j =>
          /\ caller'[k] = caller[k] /\ store'[k] = store[k]
          /\ failures'[k] = failures[k] /\ successes'[k] = successes[k]
    /\ \A e \in Entry : e.job # j =>
          /\ e \in processing' <=> e \in processing
          /\ e \in Range(dlq') <=> e \in Range(dlq)
    /\ \A place \in Places, e \in Entry : e.job # j => (At(place, e)' <=> At(place, e))

LEMMA RangeType == ASSUME NEW s \in Seq(Entry) PROVE Range(s) \subseteq Entry
  BY DEF Range

LEMMA OtherJobs ==
    ASSUME TypeInv, TypeInv', NEW j, Others(j), NEW k \in Jobs, k # j, JobOK(k)
    PROVE  JobOK(k)'
  <1> USE DEF JobOK
  <1>1. /\ caller'[k] = caller[k] /\ store'[k] = store[k]
        /\ failures'[k] = failures[k] /\ successes'[k] = successes[k]
        /\ Attempts(k)' = Attempts(k) /\ Settled(k)' = Settled(k)
    BY DEF Others, Attempts, Settled
  <1>2. /\ backend' = backend /\ (faults' = 0 => faults = 0)
        /\ (crashes' = 0 => crashes = 0) /\ (shutdown => shutdown')
    BY DEF Others
  <1>3. \A e \in Entry : e.job = k =>
          /\ e \in processing' <=> e \in processing
          /\ e \in Range(dlq') <=> e \in Range(dlq)
    BY DEF Others
  <1>4. \A place \in Places, e \in Entry : e.job = k => (At(place, e)' <=> At(place, e))
    BY DEF Others
  <1>5. /\ processing \subseteq Entry /\ processing' \subseteq Entry
        /\ Range(dlq) \subseteq Entry /\ Range(dlq') \subseteq Entry
    BY RangeType DEF TypeInv, TypeOK
  <1>6. InSeq(dlq, k)' = InSeq(dlq, k)
    BY <1>3, <1>5 DEF InSeq
  <1>7. CopiesOK(k)'
    <2>1. \A place \in Places, e \in Entry : e.job = k =>
            /\ KnownAt(place, e) => KnownAt(place, e)'
            /\ PayloadsAt(place, e) => PayloadsAt(place, e)'
            /\ AttemptsAt(place, e) => AttemptsAt(place, e)'
      BY <1>1, <1>2, <1>3, <1>5, <1>6 DEF KnownAt, PayloadsAt, AttemptsAt, Attempts
    <2>2. QED
      BY <1>4, <2>1 DEF CopiesOK
  <1>8. RecordsOK(k)'
    BY <1>1, <1>2, <1>3, <1>5, <1>6 DEF RecordsOK
  <1>9. StoreOK(k)'
    BY <1>1, <1>4 DEF StoreOK, Places, ThreadPC
  <1>10. KeptOK(k)'
    BY <1>1, <1>2, <1>3, <1>4, <1>5, <1>6 DEF KeptOK, Places
  <1>11. QED
    BY <1>7, <1>8, <1>9, <1>10

LEMMA OneJobStep ==
    ASSUME TypeInv, TypeInv', IInv, NEW j, Others(j), j \in Jobs => JobOK(j)', Apart'
    PROVE  IInv'
  BY OtherJobs DEF IInv

-----------------------------------------------------------------------------
(* What Append and Tail do to the elements of a list.                      *)
LEMMA AppendElements ==
    ASSUME NEW s \in Seq(Entry), NEW e \in Entry
    PROVE  /\ Range(Append(s, e)) = Range(s) \union {e}
           /\ Distinct(s) /\ ~InSeq(s, e.job) => Distinct(Append(s, e))
  <1>1. Range(Append(s, e)) = Range(s) \union {e}
    BY AppendFacts DEF Range
  <1>2. ASSUME Distinct(s), ~InSeq(s, e.job) PROVE Distinct(Append(s, e))
    <2> SUFFICES ASSUME NEW i \in DOMAIN Append(s, e), NEW k \in DOMAIN Append(s, e),
                        Append(s, e)[i].job = Append(s, e)[k].job
                 PROVE  i = k
      BY DEF Distinct
    <2>1. /\ DOMAIN s = 1 .. Len(s) /\ Len(s) \in Nat
          /\ DOMAIN Append(s, e) = 1 .. Len(s) + 1
          /\ Append(s, e)[Len(s) + 1] = e
          /\ \A n \in DOMAIN s : Append(s, e)[n] = s[n] /\ s[n].job # e.job
      BY <1>2, AppendFacts DEF InSeq, Range
    <2>2. CASE i = Len(s) + 1
      BY <2>1, <2>2
    <2>3. CASE k = Len(s) + 1
      BY <2>1, <2>3
    <2>4. CASE i \in DOMAIN s /\ k \in DOMAIN s
      BY <1>2, <2>1, <2>4 DEF Distinct
    <2>5. QED
      BY <2>1, <2>2, <2>3, <2>4
  <1>3. QED
    BY <1>1, <1>2

LEMMA TailElements ==
    ASSUME NEW s \in Seq(Entry), s # <<>>, Distinct(s)
    PROVE  /\ Head(s) \in Range(s)
           /\ Distinct(Tail(s))
           /\ \A e \in Entry : e \in Range(Tail(s)) <=> e \in Range(s) /\ e.job # Head(s).job
           /\ \A e \in Range(s) : e.job = Head(s).job => e = Head(s)
  <1>1. /\ Len(s) \in Nat \ {0} /\ DOMAIN s = 1 .. Len(s) /\ Head(s) = s[1]
        /\ DOMAIN Tail(s) = 1 .. Len(s) - 1
        /\ \A i \in DOMAIN Tail(s) : Tail(s)[i] = s[i + 1]
    BY TailFacts
  <1>2. Head(s) \in Range(s)
    BY <1>1 DEF Range
  <1>3. Distinct(Tail(s))
    <2> SUFFICES ASSUME NEW i \in DOMAIN Tail(s), NEW k \in DOMAIN Tail(s),
                        Tail(s)[i].job = Tail(s)[k].job
                 PROVE  i = k
      BY DEF Distinct
    <2>1. i + 1 \in DOMAIN s /\ k + 1 \in DOMAIN s /\ s[i + 1].job = s[k + 1].job
      BY <1>1
    <2>2. i + 1 = k + 1
      BY <2>1 DEF Distinct
    <2>3. QED
      BY <1>1, <2>2
  <1>4. ASSUME NEW e \in Range(Tail(s)) PROVE e \in Range(s) /\ e.job # Head(s).job
    <2>1. PICK i \in DOMAIN Tail(s) : e = Tail(s)[i]
      BY DEF Range
    <2>2. i + 1 \in DOMAIN s /\ e = s[i + 1] /\ 1 \in DOMAIN s /\ i + 1 # 1
      BY <1>1, <2>1
    <2>3. QED
      BY <1>1, <2>2 DEF Range, Distinct
  <1>5. ASSUME NEW e \in Range(s), e.job # Head(s).job PROVE e \in Range(Tail(s))
    <2>1. PICK i \in DOMAIN s : e = s[i]
      BY DEF Range
    <2>2. i - 1 \in DOMAIN Tail(s) /\ Tail(s)[i - 1] = e
      BY <1>1, <1>5, <2>1
    <2>3. QED
      BY <2>2 DEF Range
  <1>6. ASSUME NEW e \in Range(s), e.job = Head(s).job PROVE e = Head(s)
    <2>1. PICK i \in DOMAIN s : e = s[i]
      BY DEF Range
    <2>2. i = 1
      BY <1>1, <1>6, <2>1 DEF Distinct
    <2>3. QED
      BY <1>1, <2>1, <2>2
  <1>7. QED
    BY <1>2, <1>3, <1>4, <1>5, <1>6

LEMMA EmptyElements == Range(<<>>) = {} /\ Distinct(<<>>)
  BY DEF Range, Distinct

-----------------------------------------------------------------------------
(* Steps that move no copy.                                                *)
LEMMA QuietStep ==
    ASSUME TypeInv, TypeInv', IInv,
           UNCHANGED <<backend, queue, processing, dlq, store, caller, pool, worker,
                       crashes, failures, successes>>,
           faults' = 0 => faults = 0, shutdown => shutdown',
           loop' = loop \/ (loop.pc # "submit" /\ loop'.pc # "submit")
    PROVE  IInv'
  <1>1. Apart'
    BY DEF IInv, Apart, ThreadsApart
  <1>2. ASSUME NEW place, NEW e PROVE At(place, e)' <=> At(place, e)
    BY DEF At, ThreadAt
  <1>3. Others(NoJob)
    BY <1>2 DEF Others
  <1>4. QED
    BY <1>1, <1>3, OneJobStep, QueueAssumption

(* One thread t that concerns job j takes a step.                          *)
LEMMA ThreadStep ==
    ASSUME TypeInv, TypeInv', ThreadsApart, NEW t \in Threads, NEW j \in Jobs,
           \A u \in Threads : u # t => worker'[u] = worker[u],
           worker[t].pc # "idle" => worker[t].entry.job = j,
           worker'[t].pc # "idle" => worker'[t].entry.job = j,
           \A u \in Threads : u # t /\ worker[u].pc # "idle" => worker[u].entry.job # j
    PROVE  /\ ThreadsApart'
           /\ \A place \in Places, e \in Entry :
                 e.job # j => (ThreadAt(place, e)' <=> ThreadAt(place, e))
           /\ \A place \in Places, e \in Entry : e.job = j =>
                 (ThreadAt(place, e)' <=> /\ worker'[t].pc # "idle"
                                          /\ worker'[t].pc = place /\ worker'[t].entry = e)
  <1>1. ThreadsApart'
    BY DEF ThreadsApart
  <1>2. ASSUME NEW place \in Places, NEW e \in Entry, e.job # j
        PROVE  ThreadAt(place, e)' <=> ThreadAt(place, e)
    BY <1>2 DEF ThreadAt
  <1>3. ASSUME NEW place \in Places, NEW e \in Entry, e.job = j
        PROVE  ThreadAt(place, e)' <=> /\ worker'[t].pc # "idle"
                                       /\ worker'[t].pc = place /\ worker'[t].entry = e
    BY <1>3 DEF ThreadAt
  <1>4. QED
    BY <1>1, <1>2, <1>3

(* A thread at work holds the only copy of its job.                        *)
LEMMA ThreadAlone ==
    ASSUME TypeInv, IInv, NEW t \in Threads, worker[t].pc # "idle"
    PROVE  /\ worker[t].entry \in Entry /\ worker[t].entry.job \in Jobs
           /\ worker[t].pc \in Places
           /\ At(worker[t].pc, worker[t].entry)
           /\ \A u \in Threads : u # t /\ worker[u].pc # "idle" =>
                 worker[u].entry.job # worker[t].entry.job
           /\ \A place \in Places, e \in Entry :
                 At(place, e) /\ e.job = worker[t].entry.job => place = worker[t].pc
  <1>1. worker[t].entry \in Entry /\ worker[t].entry.job \in Jobs
    BY EntryFacts DEF TypeInv, HandsOK
  <1>2. worker[t].pc \in ThreadPC
    BY ThreadStateFacts DEF TypeInv, TypeOK
  <1>3. worker[t].pc \in Places /\ At(worker[t].pc, worker[t].entry)
    BY <1>2 DEF Places, At, ThreadAt
  <1>4. CopiesOK(worker[t].entry.job)
    BY <1>1 DEF IInv, JobOK
  <1>5. QED
    BY <1>1, <1>3, <1>4 DEF CopiesOK, IInv, Apart, ThreadsApart

LEMMA StoreJobStep ==
    ASSUME TypeInv, TypeInv', IInv, NEW j \in Jobs, StoreJob(j)
    PROVE  IInv'
  <1>1. /\ caller[j] = "idle" /\ caller' = [caller EXCEPT ![j] = "stored"]
        /\ StatusSet(Fresh(j))
        /\ UNCHANGED <<backend, queue, processing, dlq, loop, pool, worker, shutdown,
                       faults, crashes, failures, successes>>
    BY DEF StoreJob, redisVars, poolVars, stopVars, history
  <1>2. /\ caller'[j] = "stored" /\ store'[j] = Fresh(j)
        /\ \A k \in Jobs : k # j => caller'[k] = caller[k] /\ store'[k] = store[k]
    <2>1. caller'[j] = "stored" /\ \A k \in Jobs : k # j => caller'[k] = caller[k]
      BY <1>1 DEF TypeInv, TypeOK
    <2>2. store \in [Jobs -> Entry \union {NoEntry}]
      BY DEF TypeInv, TypeOK
    <2>3. store'[j] = Fresh(j) /\ \A k \in Jobs : k # j => store'[k] = store[k]
      BY <1>1, <2>2, FreshFacts, StatusSetFacts
    <2>4. QED
      BY <2>1, <2>3
  <1>3. ASSUME NEW place, NEW e PROVE At(place, e)' <=> At(place, e)
    BY <1>1 DEF At, ThreadAt
  <1>4. Others(j)
    BY <1>1, <1>2, <1>3 DEF Others
  <1>5. JobOK(j)
    BY DEF IInv
  <1>6. \A place \in Places, e \in Entry : At(place, e) => e.job # j
    BY <1>1, <1>5 DEF JobOK, CopiesOK, KnownAt
  <1>7. JobOK(j)'
    <2>1. CopiesOK(j)'
      BY <1>3, <1>6 DEF CopiesOK
    <2>2. RecordsOK(j)'
      BY <1>1, <1>2, <1>5 DEF JobOK, RecordsOK, Attempts, InSeq, Budget
    <2>3. StoreOK(j)' /\ KeptOK(j)'
      BY <1>2, FreshFacts DEF StoreOK, KeptOK
    <2>4. QED
      BY <2>1, <2>2, <2>3 DEF JobOK
  <1>8. Apart'
    BY <1>1 DEF IInv, Apart, ThreadsApart
  <1>9. QED
    BY <1>4, <1>7, <1>8, OneJobStep

(* The push of enqueue_ingest_job, whether it raises or not.               *)
LEMMA CallerStep ==
    ASSUME TypeInv, TypeInv', IInv, NEW j \in Jobs,
           caller[j] = "stored", faults' = 0 => faults = 0,
           \/ caller' = [caller EXCEPT ![j] = "returned"] /\ Enqueue(Fresh(j))
           \/ caller' = [caller EXCEPT ![j] = "raised"] /\ Enqueue(Fresh(j))
           \/ caller' = [caller EXCEPT ![j] = "raised"] /\ queue' = queue,
           UNCHANGED <<backend, processing, dlq, store, loop, pool, worker, shutdown,
                       crashes, failures, successes>>
    PROVE  IInv'
  <1>1. /\ caller'[j] \in {"returned", "raised"}
        /\ \A k \in Jobs : k # j => caller'[k] = caller[k]
        /\ queue' = Append(queue, Fresh(j)) \/ (queue' = queue /\ caller'[j] = "raised")
    BY DEF TypeInv, TypeOK, Enqueue
  <1>2. JobOK(j)
    BY DEF IInv
  <1>3. \A place \in Places, e \in Entry : At(place, e) => e.job # j
    BY <1>2 DEF JobOK, CopiesOK, KnownAt
  <1>4. ~InSeq(queue, j)
    <2>1. Range(queue) \subseteq Entry /\ "queue" \in Places
      BY RangeType DEF TypeInv, TypeOK, Places
    <2>2. QED
      BY <1>3, <2>1 DEF InSeq, At
  <1>5. /\ Distinct(queue')
        /\ \/ Range(queue') = Range(queue) \union {Fresh(j)}
           \/ Range(queue') = Range(queue) /\ caller'[j] = "raised"
    <2>1. queue \in Seq(Entry) /\ Distinct(queue)
      BY DEF TypeInv, TypeOK, IInv, Apart
    <2>2. QED
      BY <1>1, <1>4, <2>1, FreshFacts, AppendElements
  <1>6. \A place, e : ThreadAt(place, e)' <=> ThreadAt(place, e)
    BY DEF ThreadAt
  <1>7. \A place \in Places, e \in Entry : e.job # j => (At(place, e)' <=> At(place, e))
    BY <1>5, <1>6, FreshFacts DEF At
  <1>8. /\ \A place \in Places, e \in Entry : At(place, e)' /\ e.job = j =>
              place = "queue" /\ e = Fresh(j)
        /\ caller'[j] = "returned" => At("queue", Fresh(j))'
    BY <1>3, <1>5, <1>6 DEF At
  <1>9. Others(j)
    BY <1>1, <1>7 DEF Others
  <1>10. JobOK(j)'
    <2>1. /\ Attempts(j) = 0 /\ ~InSeq(dlq, j) /\ \A p \in processing : p.job # j
          /\ store[j] = Fresh(j)
      BY <1>2 DEF JobOK, RecordsOK
    <2>2. failures[j] = 0 /\ successes[j] = 0
      BY <2>1 DEF Attempts, TypeInv, TypeOK
    <2>3. Budget > 0 /\ Budget \in Nat
      BY QueueAssumption DEF Budget
    <2>4. CopiesOK(j)'
      <3>1. /\ KnownAt("queue", Fresh(j))' /\ PayloadsAt("queue", Fresh(j))'
            /\ AttemptsAt("queue", Fresh(j))'
        BY <1>1, <2>1, <2>2, <2>3, FreshFacts
        DEF KnownAt, StatusAt, PayloadsAt, AttemptsAt, Attempts, InSeq
      <3>2. QED
        BY <1>8, <3>1 DEF CopiesOK
    <2>5. RecordsOK(j)'
      BY <1>1, <1>2 DEF JobOK, RecordsOK, Attempts, InSeq, Budget
    <2>6. StoreOK(j)'
      BY <2>1, FreshFacts DEF StoreOK
    <2>7. KeptOK(j)'
      BY <1>8, FreshFacts DEF KeptOK, Places
    <2>8. QED
      BY <2>4, <2>5, <2>6, <2>7 DEF JobOK
  <1>11. Apart'
    BY <1>5 DEF IInv, Apart, ThreadsApart
  <1>12. QED
    BY <1>9, <1>10, <1>11, OneJobStep

(* The pop, and the pop that raises after the server has carried it out.   *)
LEMMA PopStep ==
    ASSUME TypeInv, TypeInv', IInv, TakeNext, faults' = 0 => faults = 0,
           \/ loop' = [pc |-> "submit", entry |-> Head(queue)]
           \/ loop'.pc # "submit" /\ faults' # 0 /\ backend = "redis",
           loop.pc # "submit",
           UNCHANGED <<backend, dlq, store, caller, pool, worker, shutdown,
                       crashes, failures, successes>>
    PROVE  IInv'
  <1>0. PICK h \in Entry, j \in Jobs : h = Head(queue) /\ h.job = j
    BY TailFacts, EntryFacts DEF TypeInv, TypeOK, TakeNext
  <1>1. /\ queue \in Seq(Entry) /\ Distinct(queue) /\ queue # <<>> /\ queue' = Tail(queue)
        /\ processing' = IF backend = "redis" THEN processing \union {h} ELSE processing
        /\ Range(queue) \subseteq Entry
    BY <1>0, RangeType DEF TypeInv, TypeOK, IInv, Apart, TakeNext
  <1>2. /\ h \in Range(queue) /\ Distinct(queue')
        /\ \A e \in Entry : e \in Range(queue') <=> e \in Range(queue) /\ e.job # j
        /\ \A e \in Range(queue) : e.job = j => e = h
    BY <1>0, <1>1, TailElements
  <1>3. \/ loop'.pc = "submit" /\ loop'.entry = h
        \/ loop'.pc # "submit" /\ faults' # 0 /\ backend = "redis"
    BY <1>0
  <1>4. JobOK(j) /\ At("queue", h) /\ "queue" \in Places /\ "submit" \in Places
    BY <1>2 DEF IInv, At, Places
  <1>5. /\ KnownAt("queue", h) /\ PayloadsAt("queue", h) /\ AttemptsAt("queue", h)
        /\ \A place \in Places, e \in Entry : At(place, e) /\ e.job = j => place = "queue"
    BY <1>0, <1>4 DEF JobOK, CopiesOK
  <1>6. \A place, e : ThreadAt(place, e)' <=> ThreadAt(place, e)
    BY DEF ThreadAt
  <1>7. \A place \in Places, e \in Entry : e.job # j => (At(place, e)' <=> At(place, e))
    BY <1>0, <1>2, <1>3, <1>4, <1>6 DEF At
  <1>8. /\ \A place \in Places, e \in Entry : At(place, e)' /\ e.job = j =>
              place = "submit" /\ e = h
        /\ faults' = 0 => At("submit", h)'
    <2>1. ASSUME NEW place \in Places, NEW e \in Entry, At(place, e)', e.job = j
          PROVE  place = "submit" /\ e = h
      <3>1. (~(e \in Range(pool)) /\ ~ThreadAt(place, e)) \/ place = "queue"
        BY <1>5, <2>1 DEF At, Places
      <3>2. ~ThreadAt("queue", e)
        BY ThreadStateFacts DEF ThreadAt, TypeInv, TypeOK, ThreadPC
      <3>3. ~At("pool", e)
        BY <1>5, <2>1 DEF Places
      <3>4. QED
        BY <1>2, <1>3, <1>6, <2>1, <3>1, <3>2, <3>3 DEF At
    <2>2. QED
      BY <1>3, <2>1 DEF At
  <1>9. Others(j)
    BY <1>0, <1>1, <1>2, <1>4, <1>7 DEF Others
  <1>10. JobOK(j)'
    <2>1. CopiesOK(j)'
      <3>1. /\ KnownAt("submit", h)' /\ PayloadsAt("submit", h)' /\ AttemptsAt("submit", h)'
        BY <1>1, <1>2, <1>5, EntryFacts
        DEF KnownAt, StatusAt, PayloadsAt, AttemptsAt, Attempts, InSeq, Budget, TypeInv, TypeOK
      <3>2. QED
        BY <1>8, <3>1 DEF CopiesOK
    <2>2. RecordsOK(j)'
      BY <1>1, <1>2, <1>4, <1>5
      DEF JobOK, RecordsOK, KnownAt, StatusAt, Attempts, InSeq, Budget
    <2>3. StoreOK(j)'
      BY <1>0, <1>2, <1>4, <1>5 DEF JobOK, StoreOK, KnownAt, StatusAt, NoEntry
    <2>4. KeptOK(j)'
      <3>1. backend = "redis" => h \in processing'
        BY <1>1
      <3>2. QED
        BY <1>0, <1>2, <1>4, <1>8, <3>1 DEF KeptOK
    <2>5. QED
      BY <2>1, <2>2, <2>3, <2>4 DEF JobOK
  <1>11. Apart'
    BY <1>2 DEF IInv, Apart, ThreadsApart
  <1>12. QED
    BY <1>2, <1>9, <1>10, <1>11, OneJobStep

(* run() hands its job to the pool.                                        *)
LEMMA SubmitStep ==
    ASSUME TypeInv, TypeInv', IInv, Submit
    PROVE  IInv'
  <1>0. PICK h \in Entry, j \in Jobs : h = loop.entry /\ h.job = j
    BY EntryFacts DEF TypeInv, HandsOK, Submit
  <1>1. /\ loop.pc = "submit" /\ loop'.pc = "check"
        /\ pool \in Seq(Entry) /\ Distinct(pool) /\ pool' = Append(pool, h)
        /\ Range(pool) \subseteq Entry
        /\ UNCHANGED <<backend, queue, processing, dlq, store, caller, worker, shutdown,
                       faults, crashes, failures, successes>>
    BY <1>0, IdleFacts, RangeType
    DEF Submit, TypeInv, TypeOK, IInv, Apart, redisVars, stopVars, history
  <1>2. JobOK(j) /\ At("submit", h) /\ "submit" \in Places /\ "pool" \in Places
    BY <1>0, <1>1 DEF IInv, At, Places
  <1>3. /\ KnownAt("submit", h) /\ PayloadsAt("submit", h) /\ AttemptsAt("submit", h)
        /\ \A place \in Places, e \in Entry : At(place, e) /\ e.job = j => place = "submit"
    BY <1>0, <1>2 DEF JobOK, CopiesOK
  <1>4. Range(pool') = Range(pool) \union {h} /\ Distinct(pool')
    <2>1. ~InSeq(pool, j)
      BY <1>1, <1>2, <1>3 DEF InSeq, At
    <2>2. QED
      BY <1>0, <1>1, <2>1, AppendElements
  <1>5. \A place, e : ThreadAt(place, e)' <=> ThreadAt(place, e)
    BY <1>1 DEF ThreadAt
  <1>6. \A place \in Places, e \in Entry : e.job # j => (At(place, e)' <=> At(place, e))
    BY <1>0, <1>1, <1>4, <1>5 DEF At
  <1>7. /\ \A place \in Places, e \in Entry : At(place, e)' /\ e.job = j =>
              place = "pool" /\ e = h
        /\ At("pool", h)'
    <2>1. \A place \in Places, e \in Entry : e.job = j => ~ThreadAt(place, e)
      BY <1>3, ThreadStateFacts DEF At, ThreadAt, TypeInv, TypeOK, ThreadPC
    <2>2. QED
      BY <1>1, <1>3, <1>4, <1>5, <2>1 DEF At
  <1>8. Others(j)
    BY <1>1, <1>6 DEF Others
  <1>9. JobOK(j)'
    <2>1. CopiesOK(j)'
      <3>1. KnownAt("pool", h)' /\ PayloadsAt("pool", h)' /\ AttemptsAt("pool", h)'
        BY <1>1, <1>3
        DEF KnownAt, StatusAt, PayloadsAt, AttemptsAt, Attempts, InSeq, Budget
      <3>2. QED
        BY <1>7, <3>1 DEF CopiesOK
    <2>2. RecordsOK(j)'
      BY <1>1, <1>2 DEF JobOK, RecordsOK, Attempts, InSeq, Budget
    <2>3. StoreOK(j)'
      BY <1>0, <1>1, <1>2, <1>3 DEF JobOK, StoreOK, KnownAt, StatusAt, NoEntry
    <2>4. KeptOK(j)'
      BY <1>0, <1>1, <1>2, <1>3, <1>7 DEF JobOK, KeptOK, InSeq, Places
    <2>5. QED
      BY <2>1, <2>2, <2>3, <2>4 DEF JobOK
  <1>10. Apart'
    BY <1>1, <1>4 DEF IInv, Apart, ThreadsApart
  <1>11. QED
    BY <1>8, <1>9, <1>10, OneJobStep

(* The executor refuses the job in run()'s hand: only the processing list  *)
(* of Redis still has it.                                                  *)
LEMMA SubmitRefusedStep ==
    ASSUME TypeInv, TypeInv', IInv, SubmitRefused
    PROVE  IInv'
  <1>0. PICK h \in Entry, j \in Jobs : h = loop.entry /\ h.job = j
    BY EntryFacts DEF TypeInv, HandsOK, SubmitRefused
  <1>1. /\ loop.pc = "submit" /\ loop'.pc = "dead" /\ shutdown'
        /\ UNCHANGED <<backend, queue, processing, dlq, store, caller, pool, worker,
                       shutdown, faults, crashes, failures, successes>>
    BY DEF SubmitRefused, redisVars, stopVars, history
  <1>2. JobOK(j) /\ At("submit", h) /\ "submit" \in Places /\ "queue" \in Places
    BY <1>0, <1>1 DEF IInv, At, Places
  <1>3. /\ KnownAt("submit", h)
        /\ \A place \in Places, e \in Entry : At(place, e) /\ e.job = j => place = "submit"
    BY <1>0, <1>2 DEF JobOK, CopiesOK
  <1>4. \A place, e : ThreadAt(place, e)' <=> ThreadAt(place, e)
    BY <1>1 DEF ThreadAt
  <1>5. \A place \in Places, e \in Entry : e.job # j => (At(place, e)' <=> At(place, e))
    BY <1>0, <1>1, <1>4 DEF At
  <1>6. \A place \in Places, e \in Entry : e.job = j => ~At(place, e)'
    <2>1. \A place \in Places, e \in Entry : e.job = j => ~ThreadAt(place, e)
      BY <1>3, ThreadStateFacts DEF At, ThreadAt, TypeInv, TypeOK, ThreadPC
    <2>2. QED
      BY <1>1, <1>3, <1>4, <2>1 DEF At
  <1>7. Others(j)
    BY <1>1, <1>5 DEF Others
  <1>8. JobOK(j)'
    <2>1. CopiesOK(j)'
      BY <1>6 DEF CopiesOK
    <2>2. RecordsOK(j)'
      BY <1>1, <1>2 DEF JobOK, RecordsOK, Attempts, InSeq, Budget
    <2>3. StoreOK(j)'
      BY <1>0, <1>1, <1>2, <1>3 DEF JobOK, StoreOK, KnownAt, StatusAt, NoEntry
    <2>4. KeptOK(j)'
      BY <1>1, <1>2, <1>3 DEF JobOK, KeptOK, InSeq
    <2>5. QED
      BY <2>1, <2>2, <2>3, <2>4 DEF JobOK
  <1>9. Apart'
    BY <1>1 DEF IInv, Apart, ThreadsApart
  <1>10. QED
    BY <1>7, <1>8, <1>9, OneJobStep

-----------------------------------------------------------------------------
(* A thread at place pc with the copy h of job j: what it knows.           *)
LEMMA ThreadKnows ==
    ASSUME TypeInv, IInv, NEW t \in Threads, NEW pc, worker[t].pc = pc, pc # "idle",
           NEW h \in Entry, worker[t].entry = h, NEW j \in Jobs, h.job = j
    PROVE  /\ JobOK(j)
           /\ KnownAt(pc, h) /\ PayloadsAt(pc, h) /\ AttemptsAt(pc, h)
           /\ pc \in ThreadPC
           /\ \A place \in Places, e \in Entry : At(place, e) /\ e.job = j => place = pc
           /\ \A u \in Threads : u # t /\ worker[u].pc # "idle" => worker[u].entry.job # j
  BY ThreadAlone, ThreadStateFacts DEF IInv, JobOK, CopiesOK, TypeInv, TypeOK

(* It keeps its copy, changes it or gives it up, and nothing else moves.   *)
LEMMA WorkStep ==
    ASSUME TypeInv, TypeInv', IInv, NEW t \in Threads, NEW pc, worker[t].pc = pc, pc # "idle",
           NEW h \in Entry, worker[t].entry = h, NEW j \in Jobs, h.job = j,
           \A u \in Threads : u # t => worker'[u] = worker[u],
           worker'[t].pc # "idle" => worker'[t].entry.job = j,
           UNCHANGED <<queue, pool, loop>>
    PROVE  /\ ThreadsApart'
           /\ \A place \in Places, e \in Entry : e.job # j => (At(place, e)' <=> At(place, e))
           /\ \A place \in Places, e \in Entry : e.job = j =>
                 (At(place, e)' <=> /\ worker'[t].pc # "idle"
                                    /\ worker'[t].pc = place /\ worker'[t].entry = e)
  <1>1. /\ pc \in ThreadPC
        /\ \A place \in Places, e \in Entry : At(place, e) /\ e.job = j => place = pc
        /\ \A u \in Threads : u # t /\ worker[u].pc # "idle" => worker[u].entry.job # j
    BY ThreadKnows
  <1>2. /\ ThreadsApart'
        /\ \A place \in Places, e \in Entry :
              e.job # j => (ThreadAt(place, e)' <=> ThreadAt(place, e))
        /\ \A place \in Places, e \in Entry : e.job = j =>
              (ThreadAt(place, e)' <=> /\ worker'[t].pc # "idle"
                                       /\ worker'[t].pc = place /\ worker'[t].entry = e)
    BY <1>1, ThreadStep DEF IInv, Apart
  <1>3. \A place \in Places, e \in Entry : e.job # j => (At(place, e)' <=> At(place, e))
    BY <1>2 DEF At
  <1>4. ASSUME NEW place \in Places, NEW e \in Entry, e.job = j
        PROVE  At(place, e)' <=> ThreadAt(place, e)'
    <2>1. ~(place = "queue" /\ e \in Range(queue)) /\ ~(place = "pool" /\ e \in Range(pool))
          /\ ~(place = "submit" /\ loop.pc = "submit" /\ loop.entry = e)
      BY <1>1, <1>4 DEF At, Places, ThreadPC
    <2>2. QED
      BY <2>1 DEF At
  <1>5. QED
    BY <1>2, <1>3, <1>4

(* A thread takes the next job of the pool.                                *)
LEMMA StartJobStep ==
    ASSUME TypeInv, TypeInv', IInv, NEW t \in Threads, StartJob(t)
    PROVE  IInv'
  <1>0. PICK h \in Entry, j \in Jobs : h = Head(pool) /\ h.job = j
    BY TailFacts, EntryFacts DEF TypeInv, TypeOK, StartJob
  <1>1. PICK e \in Entry : /\ e = WithStatus(h, "processing") /\ e.job = j
                           /\ e.retries = h.retries /\ e.status = "processing"
    BY <1>0, WithStatusFacts DEF Status
  <1>2. /\ pool \in Seq(Entry) /\ Distinct(pool) /\ pool # <<>> /\ pool' = Tail(pool)
        /\ worker[t].pc = "idle" /\ Step(t, "run", e) /\ StatusSet(e)
        /\ UNCHANGED <<backend, queue, processing, dlq, caller, loop, shutdown,
                       faults, crashes, failures, successes>>
    BY <1>0, <1>1 DEF StartJob, TypeInv, TypeOK, IInv, Apart, redisVars, stopVars, history
  <1>3. /\ h \in Range(pool) /\ Distinct(pool')
        /\ \A f \in Entry : f \in Range(pool') <=> f \in Range(pool) /\ f.job # j
    BY <1>0, <1>2, TailElements
  <1>4. /\ store'[j] = e
        /\ \A k \in Jobs : k # j => store'[k] = store[k]
    BY <1>1, <1>2, StatusSetFacts DEF TypeInv, TypeOK
  <1>5. /\ worker'[t].pc = "run" /\ worker'[t].entry = e
        /\ \A u \in Threads : u # t => worker'[u] = worker[u]
    BY <1>1, <1>2, StepFacts DEF TypeInv, TypeOK, ThreadPC
  <1>6. JobOK(j) /\ At("pool", h) /\ "pool" \in Places /\ "run" \in Places
    BY <1>3 DEF IInv, At, Places, ThreadPC
  <1>7. /\ KnownAt("pool", h) /\ PayloadsAt("pool", h) /\ AttemptsAt("pool", h)
        /\ \A place \in Places, f \in Entry : At(place, f) /\ f.job = j => place = "pool"
    BY <1>0, <1>6 DEF JobOK, CopiesOK
  <1>8. \A u \in Threads : worker[u].pc # "idle" => worker[u].entry.job # j
    BY <1>7, ThreadAlone, ThreadStateFacts DEF TypeInv, TypeOK, ThreadPC
  <1>9. /\ ThreadsApart'
        /\ \A place \in Places, f \in Entry :
              f.job # j => (ThreadAt(place, f)' <=> ThreadAt(place, f))
        /\ \A place \in Places, f \in Entry : f.job = j =>
              (ThreadAt(place, f)' <=> place = "run" /\ f = e)
    BY <1>1, <1>2, <1>5, <1>8, ThreadStep DEF IInv, Apart
  <1>10. \A place \in Places, f \in Entry : f.job # j => (At(place, f)' <=> At(place, f))
    BY <1>2, <1>3, <1>9 DEF At
  <1>11. \A place \in Places, f \in Entry :
            f.job = j => (At(place, f)' <=> place = "run" /\ f = e)
    <2>1. \A f \in Entry : f.job = j =>
             f \notin Range(queue) /\ ~(loop.pc = "submit" /\ loop.entry = f)
      BY <1>7 DEF At, Places
    <2>2. QED
      BY <1>2, <1>3, <1>9, <2>1 DEF At
  <1>12. Others(j)
    BY <1>2, <1>4, <1>10 DEF Others
  <1>13. JobOK(j)'
    <2>1. CopiesOK(j)'
      <3>1. KnownAt("run", e)' /\ PayloadsAt("run", e)' /\ AttemptsAt("run", e)'
        BY <1>0, <1>1, <1>2, <1>4, <1>7
        DEF KnownAt, StatusAt, PayloadsAt, AttemptsAt, Attempts, InSeq, Budget
      <3>2. QED
        BY <1>11, <3>1 DEF CopiesOK
    <2>2. RecordsOK(j)'
      BY <1>0, <1>2, <1>6, <1>7 DEF JobOK, RecordsOK, KnownAt, Attempts, InSeq, Budget
    <2>3. StoreOK(j)'
      BY <1>1, <1>4, <1>6, <1>11 DEF StoreOK
    <2>4. KeptOK(j)'
      BY <1>1, <1>2, <1>6, <1>7, <1>11 DEF JobOK, KeptOK, InSeq, Places
    <2>5. QED
      BY <2>1, <2>2, <2>3, <2>4 DEF JobOK
  <1>14. Apart'
    BY <1>2, <1>3, <1>9 DEF IInv, Apart
  <1>15. QED
    BY <1>12, <1>13, <1>14, OneJobStep

(* _process_job returned.                                                  *)
LEMMA CompleteJobStep ==
    ASSUME TypeInv, TypeInv', IInv, NEW t \in Threads, CompleteJob(t)
    PROVE  IInv'
  <1>0. PICK h \in Entry, j \in Jobs : h = worker[t].entry /\ h.job = j
    BY EntryFacts DEF TypeInv, HandsOK, CompleteJob
  <1>1. PICK e \in Entry : /\ e = WithStatus(h, "completed") /\ e.job = j
                           /\ e.retries = h.retries /\ e.status = "completed"
    BY <1>0, WithStatusFacts DEF Status
  <1>2. /\ worker[t].pc = "run" /\ StatusSet(e)
        /\ successes' = [successes EXCEPT ![j] = @ + 1]
        /\ \/ Step(t, "ack", e)
           \/ Finish(t)
        /\ UNCHANGED <<backend, queue, processing, dlq, caller, loop, pool, shutdown,
                       faults, crashes, failures>>
    BY <1>0, <1>1 DEF CompleteJob, redisVars, stopVars
  <1>3. /\ store'[j] = e
        /\ \A k \in Jobs : k # j => store'[k] = store[k]
    BY <1>1, <1>2, StatusSetFacts DEF TypeInv, TypeOK
  <1>4. /\ successes'[j] = successes[j] + 1
        /\ \A k \in Jobs : k # j => successes'[k] = successes[k]
        /\ successes[j] \in Nat /\ failures[j] \in Nat
    BY <1>2 DEF TypeInv, TypeOK
  <1>5. /\ \/ worker'[t].pc = "ack" /\ worker'[t].entry = e
           \/ worker'[t].pc = "idle"
        /\ \A u \in Threads : u # t => worker'[u] = worker[u]
    <2>1. worker \in [Threads -> ThreadState] /\ "ack" \in ThreadPC
      BY DEF TypeInv, TypeOK, ThreadPC
    <2>2. CASE Step(t, "ack", e)
      BY <1>1, <2>1, <2>2, StepFacts
    <2>3. CASE Finish(t)
      BY <2>1, <2>3, FinishFacts
    <2>4. QED
      BY <1>2, <2>2, <2>3
  <1>6. /\ JobOK(j) /\ KnownAt("run", h) /\ PayloadsAt("run", h) /\ AttemptsAt("run", h)
        /\ \A place \in Places, f \in Entry : At(place, f) /\ f.job = j => place = "run"
    BY <1>0, <1>2, ThreadKnows
  <1>7. /\ ThreadsApart'
        /\ \A place \in Places, f \in Entry : f.job # j => (At(place, f)' <=> At(place, f))
        /\ \A place \in Places, f \in Entry :
              f.job = j /\ At(place, f)' => place = "ack" /\ f = e
    <2>1. /\ worker'[t].pc # "idle" => worker'[t].entry.job = j
          /\ UNCHANGED <<queue, pool, loop>>
      BY <1>1, <1>2, <1>5
    <2>2. /\ ThreadsApart'
          /\ \A place \in Places, f \in Entry : f.job # j => (At(place, f)' <=> At(place, f))
          /\ \A place \in Places, f \in Entry : f.job = j =>
                (At(place, f)' <=> /\ worker'[t].pc # "idle"
                                   /\ worker'[t].pc = place /\ worker'[t].entry = f)
      BY <1>0, <1>2, <1>5, <2>1, WorkStep
    <2>3. QED
      BY <1>5, <2>2
  <1>8. Others(j)
    BY <1>2, <1>3, <1>4, <1>7 DEF Others
  <1>9. JobOK(j)'
    <2>1. /\ h.retries < Budget /\ failures[j] + successes[j] <= h.retries
          /\ h.retries \in Nat /\ Budget \in Nat /\ ~InSeq(dlq, j)
          /\ faults = 0 => failures[j] = h.retries
          /\ caller[j] \in {"returned", "raised"}
      BY <1>0, <1>6, EntryFacts, QueueAssumption DEF AttemptsAt, Attempts, KnownAt, Budget
    <2>2. CopiesOK(j)'
      <3>1. KnownAt("ack", e)' /\ PayloadsAt("ack", e)'
        BY <1>0, <1>1, <1>2, <1>3, <1>6 DEF KnownAt, StatusAt, PayloadsAt, InSeq
      <3>2. AttemptsAt("ack", e)'
        BY <1>1, <1>2, <1>4, <2>1 DEF AttemptsAt, Attempts, Budget
      <3>3. QED
        BY <1>7, <3>1, <3>2 DEF CopiesOK
    <2>3. RecordsOK(j)'
      <3>1. Attempts(j)' <= Budget
        BY <1>2, <1>4, <2>1 DEF Attempts
      <3>2. \A f \in Range(dlq) : f.job # j
        BY <2>1 DEF InSeq
      <3>3. QED
        BY <1>2, <1>6, <2>1, <3>1, <3>2 DEF JobOK, RecordsOK, Budget
    <2>4. StoreOK(j)' /\ KeptOK(j)'
      BY <1>1, <1>3, <1>4 DEF StoreOK, KeptOK, Settled
    <2>5. QED
      BY <2>2, <2>3, <2>4 DEF JobOK
  <1>10. Apart'
    BY <1>2, <1>7 DEF IInv, Apart
  <1>11. QED
    BY <1>8, <1>9, <1>10, OneJobStep

(* The thread takes its last step for a settled job: the payload it would  *)
(* remove from the processing list is not in it.                           *)
LEMMA DoneStep ==
    ASSUME TypeInv, TypeInv', IInv, NEW t \in Threads,
           worker[t].pc \in {"ack", "dlq_rem"}, Finish(t),
           LRem(worker[t].entry) \/ processing' = processing,
           faults' = 0 => faults = 0,
           UNCHANGED <<backend, queue, dlq, store, caller, loop, pool, shutdown, crashes,
                       failures, successes>>
    PROVE  IInv'
  <1>0. PICK h \in Entry, j \in Jobs, pc \in {"ack", "dlq_rem"} :
            h = worker[t].entry /\ h.job = j /\ pc = worker[t].pc
    BY EntryFacts DEF TypeInv, HandsOK
  <1>1. /\ JobOK(j) /\ KnownAt(pc, h)
        /\ \A place \in Places, f \in Entry : At(place, f) /\ f.job = j => place = pc
    BY <1>0, ThreadKnows
  <1>2. /\ h.status \in {"completed", "failed"} /\ store[j] = h
        /\ caller[j] \in {"returned", "raised"}
    BY <1>0, <1>1 DEF KnownAt, StatusAt
  <1>3. processing' = processing
    BY <1>0, <1>1, <1>2 DEF LRem, JobOK, RecordsOK
  <1>4. worker'[t].pc = "idle" /\ \A u \in Threads : u # t => worker'[u] = worker[u]
    BY FinishFacts DEF TypeInv, TypeOK
  <1>5. /\ ThreadsApart'
        /\ \A place \in Places, f \in Entry : f.job # j => (At(place, f)' <=> At(place, f))
        /\ \A place \in Places, f \in Entry : f.job = j => ~At(place, f)'
    BY <1>0, <1>4, WorkStep
  <1>6. Others(j)
    BY <1>3, <1>5 DEF Others
  <1>7. JobOK(j)'
    <2>1. CopiesOK(j)'
      BY <1>5 DEF CopiesOK
    <2>2. RecordsOK(j)'
      BY <1>1, <1>3 DEF JobOK, RecordsOK, Attempts, InSeq, Budget
    <2>3. StoreOK(j)'
      BY <1>1, <1>2 DEF JobOK, StoreOK
    <2>4. KeptOK(j)'
      BY <1>0, <1>1, <1>2, <1>3 DEF JobOK, KeptOK, InSeq, Settled, Places
    <2>5. QED
      BY <2>1, <2>2, <2>3, <2>4 DEF JobOK
  <1>8. Apart'
    BY <1>5 DEF IInv, Apart
  <1>9. QED
    BY <1>6, <1>7, <1>8, OneJobStep


(* _handle_job_failure, called for a job that raised, or for one whose     *)
(* acknowledgement did.                                                    *)
LEMMA FailureStep ==
    ASSUME TypeInv, TypeInv', IInv, NEW t \in Threads, HandleJobFailure(t),
           \/ /\ worker[t].pc = "run"
              /\ failures' = [failures EXCEPT ![worker[t].entry.job] = @ + 1]
              /\ faults' = faults
              /\ processing' = processing
           \/ /\ worker[t].pc = "ack"
              /\ failures' = failures
              /\ faults' # 0
              /\ LRem(worker[t].entry) \/ processing' = processing,
           UNCHANGED <<backend, queue, dlq, caller, loop, pool, shutdown, crashes, successes>>
    PROVE  IInv'
  <1>0. PICK h \in Entry, j \in Jobs, pc \in {"run", "ack"} :
            h = worker[t].entry /\ h.job = j /\ pc = worker[t].pc
    BY EntryFacts DEF TypeInv, HandsOK
  <1>1. /\ JobOK(j) /\ KnownAt(pc, h) /\ PayloadsAt(pc, h) /\ AttemptsAt(pc, h)
        /\ \A place \in Places, f \in Entry : At(place, f) /\ f.job = j => place = pc
    BY <1>0, ThreadKnows
  <1>2. processing' = processing
    BY <1>0, <1>1 DEF LRem, JobOK, RecordsOK, KnownAt, StatusAt
  <1>3. PICK failed \in Entry, pending \in Entry :
          /\ failed = WithStatus(OneMoreRetry(h), "failed")
          /\ pending = WithStatus(OneMoreRetry(h), "pending")
          /\ failed.job = j /\ failed.retries = h.retries + 1 /\ failed.status = "failed"
          /\ pending.job = j /\ pending.retries = h.retries + 1 /\ pending.status = "pending"
    BY <1>0, OneMoreRetryFacts, WithStatusFacts DEF Status
  <1>4. OneMoreRetry(h).retries = h.retries + 1 /\ h.retries \in Nat /\ MaxRetries \in Nat
    BY OneMoreRetryFacts, EntryFacts, QueueAssumption
  <1>5. /\ h.retries < Budget /\ Budget \in Nat
        /\ caller[j] \in {"returned", "raised"} /\ ~InSeq(dlq, j)
    BY <1>0, <1>1, QueueAssumption DEF AttemptsAt, KnownAt, Budget
  <1>6. PICK e \in Entry :
          /\ e.job = j /\ e.retries = h.retries + 1
          /\ StatusSet(e)
          /\ \/ /\ e.status = "failed" /\ e.retries = Budget
                /\ Step(t, "dlq", e) \/ Finish(t)
             \/ /\ e.status = "pending" /\ e.retries < Budget
                /\ Step(t, "requeue", e)
    <2>1. \/ /\ OutOfRetries(OneMoreRetry(h)) /\ StatusSet(failed)
             /\ Step(t, "dlq", failed) \/ Finish(t)
          \/ /\ ~OutOfRetries(OneMoreRetry(h)) /\ StatusSet(pending)
             /\ Step(t, "requeue", pending)
      BY <1>0, <1>3 DEF HandleJobFailure
    <2>2. OutOfRetries(OneMoreRetry(h)) <=> h.retries + 1 >= Budget
      BY <1>4, <1>5 DEF OutOfRetries, Budget
    <2>3. CASE OutOfRetries(OneMoreRetry(h))
      BY <1>3, <1>4, <1>5, <2>1, <2>2, <2>3
    <2>4. CASE ~OutOfRetries(OneMoreRetry(h))
      BY <1>3, <1>4, <1>5, <2>1, <2>2, <2>4
    <2>5. QED
      BY <2>3, <2>4
  <1>7. /\ store'[j] = e
        /\ \A k \in Jobs : k # j => store'[k] = store[k]
    BY <1>6, StatusSetFacts DEF TypeInv, TypeOK
  <1>8. /\ \/ worker'[t].pc = "dlq" /\ worker'[t].entry = e /\ e.status = "failed"
           \/ worker'[t].pc = "idle" /\ e.status = "failed"
           \/ worker'[t].pc = "requeue" /\ worker'[t].entry = e /\ e.status = "pending"
        /\ \A u \in Threads : u # t => worker'[u] = worker[u]
    <2>1. worker \in [Threads -> ThreadState] /\ "dlq" \in ThreadPC /\ "requeue" \in ThreadPC
      BY DEF TypeInv, TypeOK, ThreadPC
    <2>2. CASE Step(t, "dlq", e) /\ e.status = "failed"
      BY <2>1, <2>2, StepFacts
    <2>3. CASE Step(t, "requeue", e) /\ e.status = "pending"
      BY <2>1, <2>3, StepFacts
    <2>4. CASE Finish(t) /\ e.status = "failed"
      BY <2>1, <2>4, FinishFacts
    <2>5. QED
      BY <1>6, <2>2, <2>3, <2>4
  <1>9. /\ \A k \in Jobs : k # j => failures'[k] = failures[k]
        /\ faults' = 0 => faults = 0
        /\ failures'[j] + successes[j] <= e.retries
        /\ faults' = 0 => failures'[j] = e.retries /\ successes[j] = 0
    <2>1. failures[j] \in Nat /\ successes[j] \in Nat
      BY DEF TypeInv, TypeOK
    <2>2. CASE pc = "run"
      <3>1. /\ failures'[j] = failures[j] + 1 /\ faults' = faults
            /\ \A k \in Jobs : k # j => failures'[k] = failures[k]
        BY <1>0, <2>2 DEF TypeInv, TypeOK
      <3>2. /\ failures[j] + successes[j] <= h.retries
            /\ faults = 0 => failures[j] = h.retries /\ successes[j] = 0
        BY <1>0, <1>1, <2>2 DEF AttemptsAt, Attempts
      <3>3. QED
        BY <1>4, <1>6, <2>1, <3>1, <3>2
    <2>3. CASE pc = "ack"
      <3>1. failures' = failures /\ faults' # 0
        BY <1>0, <2>3
      <3>2. failures[j] + successes[j] <= h.retries + 1
        BY <1>0, <1>1 DEF AttemptsAt, Attempts
      <3>3. QED
        BY <1>6, <3>1, <3>2
    <2>4. QED
      BY <2>2, <2>3
  <1>10. /\ ThreadsApart'
         /\ \A place \in Places, f \in Entry : f.job # j => (At(place, f)' <=> At(place, f))
         /\ \A place \in Places, f \in Entry : f.job = j =>
               (At(place, f)' <=> /\ worker'[t].pc # "idle"
                                  /\ worker'[t].pc = place /\ worker'[t].entry = f)
    <2>1. worker'[t].pc # "idle" => worker'[t].entry.job = j
      BY <1>6, <1>8
    <2>2. QED
      BY <1>0, <1>8, <2>1, WorkStep
  <1>11. Others(j)
    BY <1>2, <1>7, <1>9, <1>10 DEF Others
  <1>12. JobOK(j)'
    <2>1. CopiesOK(j)'
      <3>1. ASSUME NEW place \in Places, NEW f \in Entry, At(place, f)', f.job = j
            PROVE  /\ f = e
                   /\ \/ place = "dlq" /\ e.status = "failed" /\ e.retries = Budget
                      \/ place = "requeue" /\ e.status = "pending" /\ e.retries < Budget
        BY <1>6, <1>8, <1>10, <3>1
      <3>2. ASSUME NEW place \in Places, At(place, e)'
            PROVE  KnownAt(place, e)' /\ PayloadsAt(place, e)' /\ AttemptsAt(place, e)'
        <4>1. KnownAt(place, e)'
          BY <1>2, <1>5, <1>6, <1>7, <3>1, <3>2 DEF KnownAt, StatusAt, InSeq
        <4>2. PayloadsAt(place, e)'
          <5>1. ASSUME NEW p \in processing, p.job = j PROVE p.retries < e.retries
            <6>1. p.retries <= h.retries /\ p.retries \in Nat
              BY <1>0, <1>1, <5>1, EntryFacts DEF PayloadsAt, TypeInv, TypeOK
            <6>2. QED
              BY <1>4, <1>6, <6>1
          <5>2. \A p \in processing : p.retries \in Nat
            BY EntryFacts DEF TypeInv, TypeOK
          <5>3. QED
            BY <1>2, <1>4, <1>6, <5>1, <5>2 DEF PayloadsAt
        <4>3. AttemptsAt(place, e)'
          <5>1. failures'[j] \in Nat /\ successes[j] \in Nat /\ e.retries \in Nat
            BY EntryFacts DEF TypeInv, TypeOK
          <5>2. QED
            BY <1>5, <1>6, <1>9, <3>1, <3>2, <5>1 DEF AttemptsAt, Attempts, Budget
        <4>4. QED
          BY <4>1, <4>2, <4>3
      <3>3. QED
        BY <1>8, <3>1, <3>2 DEF CopiesOK
    <2>2. RecordsOK(j)'
      <3>1. Attempts(j)' <= Budget
        <4>1. failures'[j] \in Nat /\ successes[j] \in Nat /\ e.retries \in Nat
          BY EntryFacts DEF TypeInv, TypeOK
        <4>2. QED
          BY <1>4, <1>5, <1>6, <1>9, <4>1 DEF Attempts
      <3>2. \A f \in Range(dlq) : f.job # j
        BY <1>5 DEF InSeq
      <3>3. QED
        BY <1>1, <1>2, <1>5, <3>1, <3>2 DEF JobOK, RecordsOK, Budget
    <2>3. StoreOK(j)'
      BY <1>6, <1>7 DEF StoreOK
    <2>4. KeptOK(j)'
      <3>1. Settled(j)' \/ At("requeue", e)'
        <4>1. "requeue" \in Places
          BY DEF Places, ThreadPC
        <4>2. CASE e.status = "failed"
          BY <1>7, <4>2 DEF Settled
        <4>3. CASE e.status = "pending"
          BY <1>6, <1>8, <1>10, <4>1, <4>3
        <4>4. QED
          BY <1>6, <4>2, <4>3
      <3>2. "requeue" \in Places /\ "queue" \in Places
        BY DEF Places, ThreadPC
      <3>3. QED
        BY <1>0, <1>1, <1>2, <1>6, <3>1, <3>2 DEF JobOK, KeptOK, InSeq
    <2>5. QED
      BY <2>1, <2>2, <2>3, <2>4 DEF JobOK
  <1>13. Apart'
    BY <1>10 DEF IInv, Apart
  <1>14. QED
    BY <1>11, <1>12, <1>13, OneJobStep

(* The retry is pushed, or the push raises, with or without effect.        *)
LEMMA RequeueStep ==
    ASSUME TypeInv, TypeInv', IInv, NEW t \in Threads, worker[t].pc = "requeue", Finish(t),
           Enqueue(worker[t].entry) \/ (queue' = queue /\ faults' # 0),
           faults' = 0 => faults = 0,
           UNCHANGED <<backend, processing, dlq, store, caller, loop, pool, shutdown, crashes,
                       failures, successes>>
    PROVE  IInv'
  <1>0. PICK h \in Entry, j \in Jobs : h = worker[t].entry /\ h.job = j
    BY EntryFacts DEF TypeInv, HandsOK
  <1>1. /\ JobOK(j) /\ KnownAt("requeue", h) /\ PayloadsAt("requeue", h)
        /\ AttemptsAt("requeue", h)
        /\ \A place \in Places, f \in Entry : At(place, f) /\ f.job = j => place = "requeue"
        /\ \A u \in Threads : u # t /\ worker[u].pc # "idle" => worker[u].entry.job # j
    BY <1>0, ThreadKnows
  <1>2. h.status = "pending" /\ store[j] = h /\ caller[j] \in {"returned", "raised"}
    BY <1>0, <1>1 DEF KnownAt, StatusAt
  <1>3. /\ Distinct(queue')
        /\ \/ Range(queue') = Range(queue) \union {h}
           \/ Range(queue') = Range(queue) /\ faults' # 0
    <2>1. /\ queue \in Seq(Entry) /\ Distinct(queue) /\ Range(queue) \subseteq Entry
          /\ "queue" \in Places
      BY RangeType DEF TypeInv, TypeOK, IInv, Apart, Places
    <2>2. ~InSeq(queue, j)
      BY <1>1, <2>1 DEF InSeq, At
    <2>3. QED
      BY <1>0, <2>1, <2>2, AppendElements DEF Enqueue
  <1>4. worker'[t].pc = "idle" /\ \A u \in Threads : u # t => worker'[u] = worker[u]
    BY FinishFacts DEF TypeInv, TypeOK
  <1>5. /\ ThreadsApart'
        /\ \A place \in Places, f \in Entry :
              f.job # j => (ThreadAt(place, f)' <=> ThreadAt(place, f))
        /\ \A place \in Places, f \in Entry : f.job = j => ~ThreadAt(place, f)'
    BY <1>0, <1>1, <1>4, ThreadStep DEF IInv, Apart
  <1>6. \A place \in Places, f \in Entry : f.job # j => (At(place, f)' <=> At(place, f))
    BY <1>0, <1>3, <1>5 DEF At
  <1>7. /\ \A place \in Places, f \in Entry : At(place, f)' /\ f.job = j =>
              place = "queue" /\ f = h
        /\ At("queue", h)' \/ (faults' # 0 /\ \A f \in Entry : f.job = j => ~At("queue", f)')
    <2>1. \A f \in Entry : f.job = j => /\ f \notin Range(queue) /\ f \notin Range(pool)
                                        /\ ~(loop.pc = "submit" /\ loop.entry = f)
      BY <1>1 DEF At, Places
    <2>2. "queue" \in Places
      BY DEF Places
    <2>3. QED
      BY <1>3, <1>5, <2>1, <2>2 DEF At
  <1>8. Others(j)
    BY <1>6 DEF Others
  <1>9. JobOK(j)'
    <2>1. CopiesOK(j)'
      <3>1. KnownAt("queue", h)' /\ PayloadsAt("queue", h)' /\ AttemptsAt("queue", h)'
        BY <1>1 DEF KnownAt, StatusAt, PayloadsAt, AttemptsAt, Attempts, InSeq, Budget
      <3>2. QED
        BY <1>7, <3>1 DEF CopiesOK
    <2>2. RecordsOK(j)'
      BY <1>1 DEF JobOK, RecordsOK, Attempts, InSeq, Budget
    <2>3. StoreOK(j)'
      BY <1>1, <1>2 DEF JobOK, StoreOK
    <2>4. KeptOK(j)'
      <3>1. "queue" \in Places /\ ~(\E f \in Entry : At("queue", f) /\ f.job = j)
        BY <1>1 DEF Places
      <3>2. QED
        BY <1>0, <1>1, <1>7, <3>1 DEF JobOK, KeptOK, InSeq
    <2>5. QED
      BY <2>1, <2>2, <2>3, <2>4 DEF JobOK
  <1>10. Apart'
    BY <1>3, <1>5 DEF IInv, Apart
  <1>11. QED
    BY <1>8, <1>9, <1>10, OneJobStep


(* The first half of _dlq_redis: the push, or one that raises.             *)
LEMMA DlqStep ==
    ASSUME TypeInv, TypeInv', IInv, NEW t \in Threads, worker[t].pc = "dlq",
           \/ dlq' = Append(dlq, worker[t].entry) /\ Step(t, "dlq_rem", worker[t].entry)
           \/ dlq' = Append(dlq, worker[t].entry) /\ Finish(t)
           \/ dlq' = dlq /\ Finish(t),
           faults' = 0 => faults = 0,
           UNCHANGED <<backend, queue, processing, store, caller, loop, pool, shutdown,
                       crashes, failures, successes>>
    PROVE  IInv'
  <1>0. PICK h \in Entry, j \in Jobs : h = worker[t].entry /\ h.job = j
    BY EntryFacts DEF TypeInv, HandsOK
  <1>1. /\ JobOK(j) /\ KnownAt("dlq", h) /\ PayloadsAt("dlq", h) /\ AttemptsAt("dlq", h)
        /\ \A place \in Places, f \in Entry : At(place, f) /\ f.job = j => place = "dlq"
    BY <1>0, ThreadKnows
  <1>2. /\ h.status = "failed" /\ store[j] = h /\ caller[j] \in {"returned", "raised"}
        /\ ~InSeq(dlq, j) /\ h.retries = Budget
        /\ faults = 0 => failures[j] = Budget /\ successes[j] = 0
    BY <1>0, <1>1 DEF KnownAt, StatusAt, AttemptsAt
  <1>3. /\ Distinct(dlq')
        /\ Range(dlq') = Range(dlq) \union {h} \/ dlq' = dlq
        /\ InSeq(dlq, j)' \/ dlq' = dlq
    <2>1. dlq \in Seq(Entry) /\ Distinct(dlq)
      BY DEF TypeInv, TypeOK, IInv, Apart
    <2>2. Distinct(Append(dlq, h)) /\ Range(Append(dlq, h)) = Range(dlq) \union {h}
      BY <1>0, <1>2, <2>1, AppendElements
    <2>3. dlq' = Append(dlq, h) \/ dlq' = dlq
      BY <1>0
    <2>4. dlq' = Append(dlq, h) => InSeq(dlq, j)'
      BY <1>0, <2>2 DEF InSeq
    <2>5. QED
      BY <2>1, <2>2, <2>3, <2>4
  <1>4. /\ \/ worker'[t].pc = "dlq_rem" /\ worker'[t].entry = h
           \/ worker'[t].pc = "idle"
        /\ \A u \in Threads : u # t => worker'[u] = worker[u]
    <2>1. worker \in [Threads -> ThreadState] /\ "dlq_rem" \in ThreadPC
      BY DEF TypeInv, TypeOK, ThreadPC
    <2>2. CASE Step(t, "dlq_rem", worker[t].entry)
      BY <1>0, <2>1, <2>2, StepFacts
    <2>3. CASE Finish(t)
      BY <2>1, <2>3, FinishFacts
    <2>4. QED
      BY <2>2, <2>3
  <1>5. /\ ThreadsApart'
        /\ \A place \in Places, f \in Entry : f.job # j => (At(place, f)' <=> At(place, f))
        /\ \A place \in Places, f \in Entry :
              f.job = j /\ At(place, f)' => place = "dlq_rem" /\ f = h
    <2>1. worker'[t].pc # "idle" => worker'[t].entry.job = j
      BY <1>0, <1>4
    <2>2. /\ ThreadsApart'
          /\ \A place \in Places, f \in Entry : f.job # j => (At(place, f)' <=> At(place, f))
          /\ \A place \in Places, f \in Entry : f.job = j =>
                (At(place, f)' <=> /\ worker'[t].pc # "idle"
                                   /\ worker'[t].pc = place /\ worker'[t].entry = f)
      BY <1>0, <1>4, <2>1, WorkStep
    <2>3. QED
      BY <1>4, <2>2
  <1>6. Others(j)
    <2>1. \A e \in Entry : e.job # j => (e \in Range(dlq') <=> e \in Range(dlq))
      BY <1>0, <1>3
    <2>2. QED
      BY <1>5, <2>1 DEF Others
  <1>7. JobOK(j)'
    <2>1. CopiesOK(j)'
      <3>1. KnownAt("dlq_rem", h)' /\ PayloadsAt("dlq_rem", h)' /\ AttemptsAt("dlq_rem", h)'
        <4>1. KnownAt("dlq_rem", h)'
          BY <1>0, <1>2 DEF KnownAt, StatusAt
        <4>2. PayloadsAt("dlq_rem", h)' /\ AttemptsAt("dlq_rem", h)'
          BY <1>1 DEF PayloadsAt, AttemptsAt, Attempts, Budget
        <4>3. QED
          BY <4>1, <4>2
      <3>2. QED
        BY <1>5, <3>1 DEF CopiesOK
    <2>2. RecordsOK(j)'
      <3>1. \A e \in Range(dlq') : e.job = j => e.retries = Budget
        BY <1>0, <1>1, <1>2, <1>3 DEF JobOK, RecordsOK
      <3>2. QED
        BY <1>1, <1>2, <3>1 DEF JobOK, RecordsOK, Attempts, Budget
    <2>3. StoreOK(j)'
      BY <1>1, <1>2 DEF JobOK, StoreOK
    <2>4. KeptOK(j)'
      <3>1. "queue" \in Places /\ ~(\E f \in Entry : At("queue", f) /\ f.job = j)
        BY <1>1 DEF Places
      <3>2. Settled(j)'
        BY <1>0, <1>2 DEF Settled
      <3>3. QED
        BY <1>1, <1>2, <1>3, <3>1, <3>2 DEF JobOK, KeptOK, InSeq
    <2>5. QED
      BY <2>1, <2>2, <2>3, <2>4 DEF JobOK
  <1>8. Apart'
    BY <1>3, <1>5 DEF IInv, Apart
  <1>9. QED
    BY <1>6, <1>7, <1>8, OneJobStep

(* A crash takes everything that was not in Redis.                         *)
LEMMA CrashStep ==
    ASSUME TypeInv, TypeInv', IInv, Crash
    PROVE  IInv'
  <1>1. /\ queue' = queue \/ (queue' = <<>> /\ backend # "redis")
        /\ pool' = <<>> /\ loop'.pc = "check" /\ crashes' # 0
        /\ \A t \in Threads : worker'[t].pc = "idle"
        /\ \A j \in Jobs : store'[j] = NoEntry
        /\ \A j \in Jobs : /\ caller[j] = "stored" => caller'[j] = "raised"
                           /\ caller[j] # "stored" => caller'[j] = caller[j]
        /\ UNCHANGED <<backend, processing, dlq, faults, failures, successes>>
    BY IdleFacts DEF Crash, history, TypeInv, TypeOK
  <1>2. Range(queue') \subseteq Range(queue) /\ Distinct(queue') /\ Distinct(pool')
    BY <1>1, EmptyElements DEF IInv, Apart
  <1>3. \A place \in Places, e \in Entry :
           At(place, e)' => place = "queue" /\ At("queue", e)
    BY <1>1, <1>2, EmptyElements DEF At, ThreadAt
  <1>4. \A e \in Entry : backend = "redis" => (At("queue", e) => At("queue", e)')
    <2>1. \A e : ~ThreadAt("queue", e)
      BY ThreadStateFacts DEF ThreadAt, TypeInv, TypeOK, ThreadPC
    <2>2. QED
      BY <1>1, <2>1 DEF At
  <1>5. ASSUME NEW j \in Jobs PROVE JobOK(j)'
    <2>1. JobOK(j) /\ "queue" \in Places
      BY DEF IInv, Places
    <2>2. CopiesOK(j)'
      <3>1. ASSUME NEW e \in Entry, At("queue", e), e.job = j
            PROVE  KnownAt("queue", e)' /\ PayloadsAt("queue", e)' /\ AttemptsAt("queue", e)'
        <4>1. KnownAt("queue", e) /\ PayloadsAt("queue", e) /\ AttemptsAt("queue", e)
          BY <2>1, <3>1 DEF JobOK, CopiesOK
        <4>2. caller'[j] = caller[j] /\ caller[j] \in {"returned", "raised"}
          BY <1>1, <3>1, <4>1 DEF KnownAt
        <4>3. KnownAt("queue", e)'
          BY <1>1, <3>1, <4>1, <4>2 DEF KnownAt, StatusAt, InSeq
        <4>4. PayloadsAt("queue", e)' /\ AttemptsAt("queue", e)'
          BY <1>1, <4>1 DEF PayloadsAt, AttemptsAt, Attempts, Budget
        <4>5. QED
          BY <4>3, <4>4
      <3>2. QED
        BY <1>3, <3>1 DEF CopiesOK
    <2>3. RecordsOK(j)'
      <3>1. caller'[j] \in {"idle", "stored"} => caller[j] = "idle" /\ caller'[j] = "idle"
        BY <1>1
      <3>2. QED
        BY <1>1, <2>1, <3>1 DEF JobOK, RecordsOK, Attempts, InSeq, Budget
    <2>4. StoreOK(j)'
      BY <1>1 DEF StoreOK, NoEntry
    <2>5. KeptOK(j)'
      <3>1. caller'[j] = "returned" => caller[j] = "returned"
        BY <1>1
      <3>2. QED
        BY <1>1, <1>4, <2>1, <3>1 DEF JobOK, KeptOK, InSeq
    <2>6. QED
      BY <2>2, <2>3, <2>4, <2>5 DEF JobOK
  <1>6. Apart'
    BY <1>1, <1>2 DEF IInv, Apart, ThreadsApart
  <1>7. QED
    BY <1>5, <1>6 DEF IInv

-----------------------------------------------------------------------------
LEMMA InitIInv == Init => IInv
  <1> SUFFICES ASSUME Init PROVE IInv
    OBVIOUS
  <1>1. \A place \in Places, e \in Entry : ~At(place, e)
    BY IdleFacts, EmptyElements DEF Init, At, ThreadAt
  <1>2. ASSUME NEW j \in Jobs PROVE JobOK(j)
    <2>1. CopiesOK(j)
      BY <1>1 DEF CopiesOK
    <2>2. RecordsOK(j) /\ StoreOK(j) /\ KeptOK(j)
      BY EmptyElements, QueueAssumption
      DEF Init, RecordsOK, StoreOK, KeptOK, NoEntry, Attempts, InSeq, Budget
    <2>3. QED
      BY <2>1, <2>2 DEF JobOK
  <1>3. Apart
    BY IdleFacts, EmptyElements DEF Init, Apart, ThreadsApart
  <1>4. QED
    BY <1>2, <1>3 DEF IInv

LEMMA NextIInv == TypeInv /\ TypeInv' /\ IInv /\ [Next]_vars => IInv'
  <1> SUFFICES ASSUME TypeInv, TypeInv', IInv, [Next]_vars PROVE IInv'
    OBVIOUS
  <1> USE DEF redisVars, poolVars, stopVars, history
  <1>0. Raises => faults' # 0
    BY DEF Raises, TypeInv, TypeOK
  <1>1. ASSUME NEW j \in Jobs, StoreJob(j) PROVE IInv'
    BY <1>1, StoreJobStep
  <1>2. ASSUME NEW j \in Jobs, PushJob(j) PROVE IInv'
    BY <1>2, CallerStep DEF PushJob
  <1>3. ASSUME NEW j \in Jobs, PushJobRaises(j) PROVE IInv'
    <2>1. \/ caller' = [caller EXCEPT ![j] = "raised"] /\ Enqueue(Fresh(j))
          \/ caller' = [caller EXCEPT ![j] = "raised"] /\ queue' = queue
      BY <1>3 DEF PushJobRaises
    <2>2. QED
      BY <1>0, <1>3, <2>1, CallerStep DEF PushJobRaises
  <1>4. CASE CheckStop
    <2>1. loop.pc # "submit" /\ loop'.pc # "submit"
      BY <1>4 DEF CheckStop, TypeInv, TypeOK, LoopState
    <2>2. QED
      BY <1>4, <2>1, QuietStep DEF CheckStop
  <1>5. CASE Pop
    BY <1>5, PopStep DEF Pop
  <1>6. CASE PopEmpty
    <2>1. loop.pc # "submit" /\ loop'.pc # "submit"
      BY <1>6 DEF PopEmpty, TypeInv, TypeOK, LoopState
    <2>2. QED
      BY <1>6, <2>1, QuietStep DEF PopEmpty
  <1>7. CASE PopRaises
    <2>1. /\ loop.pc # "submit" /\ loop'.pc # "submit" /\ faults' # 0 /\ backend = "redis"
          /\ TakeNext \/ UNCHANGED <<queue, processing>>
          /\ UNCHANGED <<backend, dlq, store, caller, pool, worker, shutdown, crashes,
                         failures, successes>>
      BY <1>0, <1>7 DEF PopRaises, Raises, TypeInv, TypeOK, LoopState
    <2>2. CASE TakeNext
      BY <2>1, <2>2, PopStep
    <2>3. CASE UNCHANGED <<queue, processing>>
      BY <2>1, <2>3, QuietStep
    <2>4. QED
      BY <2>1, <2>2, <2>3
  <1>8. CASE Submit
    BY <1>8, SubmitStep
  <1>9. CASE SubmitRefused
    BY <1>9, SubmitRefusedStep
  <1>10. ASSUME NEW t \in Threads, StartJob(t) PROVE IInv'
    BY <1>10, StartJobStep
  <1>11. ASSUME NEW t \in Threads, CompleteJob(t) PROVE IInv'
    BY <1>11, CompleteJobStep
  <1>12. ASSUME NEW t \in Threads, Ack(t) PROVE IInv'
    BY <1>12, DoneStep DEF Ack
  <1>13. ASSUME NEW t \in Threads, FailJob(t) PROVE IInv'
    BY <1>13, FailureStep DEF FailJob
  <1>14. ASSUME NEW t \in Threads, AckRaises(t) PROVE IInv'
    BY <1>0, <1>14, FailureStep DEF AckRaises
  <1>15. ASSUME NEW t \in Threads, Requeue(t) PROVE IInv'
    BY <1>15, RequeueStep DEF Requeue
  <1>16. ASSUME NEW t \in Threads, DlqPush(t) PROVE IInv'
    BY <1>16, DlqStep DEF DlqPush
  <1>17. ASSUME NEW t \in Threads, DlqRem(t) PROVE IInv'
    BY <1>17, DoneStep DEF DlqRem
  <1>18. ASSUME NEW t \in Threads, HandlerRaises(t) PROVE IInv'
    <2>1. /\ faults' # 0 /\ Finish(t)
          /\ UNCHANGED <<backend, store, caller, loop, pool, shutdown, crashes,
                         failures, successes>>
      BY <1>0, <1>18 DEF HandlerRaises
    <2>2. CASE worker[t].pc = "requeue"
      <3>1. /\ Enqueue(worker[t].entry) \/ queue' = queue
            /\ UNCHANGED <<processing, dlq>>
        BY <1>18, <2>2 DEF HandlerRaises
      <3>2. QED
        BY <2>1, <2>2, <3>1, RequeueStep
    <2>3. CASE worker[t].pc = "dlq"
      <3>1. /\ dlq' = Append(dlq, worker[t].entry) \/ dlq' = dlq
            /\ UNCHANGED <<queue, processing>>
        BY <1>18, <2>3 DEF HandlerRaises
      <3>2. QED
        BY <2>1, <2>3, <3>1, DlqStep
    <2>4. CASE worker[t].pc = "dlq_rem"
      <3>1. /\ LRem(worker[t].entry) \/ processing' = processing
            /\ UNCHANGED <<queue, dlq>>
        BY <1>18, <2>4 DEF HandlerRaises
      <3>2. QED
        BY <2>1, <2>4, <3>1, DoneStep
    <2>5. QED
      BY <1>18, <2>2, <2>3, <2>4 DEF HandlerRaises
  <1>19. CASE Stop
    BY <1>19, QuietStep DEF Stop
  <1>20. CASE Shutdown
    BY <1>20, QuietStep DEF Shutdown
  <1>21. CASE Crash
    BY <1>21, CrashStep
  <1>22. CASE UNCHANGED vars
    BY <1>22, QuietStep DEF vars
  <1>23. QED
    BY <1>1, <1>2, <1>3, <1>4, <1>5, <1>6, <1>7, <1>8, <1>9, <1>10, <1>11, <1>12, <1>13,
       <1>14, <1>15, <1>16, <1>17, <1>18, <1>19, <1>20, <1>21, <1>22
    DEF Next, Caller, Run, ProcessOne

LEMMA Invariant == Spec => [](TypeInv /\ IInv)
  <1>1. Init => TypeInv /\ IInv
    BY InitType, InitIInv
  <1>2. TypeInv /\ IInv /\ [Next]_vars => (TypeInv /\ IInv)'
    BY NextType, NextIInv
  <1>3. QED
    BY <1>1, <1>2, PTL DEF Spec


(* Where the copies of a job are, in the words of the properties.          *)
LEMMA CopiesByPlace ==
    ASSUME TypeInv, NEW j \in Jobs
    PROVE  /\ InSeq(queue, j) <=> \E e \in Entry : At("queue", e) /\ e.job = j
           /\ InSeq(pool, j) <=> \E e \in Entry : At("pool", e) /\ e.job = j
           /\ InHand(j) <=> \E e \in Entry : At("submit", e) /\ e.job = j
           /\ \A t \in Threads : worker[t].entry.job = j =>
                 /\ worker[t].pc \in ThreadPC /\ worker[t].pc # "idle"
                 /\ worker[t].entry \in Entry /\ At(worker[t].pc, worker[t].entry)
           /\ \A pc \in ThreadPC, e \in Entry : At(pc, e) /\ e.job = j =>
                 \E t \in Threads : worker[t].pc = pc /\ worker[t].entry.job = j
  <1>1. \A place \in {"queue", "pool", "submit"} : \A e : ~ThreadAt(place, e)
    BY ThreadStateFacts DEF ThreadAt, TypeInv, TypeOK, ThreadPC
  <1>2. Range(queue) \subseteq Entry /\ Range(pool) \subseteq Entry
    BY RangeType DEF TypeInv, TypeOK
  <1>3. /\ InSeq(queue, j) <=> \E e \in Entry : At("queue", e) /\ e.job = j
        /\ InSeq(pool, j) <=> \E e \in Entry : At("pool", e) /\ e.job = j
    BY <1>1, <1>2 DEF InSeq, At
  <1>4. InHand(j) <=> \E e \in Entry : At("submit", e) /\ e.job = j
    BY <1>1, NoEntryFacts DEF InHand, At, TypeInv, HandsOK
  <1>5. ASSUME NEW t \in Threads, worker[t].entry.job = j
        PROVE  /\ worker[t].pc \in ThreadPC /\ worker[t].pc # "idle"
               /\ worker[t].entry \in Entry /\ At(worker[t].pc, worker[t].entry)
    <2>1. worker[t].pc # "idle" /\ worker[t].pc \in ThreadPC
      BY <1>5, NoEntryFacts, ThreadStateFacts DEF TypeInv, TypeOK, HandsOK
    <2>2. QED
      BY <2>1 DEF TypeInv, HandsOK, At, ThreadAt
  <1>6. ASSUME NEW pc \in ThreadPC, NEW e \in Entry, At(pc, e), e.job = j
        PROVE  \E t \in Threads : worker[t].pc = pc /\ worker[t].entry.job = j
    BY <1>6 DEF At, ThreadAt, ThreadPC
  <1>7. QED
    BY <1>3, <1>4, <1>5, <1>6

(* One copy of a job at most, whatever raises, stops or crashes: no two    *)
(* threads of the pool ever work on the same job.                          *)
THEOREM OneCopy == Spec => []AtMostOneCopy
  <1>1. ASSUME TypeInv, IInv PROVE AtMostOneCopy
    <2>1. /\ Distinct(queue) /\ Distinct(pool) /\ ThreadsApart
          /\ "queue" \in Places /\ "pool" \in Places /\ "submit" \in Places
          /\ ThreadPC \subseteq Places
      BY <1>1 DEF IInv, Apart, Places
    <2>2. ASSUME NEW t \in Threads, NEW u \in Threads,
                 worker[t].entry.job = worker[u].entry.job, worker[t].entry.job # NoJob
          PROVE  t = u
      <3>1. worker[t].pc # "idle" /\ worker[u].pc # "idle"
        BY <1>1, <2>2, NoEntryFacts DEF TypeInv, HandsOK
      <3>2. QED
        BY <2>1, <2>2, <3>1 DEF ThreadsApart
    <2>3. ASSUME NEW j \in Jobs
          PROVE  /\ InSeq(queue, j) => ~(InHand(j) \/ InSeq(pool, j) \/ InThread(j))
                 /\ InHand(j) => ~(InSeq(pool, j) \/ InThread(j))
                 /\ InSeq(pool, j) => ~InThread(j)
      <3>1. CopiesOK(j)
        BY <1>1 DEF IInv, JobOK
      <3>2. InThread(j) => \E pc \in ThreadPC, e \in Entry : At(pc, e) /\ e.job = j
        BY <1>1, CopiesByPlace DEF InThread
      <3>3. "queue" \notin ThreadPC /\ "pool" \notin ThreadPC /\ "submit" \notin ThreadPC
        BY DEF ThreadPC
      <3>4. QED
        BY <1>1, <2>1, <3>1, <3>2, <3>3, CopiesByPlace DEF CopiesOK
    <2>4. Range(queue) \intersect processing = {}
      <3> SUFFICES ASSUME NEW e \in Range(queue), e \in processing PROVE FALSE
        OBVIOUS
      <3>1. e \in Entry /\ e.job \in Jobs /\ At("queue", e)
        BY <1>1, RangeType, EntryFacts DEF TypeInv, TypeOK, At
      <3>2. PayloadsAt("queue", e)
        BY <1>1, <2>1, <3>1 DEF IInv, JobOK, CopiesOK
      <3>3. e.retries < e.retries /\ e.retries \in Nat
        BY <3>1, <3>2, EntryFacts DEF PayloadsAt
      <3>4. QED
        BY <3>3
    <2>5. QED
      BY <2>1, <2>2, <2>3, <2>4 DEF AtMostOneCopy
  <1>2. QED
    BY <1>1, Invariant, PTL

(* While nothing raises, crashes or shuts down, the queue drops no job.    *)
THEOREM NoDrop == Spec => []NothingDropped
  <1>1. ASSUME TypeInv, IInv PROVE NothingDropped
    <2> SUFFICES ASSUME faults = 0, crashes = 0, ~shutdown,
                        NEW j \in Jobs, caller[j] = "returned", ~Settled(j)
                 PROVE  HasCopy(j)
      BY DEF NothingDropped
    <2>1. PICK place \in Places, e \in Entry : At(place, e) /\ e.job = j
      BY <1>1 DEF IInv, JobOK, KeptOK
    <2>2. CASE place \in ThreadPC
      BY <1>1, <2>1, <2>2, CopiesByPlace DEF HasCopy, InThread
    <2>3. CASE place \notin ThreadPC
      BY <1>1, <2>1, <2>3, CopiesByPlace DEF HasCopy, Places
    <2>4. QED
      BY <2>2, <2>3
  <1>2. QED
    BY <1>1, Invariant, PTL

(* The reliable queue: no fault, stop or crash loses a job Redis accepted. *)
THEOREM RedisKeeps == Spec => []NeverLostFromRedis
  <1>1. ASSUME TypeInv, IInv PROVE NeverLostFromRedis
    BY <1>1, CopiesByPlace DEF NeverLostFromRedis, IInv, JobOK, KeptOK
  <1>2. QED
    BY <1>1, Invariant, PTL

(* _process_job is called for a job at most MaxRetries times (once, if     *)
(* that is 0).                                                             *)
THEOREM BoundedAttempts == Spec => []AttemptsBounded
  <1>1. ASSUME IInv PROVE AttemptsBounded
    BY <1>1 DEF AttemptsBounded, IInv, JobOK, RecordsOK
  <1>2. QED
    BY <1>1, Invariant, PTL

(* The dead-letter queue holds a job once, and an exhausted one.           *)
THEOREM ExhaustedDeadLetters == Spec => []DeadLettersExhausted
  <1>1. ASSUME TypeInv, IInv PROVE DeadLettersExhausted
    <2>1. Distinct(dlq) /\ Range(dlq) \subseteq Entry
      BY <1>1, RangeType DEF IInv, Apart, TypeInv, TypeOK
    <2>2. ASSUME NEW e \in Range(dlq)
          PROVE  /\ e.retries = Budget
                 /\ ~InSeq(queue, e.job) /\ ~InHand(e.job) /\ ~InSeq(pool, e.job)
                 /\ faults = 0 => failures[e.job] = Budget /\ successes[e.job] = 0
      <3>1. PICK j \in Jobs : j = e.job
        BY <2>1, EntryFacts
      <3>2. RecordsOK(j) /\ CopiesOK(j) /\ InSeq(dlq, j)
        BY <1>1, <3>1 DEF IInv, JobOK, InSeq
      <3>3. \A place \in {"queue", "pool", "submit"}, f \in Entry :
               f.job = j => ~At(place, f)
        BY <3>2 DEF CopiesOK, KnownAt, Places
      <3>4. ~InSeq(queue, j) /\ ~InHand(j) /\ ~InSeq(pool, j)
        BY <1>1, <3>3, CopiesByPlace
      <3>5. QED
        BY <3>1, <3>2, <3>4 DEF RecordsOK
    <2>3. QED
      BY <2>1, <2>2 DEF DeadLettersExhausted
  <1>2. QED
    BY <1>1, Invariant, PTL

(* What get_job_status answers is true of the threads and the queue.       *)
THEOREM TruthfulStatus == Spec => []StatusTruthful
  <1>1. ASSUME TypeInv, IInv PROVE StatusTruthful
    <2> SUFFICES ASSUME NEW j \in Jobs
                 PROVE  /\ store[j].status = "processing" <=>
                              \E t \in Threads : worker[t].pc = "run"
                                                 /\ worker[t].entry.job = j
                        /\ store[j].status = "completed" => successes[j] > 0
                        /\ Settled(j) =>
                              /\ ~InSeq(queue, j) /\ ~InHand(j) /\ ~InSeq(pool, j)
                              /\ \A t \in Threads : worker[t].entry.job = j =>
                                    worker[t].pc \in {"ack", "dlq", "dlq_rem"}
      BY DEF StatusTruthful
    <2>1. StoreOK(j) /\ CopiesOK(j)
      BY <1>1 DEF IInv, JobOK
    <2>2. "run" \in ThreadPC /\ "run" \in Places
      BY DEF ThreadPC, Places
    <2>3. ASSUME NEW place \in Places, NEW e \in Entry, At(place, e), e.job = j
          PROVE  /\ place = "run" <=> store[j].status = "processing"
                 /\ Settled(j) => place \in {"ack", "dlq", "dlq_rem"}
      <3>1. /\ e.status = StatusAt(place)
            /\ store[j] = e \/ (store[j] = NoEntry /\ place \in {"queue", "submit", "pool"})
        BY <2>1, <2>3 DEF CopiesOK, KnownAt
      <3>2. QED
        BY <3>1 DEF StatusAt, Settled, NoEntry
    <2>4. store[j].status = "processing" <=>
             \E t \in Threads : worker[t].pc = "run" /\ worker[t].entry.job = j
      <3>1. ASSUME store[j].status = "processing"
            PROVE  \E t \in Threads : worker[t].pc = "run" /\ worker[t].entry.job = j
        BY <1>1, <2>1, <2>2, <3>1, CopiesByPlace DEF StoreOK
      <3>2. ASSUME NEW t \in Threads, worker[t].pc = "run", worker[t].entry.job = j
            PROVE  store[j].status = "processing"
        <4>1. worker[t].entry \in Entry /\ At("run", worker[t].entry)
          BY <1>1, <3>2, CopiesByPlace
        <4>2. QED
          BY <2>2, <2>3, <3>2, <4>1
      <3>3. QED
        BY <3>1, <3>2
    <2>5. ASSUME Settled(j)
          PROVE  /\ ~InSeq(queue, j) /\ ~InHand(j) /\ ~InSeq(pool, j)
                 /\ \A t \in Threads : worker[t].entry.job = j =>
                       worker[t].pc \in {"ack", "dlq", "dlq_rem"}
      <3>1. ThreadPC \subseteq Places /\ {"queue", "pool", "submit"} \subseteq Places
        BY DEF Places
      <3>2. ~InSeq(queue, j) /\ ~InHand(j) /\ ~InSeq(pool, j)
        BY <1>1, <2>3, <2>5, <3>1, CopiesByPlace
      <3>3. QED
        BY <1>1, <2>3, <2>5, <3>1, <3>2, CopiesByPlace
    <2>6. QED
      BY <2>1, <2>4, <2>5 DEF StoreOK
  <1>2. QED
    BY <1>1, Invariant, PTL

=============================================================================
