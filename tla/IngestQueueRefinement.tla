----------------------- MODULE IngestQueueRefinement -----------------------
(***************************************************************************)
(* IngestQueue implements JobLifecycle as long as no Redis call raises and *)
(* the process does not crash, for every set of jobs and threads and every *)
(* retry limit, with or without a stop.                                    *)
(***************************************************************************)
EXTENDS IngestQueueProofs

-----------------------------------------------------------------------------
(* A job has an entry in the status store from the moment its caller has   *)
(* called, and only then.                                                  *)
Quiet == MaxFaults = 0 /\ MaxCrashes = 0

Known ==
    \A j \in Jobs : /\ caller[j] = "idle" => store[j] = NoEntry
                    /\ caller[j] # "idle" => store[j] \in Entry /\ store[j].job = j

StatusOf  == [j \in Jobs |-> IF store[j].job = NoJob THEN "unknown" ELSE store[j].status]
RetriesOf == [j \in Jobs |-> store[j].retries]

LEMMA InitKnown == Init => Known /\ Lifecycle!Init
  BY DEF Init, Known, Lifecycle!Init, NoEntry

(* One _status_set, as a poller sees it.                                   *)
LEMMA SetSeen ==
    ASSUME TypeInv, NEW e \in Entry, StatusSet(e)
    PROVE  /\ StatusOf' = [StatusOf EXCEPT ![e.job] = e.status]
           /\ RetriesOf' = [RetriesOf EXCEPT ![e.job] = e.retries]
  <1>1. /\ store'[e.job] = e /\ \A j \in Jobs : j # e.job => store'[j] = store[j]
        /\ e.job \in Jobs /\ e.job # NoJob
    BY StatusSetFacts, EntryFacts DEF TypeInv, TypeOK
  <1>2. QED
    BY <1>1 DEF StatusOf, RetriesOf

LEMMA SetKnown ==
    ASSUME TypeInv, Known, NEW e \in Entry, StatusSet(e), caller[e.job] # "idle",
           UNCHANGED caller
    PROVE  Known'
  <1>1. store'[e.job] = e /\ \A j \in Jobs : j # e.job => store'[j] = store[j]
    BY StatusSetFacts DEF TypeInv, TypeOK
  <1>2. QED
    BY <1>1 DEF Known

(* What a poller sees of a job that has a copy.                            *)
LEMMA CopySeen ==
    ASSUME TypeInv, IInv, Known, NEW place \in Places, NEW e \in Entry, At(place, e)
    PROVE  /\ caller[e.job] # "idle"
           /\ StatusOf[e.job] = StatusAt(place) /\ RetriesOf[e.job] = e.retries
  <1>1. e.job \in Jobs /\ e.job # NoJob
    BY EntryFacts
  <1>2. /\ e.status = StatusAt(place) /\ caller[e.job] \in {"returned", "raised"}
        /\ store[e.job] = e \/ store[e.job] = NoEntry
    BY <1>1 DEF IInv, JobOK, CopiesOK, KnownAt
  <1>3. store[e.job] = e
    BY <1>1, <1>2, NoEntryFacts DEF Known
  <1>4. QED
    BY <1>1, <1>2, <1>3 DEF StatusOf, RetriesOf

LEMMA TypesSeen ==
    /\ DOMAIN StatusOf = Jobs /\ DOMAIN RetriesOf = Jobs
    /\ TypeInv => RetriesOf \in [Jobs -> Nat]
  BY EntryFacts DEF StatusOf, RetriesOf, TypeInv, TypeOK, NoEntry

LEMMA AcceptSeen ==
    ASSUME TypeInv, Known, NEW j \in Jobs, StoreJob(j)
    PROVE  Known' /\ Lifecycle!Accept(j)
  <1>1. /\ Fresh(j) \in Entry /\ Fresh(j).job = j
        /\ Fresh(j).retries = 0 /\ Fresh(j).status = "pending"
    BY FreshFacts
  <1>2. /\ StatusSet(Fresh(j)) /\ caller[j] = "idle"
        /\ caller' = [caller EXCEPT ![j] = "stored"]
    BY DEF StoreJob
  <1>3. store[j] = NoEntry
    BY <1>2 DEF Known
  <1>4. StatusOf[j] = "unknown" /\ RetriesOf[j] = 0
    BY <1>3 DEF StatusOf, RetriesOf, NoEntry
  <1>5. StatusOf' = [StatusOf EXCEPT ![j] = "pending"] /\ RetriesOf' = RetriesOf
    <2>1. /\ StatusOf' = [StatusOf EXCEPT ![j] = "pending"]
          /\ RetriesOf' = [RetriesOf EXCEPT ![j] = 0]
      BY <1>1, <1>2, SetSeen
    <2>2. [RetriesOf EXCEPT ![j] = 0] = RetriesOf
      BY <1>4, TypesSeen DEF RetriesOf
    <2>3. QED
      BY <2>1, <2>2
  <1>6. Known'
    <2>1. store'[j] = Fresh(j) /\ \A k \in Jobs : k # j => store'[k] = store[k]
      BY <1>1, <1>2, StatusSetFacts DEF TypeInv, TypeOK
    <2>2. caller'[j] = "stored" /\ \A k \in Jobs : k # j => caller'[k] = caller[k]
      BY <1>2 DEF TypeInv, TypeOK
    <2>3. QED
      BY <1>1, <2>1, <2>2 DEF Known
  <1>7. QED
    BY <1>4, <1>5, <1>6 DEF Lifecycle!Accept, StatusOf, RetriesOf

LEMMA BeginSeen ==
    ASSUME TypeInv, IInv, Known, NEW t \in Threads, StartJob(t)
    PROVE  Known' /\ \E j \in Jobs : Lifecycle!Begin(j)
  <1>1. PICK h \in Entry, j \in Jobs : h = Head(pool) /\ h.job = j /\ h \in Range(pool)
    BY TailFacts, EntryFacts DEF TypeInv, TypeOK, StartJob, Range
  <1>2. PICK e \in Entry : /\ e = WithStatus(h, "processing") /\ e.job = j
                           /\ e.retries = h.retries /\ e.status = "processing"
    BY <1>1, WithStatusFacts DEF Status
  <1>3. StatusSet(e) /\ UNCHANGED caller
    BY <1>1, <1>2 DEF StartJob
  <1>4. At("pool", h) /\ "pool" \in Places /\ StatusAt("pool") = "pending"
    BY <1>1 DEF At, Places, StatusAt
  <1>5. caller[j] # "idle" /\ StatusOf[j] = "pending" /\ RetriesOf[j] = h.retries
    BY <1>1, <1>4, CopySeen
  <1>6. StatusOf' = [StatusOf EXCEPT ![j] = "processing"] /\ RetriesOf' = RetriesOf
    <2>1. /\ StatusOf' = [StatusOf EXCEPT ![j] = "processing"]
          /\ RetriesOf' = [RetriesOf EXCEPT ![j] = h.retries]
      BY <1>2, <1>3, SetSeen
    <2>2. [RetriesOf EXCEPT ![j] = h.retries] = RetriesOf
      BY <1>5, TypesSeen DEF RetriesOf
    <2>3. QED
      BY <2>1, <2>2
  <1>7. Known'
    BY <1>2, <1>3, <1>5, SetKnown
  <1>8. QED
    BY <1>5, <1>6, <1>7 DEF Lifecycle!Begin, StatusOf, RetriesOf

(* A thread that runs a job.                                               *)
LEMMA RunSeen ==
    ASSUME TypeInv, IInv, Known, NEW t \in Threads, worker[t].pc = "run"
    PROVE  /\ worker[t].entry \in Entry /\ worker[t].entry.job \in Jobs
           /\ caller[worker[t].entry.job] # "idle"
           /\ StatusOf[worker[t].entry.job] = "processing"
           /\ RetriesOf[worker[t].entry.job] = worker[t].entry.retries
  <1>1. worker[t].entry \in Entry /\ worker[t].entry.job \in Jobs
    BY EntryFacts DEF TypeInv, HandsOK
  <1>2. At("run", worker[t].entry) /\ "run" \in Places /\ StatusAt("run") = "processing"
    BY DEF At, ThreadAt, Places, ThreadPC, StatusAt
  <1>3. QED
    BY <1>1, <1>2, CopySeen

LEMMA SucceedSeen ==
    ASSUME TypeInv, IInv, Known, NEW t \in Threads, CompleteJob(t)
    PROVE  Known' /\ \E j \in Jobs : Lifecycle!Succeed(j)
  <1>1. PICK h \in Entry, j \in Jobs :
           /\ h = worker[t].entry /\ h.job = j /\ caller[j] # "idle"
           /\ StatusOf[j] = "processing" /\ RetriesOf[j] = h.retries
    BY RunSeen DEF CompleteJob
  <1>2. PICK e \in Entry : /\ e = WithStatus(h, "completed") /\ e.job = j
                           /\ e.retries = h.retries /\ e.status = "completed"
    BY <1>1, WithStatusFacts DEF Status
  <1>3. StatusSet(e) /\ UNCHANGED caller
    BY <1>1, <1>2 DEF CompleteJob
  <1>4. StatusOf' = [StatusOf EXCEPT ![j] = "completed"] /\ RetriesOf' = RetriesOf
    <2>1. /\ StatusOf' = [StatusOf EXCEPT ![j] = "completed"]
          /\ RetriesOf' = [RetriesOf EXCEPT ![j] = h.retries]
      BY <1>2, <1>3, SetSeen
    <2>2. [RetriesOf EXCEPT ![j] = h.retries] = RetriesOf
      BY <1>1, TypesSeen DEF RetriesOf
    <2>3. QED
      BY <2>1, <2>2
  <1>5. Known'
    BY <1>1, <1>2, <1>3, SetKnown
  <1>6. QED
    BY <1>1, <1>4, <1>5 DEF Lifecycle!Succeed, StatusOf, RetriesOf

LEMMA FailSeen ==
    ASSUME TypeInv, IInv, Known, NEW t \in Threads, FailJob(t)
    PROVE  Known' /\ \E j \in Jobs : Lifecycle!Retry(j) \/ Lifecycle!GiveUp(j)
  <1>1. PICK h \in Entry, j \in Jobs :
           /\ h = worker[t].entry /\ h.job = j /\ caller[j] # "idle"
           /\ StatusOf[j] = "processing" /\ RetriesOf[j] = h.retries
    BY RunSeen DEF FailJob
  <1>2. PICK e \in Entry : e = OneMoreRetry(h) /\ e.job = j /\ e.retries = h.retries + 1
    BY <1>1, OneMoreRetryFacts
  <1>3. PICK f \in Entry : /\ StatusSet(f) /\ f.job = j /\ f.retries = h.retries + 1
                           /\ \/ f.status = "failed" /\ h.retries + 1 >= MaxRetries
                              \/ f.status = "pending" /\ h.retries + 1 < MaxRetries
    <2>1. /\ h.retries + 1 \in Nat /\ MaxRetries \in Nat
          /\ OutOfRetries(e) <=> h.retries + 1 >= MaxRetries
      BY <1>2, EntryFacts, QueueAssumption DEF OutOfRetries
    <2>2. \/ StatusSet(WithStatus(e, "failed")) /\ OutOfRetries(e)
          \/ StatusSet(WithStatus(e, "pending")) /\ ~OutOfRetries(e)
      BY <1>1, <1>2 DEF FailJob, HandleJobFailure
    <2>3. \A st \in {"failed", "pending"} :
             /\ WithStatus(e, st) \in Entry /\ WithStatus(e, st).job = j
             /\ WithStatus(e, st).retries = h.retries + 1 /\ WithStatus(e, st).status = st
      BY <1>2, WithStatusFacts DEF Status
    <2>4. QED
      BY <2>1, <2>2, <2>3
  <1>4. /\ StatusOf' = [StatusOf EXCEPT ![j] = f.status]
        /\ RetriesOf' = [RetriesOf EXCEPT ![j] = @ + 1]
    BY <1>1, <1>3, SetSeen
  <1>5. Known'
    BY <1>1, <1>3, SetKnown DEF FailJob
  <1>6. QED
    BY <1>1, <1>3, <1>4, <1>5 DEF Lifecycle!Retry, Lifecycle!GiveUp, StatusOf, RetriesOf

(* Without raised calls and crashes, every other step leaves the status    *)
(* store alone.                                                            *)
LEMMA StepSeen ==
    ASSUME Quiet
    PROVE  TypeInv /\ IInv /\ Known /\ [Next]_vars
              => Known' /\ (Lifecycle!Next \/ UNCHANGED <<StatusOf, RetriesOf>>)
  <1> SUFFICES ASSUME TypeInv, IInv, Known, [Next]_vars
               PROVE  Known' /\ (Lifecycle!Next \/ UNCHANGED <<StatusOf, RetriesOf>>)
    OBVIOUS
  <1>1. ~Raises /\ ~Crash
    BY DEF Quiet, Raises, Crash, TypeInv, TypeOK
  <1>2. ASSUME UNCHANGED store, \A j \in Jobs : caller'[j] = "idle" <=> caller[j] = "idle"
        PROVE  Known' /\ UNCHANGED <<StatusOf, RetriesOf>>
    BY <1>2 DEF Known, StatusOf, RetriesOf
  <1>3. ASSUME NEW j \in Jobs, Caller(j)
        PROVE  Known' /\ (Lifecycle!Next \/ UNCHANGED <<StatusOf, RetriesOf>>)
    <2>1. CASE StoreJob(j)
      BY <2>1, AcceptSeen DEF Lifecycle!Next
    <2>2. CASE PushJob(j)
      <3>1. UNCHANGED store /\ \A k \in Jobs : caller'[k] = "idle" <=> caller[k] = "idle"
        BY <2>2 DEF PushJob, TypeInv, TypeOK
      <3>2. QED
        BY <1>2, <3>1
    <2>3. QED
      BY <1>1, <1>3, <2>1, <2>2 DEF Caller, PushJobRaises
  <1>4. ASSUME NEW t \in Threads, ProcessOne(t)
        PROVE  Known' /\ (Lifecycle!Next \/ UNCHANGED <<StatusOf, RetriesOf>>)
    <2>1. CASE StartJob(t)
      BY <2>1, BeginSeen DEF Lifecycle!Next
    <2>2. CASE CompleteJob(t)
      BY <2>2, SucceedSeen DEF Lifecycle!Next
    <2>3. CASE FailJob(t)
      BY <2>3, FailSeen DEF Lifecycle!Next
    <2>4. CASE Ack(t) \/ Requeue(t) \/ DlqPush(t) \/ DlqRem(t)
      BY <1>2, <2>4 DEF Ack, Requeue, DlqPush, DlqRem
    <2>5. QED
      BY <1>1, <1>4, <2>1, <2>2, <2>3, <2>4 DEF ProcessOne, AckRaises, HandlerRaises
  <1>5. CASE Run
    BY <1>2, <1>5 DEF Run, CheckStop, Pop, PopEmpty, PopRaises, Submit, SubmitRefused
  <1>6. CASE Stop \/ Shutdown \/ UNCHANGED vars
    BY <1>2, <1>6 DEF Stop, Shutdown, vars
  <1>7. QED
    BY <1>1, <1>3, <1>4, <1>5, <1>6 DEF Next

(* While no Redis call raises and the process does not crash, what         *)
(* get_job_status shows of a job moves along JobLifecycle, whatever the    *)
(* interleaving of callers, loop and threads and whenever stop() comes.    *)
THEOREM FollowsLifecycle == Quiet => (Spec => ImplementsLifecycle)
  <1> SUFFICES ASSUME Quiet PROVE Spec => ImplementsLifecycle
    OBVIOUS
  <1>1. Init => Known /\ Lifecycle!Init
    BY InitKnown
  <1>2. TypeInv /\ IInv /\ Known /\ [Next]_vars
           => Known' /\ [Lifecycle!Next]_<<StatusOf, RetriesOf>>
    BY StepSeen
  <1>3. [Lifecycle!Next]_<<StatusOf, RetriesOf>> <=>
        [Lifecycle!Next]_<<[j \in Jobs |-> IF store[j].job = NoJob THEN "unknown"
                                           ELSE store[j].status],
                           [j \in Jobs |-> store[j].retries]>>
    BY DEF StatusOf, RetriesOf
  <1>4. QED
    BY <1>1, <1>2, <1>3, Invariant, PTL DEF Spec, ImplementsLifecycle, Lifecycle!Spec
=============================================================================
