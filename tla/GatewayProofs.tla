---------------------------- MODULE GatewayProofs ---------------------------
(***************************************************************************)
(* Theorems about Gateway, for any threads, deployments, limit, duration   *)
(* and number of faults, and about the readiness of the regions.           *)
(***************************************************************************)
EXTENDS Gateway, FiniteSetTheorems, WellFoundedInduction, TLAPS

-----------------------------------------------------------------------------
(* Arithmetic of the windows.                                              *)
LEMMA WindowFacts ==
    ASSUME NEW n \in Nat
    PROVE  Window(n) \in Nat /\ 2 * Window(n) <= n /\ n < 2 * Window(n) + 2
  BY SMT DEF Window

LEMMA WindowGrows ==
    ASSUME NEW n \in Nat
    PROVE  Window(n + 1) \in {Window(n), Window(n) + 1}
  BY SMT DEF Window

LEMMA NowInWindows ==
    ASSUME NEW n \in 0..MaxNow
    PROVE  Window(n) \in Windows
<1>1. n \in Nat /\ MaxNow \in Nat /\ n <= MaxNow
  BY GatewayAssumption
<1>2. Window(n) \in Nat /\ Window(MaxNow) \in Nat /\ Window(n) <= Window(MaxNow)
  BY <1>1, WindowFacts, SMT DEF Window
<1> QED
  BY <1>2 DEF Windows

(* Deployments: each thread has a process; SQLite's threads share one.     *)
LEMMA ProcFacts ==
    ASSUME deployment \in Deployments
    PROVE  /\ \A t \in Threads : Proc(t) \in Processes
           /\ deployment.backend = "sqlite" => \A t, u \in Threads : Proc(t) = Proc(u)
<1>1. \A t \in Threads : Proc(t) \in Range(deployment.proc)
  BY GatewayAssumption DEF Proc, Range
<1> QED
  BY <1>1, GatewayAssumption DEF Proc, Processes

-----------------------------------------------------------------------------
(* Types.  The lock's owner is the one thread of its process between       *)
(* SELECT and commit; a backend has its own steps.                         *)
Vars == /\ deployment \in Deployments /\ rules \in RuleLists
        /\ now \in 0..MaxNow
        /\ counter \in [Windows -> Nat]
        /\ expires \in [Windows -> (0..MaxNow) \union {None}]
        /\ lock \in [Processes -> Threads \union {None}]
        /\ onTime \in [Windows -> Nat] /\ late \in [Windows -> Nat]
        /\ faults \in 0..MaxFaults
ThreadType == [pc : ThreadPC, window : Windows, read : Nat]
Owner == \A t \in Threads : thread[t].pc \in {"select", "write"} <=> lock[Proc(t)] = t

LEMMA TypeParts == GatewayTypeOK <=> Vars /\ thread \in [Threads -> ThreadType] /\ Owner
  BY DEF GatewayTypeOK, Vars, ThreadType, Owner

LEMMA IdleType == IdleThread \in ThreadType /\ IdleThread.pc = "idle" /\ IdleThread.window = 0
<1>1. 0 \in Windows
  BY GatewayAssumption, WindowFacts DEF Windows
<1> QED
  BY <1>1 DEF IdleThread, ThreadType, ThreadPC

(* What lets a request through changes one count of one minute.            *)
LEMMA PassesFacts ==
    ASSUME GatewayTypeOK, NEW t \in Threads, Passes(t)
    PROVE  /\ onTime' \in [Windows -> Nat] /\ late' \in [Windows -> Nat]
           /\ thread[t].window = Window(now) =>
                onTime' = [onTime EXCEPT ![Window(now)] = @ + 1] /\ late' = late
           /\ thread[t].window # Window(now) =>
                late' = [late EXCEPT ![Window(now)] = @ + 1] /\ onTime' = onTime
<1>1. Window(now) \in Windows
  BY NowInWindows DEF GatewayTypeOK
<1> QED
  BY <1>1 DEF Passes, GatewayTypeOK

(* The thread and the lock when a thread goes idle.                        *)
LEMMA IdleFacts ==
    ASSUME GatewayTypeOK, NEW t \in Threads, Idle(t)
    PROVE  /\ thread' \in [Threads -> ThreadType]
           /\ thread'[t] = IdleThread
           /\ \A u \in Threads : u # t => thread'[u] = thread[u]
<1>1. thread \in [Threads -> ThreadType]
  BY TypeParts
<1> QED
  BY <1>1, IdleType DEF Idle

-----------------------------------------------------------------------------
LEMMA TypeInit == Init => GatewayTypeOK
<1> SUFFICES ASSUME Init PROVE GatewayTypeOK
  OBVIOUS
<1>1. 0 \in 0..MaxNow /\ 0 \in 0..MaxFaults
  BY GatewayAssumption
<1>2. \A t \in Threads : Proc(t) \in Processes
  BY ProcFacts DEF Init
<1>3. Owner
  BY <1>2, GatewayAssumption DEF Init, Owner, IdleThread
<1> QED
  BY <1>1, <1>3, IdleType, TypeParts DEF Init, Vars

LEMMA TypeStep == GatewayTypeOK /\ [Next]_vars => GatewayTypeOK'
<1> SUFFICES ASSUME GatewayTypeOK, [Next]_vars PROVE GatewayTypeOK'
  OBVIOUS
<1>0. Vars /\ thread \in [Threads -> ThreadType] /\ Owner
  BY TypeParts
<1>p. \A t \in Threads : Proc(t) \in Processes /\ t # None
  BY <1>0, ProcFacts, GatewayAssumption DEF Vars
<1>w. Window(now) \in Windows
  BY <1>0, NowInWindows DEF Vars
<1>n. \A t \in Threads : thread[t].window \in Windows /\ counter[thread[t].window] \in Nat
  BY <1>0 DEF Vars, ThreadType
<1> SUFFICES Vars' /\ thread' \in [Threads -> ThreadType] /\ Owner'
  BY DEF GatewayTypeOK, Vars, ThreadType, Owner
<1>1. ASSUME NEW t \in Threads, Arrive(t)
      PROVE  Vars' /\ thread' \in [Threads -> ThreadType] /\ Owner'
  <2>1. Vars'
    BY <1>0, <1>1 DEF Arrive, Vars, Fixed, History
  <2>2. thread' \in [Threads -> ThreadType]
    BY <1>0, <1>1, <1>w DEF Arrive, ThreadType, ThreadPC
  <2>3. Owner'
    BY <1>0, <1>1 DEF Arrive, Owner, Proc, Fixed, ThreadType
  <2> QED
    BY <2>1, <2>2, <2>3
<1>2. ASSUME NEW t \in Threads, Incr(t)
      PROVE  Vars' /\ thread' \in [Threads -> ThreadType] /\ Owner'
  <2>0. counter' \in [Windows -> Nat]
    BY <1>0, <1>2, <1>n DEF Incr, Vars
  <2>h. onTime' \in [Windows -> Nat] /\ late' \in [Windows -> Nat]
    BY <1>0, <1>2, PassesFacts DEF Incr, Vars, History
  <2>1. Vars'
    BY <1>0, <1>2, <2>0, <2>h DEF Incr, Vars, Fixed
  <2>2. /\ thread' \in [Threads -> ThreadType]
        /\ thread'[t].pc \in {"idle", "expire"}
        /\ \A u \in Threads : u # t => thread'[u] = thread[u]
    BY <1>0, <1>2, IdleFacts, IdleType DEF Incr, ThreadType, ThreadPC
  <2>3. Owner'
    BY <1>0, <1>2, <2>2 DEF Incr, Owner, Proc, Fixed
  <2> QED
    BY <2>1, <2>2, <2>3
<1>3. ASSUME NEW t \in Threads, Expire(t)
      PROVE  Vars' /\ thread' \in [Threads -> ThreadType] /\ Owner'
  <2>0. expires' \in [Windows -> (0..MaxNow) \union {None}]
    BY <1>0, <1>3, <1>n DEF Expire, Vars
  <2>h. onTime' \in [Windows -> Nat] /\ late' \in [Windows -> Nat]
    BY <1>3, PassesFacts DEF Expire
  <2>1. Vars'
    BY <1>0, <1>3, <2>0, <2>h DEF Expire, Vars, Fixed
  <2>2. Idle(t) /\ lock' = lock /\ thread[t].pc = "expire" /\ deployment' = deployment
    BY <1>3 DEF Expire, Fixed
  <2>3. Owner'
    BY <1>0, <2>2, IdleFacts, IdleType DEF Owner, Proc
  <2> QED
    BY <2>1, <2>2, <2>3, IdleFacts
<1>4. ASSUME NEW t \in Threads, Lock(t)
      PROVE  Vars' /\ thread' \in [Threads -> ThreadType] /\ Owner'
  <2>1. Vars'
    BY <1>0, <1>4, <1>p DEF Lock, Vars, Fixed, History
  <2>2. /\ thread' \in [Threads -> ThreadType] /\ thread'[t].pc = "select"
        /\ \A u \in Threads : u # t => thread'[u] = thread[u]
    BY <1>0, <1>4 DEF Lock, ThreadType, ThreadPC
  <2>3. /\ lock[Proc(t)] = None /\ lock' = [lock EXCEPT ![Proc(t)] = t]
        /\ deployment' = deployment
    BY <1>4 DEF Lock, LockFree, Fixed
  <2>4. Owner'
    BY <1>0, <1>p, <2>2, <2>3 DEF Owner, Proc, Vars
  <2> QED
    BY <2>1, <2>2, <2>4
<1>5. ASSUME NEW t \in Threads, Select(t)
      PROVE  Vars' /\ thread' \in [Threads -> ThreadType] /\ Owner'
  <2>0. thread[t].pc = "select" /\ deployment' = deployment
    BY <1>5 DEF Select, Fixed
  <2>1. CASE counter[thread[t].window] >= Limit
    <3>1. Idle(t) /\ lock' = [lock EXCEPT ![Proc(t)] = None]
      BY <1>5, <2>1 DEF Select
    <3>2. Vars'
      BY <1>0, <1>5, <3>1 DEF Select, Vars, Fixed, History
    <3>3. Owner'
      BY <1>0, <1>p, <2>0, <3>1, IdleFacts, IdleType DEF Owner, Proc, Vars
    <3> QED
      BY <3>1, <3>2, <3>3, IdleFacts
  <2>2. CASE ~(counter[thread[t].window] >= Limit)
    <3>1. /\ thread' = [thread EXCEPT ![t].pc = "write", ![t].read = counter[thread[t].window]]
          /\ lock' = lock
      BY <1>5, <2>2 DEF Select
    <3>2. /\ thread' \in [Threads -> ThreadType] /\ thread'[t].pc = "write"
          /\ \A u \in Threads : u # t => thread'[u] = thread[u]
      BY <1>0, <1>n, <3>1 DEF ThreadType, ThreadPC
    <3>3. Vars'
      BY <1>0, <1>5, <3>1 DEF Select, Vars, Fixed, History
    <3>4. Owner'
      BY <1>0, <2>0, <3>1, <3>2 DEF Owner, Proc
    <3> QED
      BY <3>2, <3>3, <3>4
  <2> QED
    BY <2>1, <2>2
<1>6. ASSUME NEW t \in Threads, Write(t)
      PROVE  Vars' /\ thread' \in [Threads -> ThreadType] /\ Owner'
  <2>0. thread[t].read + 1 \in Nat
    BY <1>0 DEF ThreadType
  <2>h. onTime' \in [Windows -> Nat] /\ late' \in [Windows -> Nat]
    BY <1>6, PassesFacts DEF Write
  <2>1. Vars'
    BY <1>0, <1>6, <1>n, <2>0, <2>h DEF Write, Vars, Fixed
  <2>2. /\ Idle(t) /\ lock' = [lock EXCEPT ![Proc(t)] = None]
        /\ thread[t].pc = "write" /\ deployment' = deployment
    BY <1>6 DEF Write, Fixed
  <2>3. Owner'
    BY <1>0, <1>p, <2>2, IdleFacts, IdleType DEF Owner, Proc, Vars
  <2> QED
    BY <2>1, <2>2, <2>3, IdleFacts
<1>7. ASSUME NEW t \in Threads, CallRaises(t)
      PROVE  Vars' /\ thread' \in [Threads -> ThreadType] /\ Owner'
  <2>0. faults' \in 0..MaxFaults
    BY <1>0, <1>7, GatewayAssumption DEF CallRaises, Vars
  <2>1. /\ counter' \in [Windows -> Nat]
        /\ expires' \in [Windows -> (0..MaxNow) \union {None}]
    BY <1>0, <1>7, <1>n DEF CallRaises, Vars
  <2>2. /\ Idle(t) /\ deployment' = deployment
        /\ lock' = IF thread[t].pc \in {"select", "write"} THEN [lock EXCEPT ![Proc(t)] = None]
                   ELSE lock
    BY <1>7 DEF CallRaises, Fixed
  <2>3. Vars'
    BY <1>0, <1>7, <2>0, <2>1, <2>2 DEF CallRaises, Vars, Fixed, History
  <2>4. Owner'
    BY <1>0, <1>p, <2>2, IdleFacts, IdleType DEF Owner, Proc, Vars
  <2> QED
    BY <2>2, <2>3, <2>4, IdleFacts
<1>8. ASSUME NEW w \in Windows, KeyExpires(w)
      PROVE  Vars' /\ thread' \in [Threads -> ThreadType] /\ Owner'
  <2>1. Vars'
    BY <1>0, <1>8 DEF KeyExpires, Vars, Fixed, History
  <2> QED
    BY <1>0, <1>8, <2>1 DEF KeyExpires, Owner, Proc, Fixed
<1>9. ASSUME NEW p \in Processes, Crash(p)
      PROVE  Vars' /\ thread' \in [Threads -> ThreadType] /\ Owner'
  <2>0. faults' \in 0..MaxFaults
    BY <1>0, <1>9, GatewayAssumption DEF Crash, Vars
  <2>1. Vars'
    BY <1>0, <1>9, <2>0 DEF Crash, Vars, Fixed, History
  <2>2. /\ thread' = [t \in Threads |-> IF Proc(t) = p THEN IdleThread ELSE thread[t]]
        /\ lock' = [lock EXCEPT ![p] = None] /\ deployment' = deployment
    BY <1>9 DEF Crash, Fixed
  <2>3. thread' \in [Threads -> ThreadType]
    BY <1>0, <2>2, IdleType
  <2>4. Owner'
    BY <1>0, <1>p, <2>2, IdleType DEF Owner, Proc, Vars
  <2> QED
    BY <2>1, <2>3, <2>4
<1>10. ASSUME Tick
       PROVE  Vars' /\ thread' \in [Threads -> ThreadType] /\ Owner'
  <2>1. now' \in 0..MaxNow
    BY <1>0, <1>10, GatewayAssumption DEF Tick, Vars
  <2>2. Vars'
    BY <1>0, <1>10, <2>1 DEF Tick, Vars, Fixed, History
  <2> QED
    BY <1>0, <1>10, <2>2 DEF Tick, Owner, Proc, Fixed
<1>11. ASSUME UNCHANGED vars
       PROVE  Vars' /\ thread' \in [Threads -> ThreadType] /\ Owner'
  BY <1>0, <1>11 DEF vars, Vars, Owner, Proc
<1> QED
  BY <1>1, <1>2, <1>3, <1>4, <1>5, <1>6, <1>7, <1>8, <1>9, <1>10, <1>11 DEF Next, Allow

(* Every variable of the limiter keeps its type, and of the threads of a   *)
(* process exactly the owner of its lock is between SELECT and commit      *)
(* (RateLimiter.allow).                                                    *)
THEOREM TypeCorrect == Spec => []GatewayTypeOK
  BY TypeInit, TypeStep, PTL DEF Spec

-----------------------------------------------------------------------------
(* A backend's threads are in its own steps only, and a thread that is     *)
(* about to write is the only one, with the count as it is.                *)
BackendOK ==
    \A t \in Threads : thread[t].pc \in IF deployment.backend = "redis"
                                          THEN {"idle", "incr", "expire"}
                                          ELSE {"idle", "lock", "select", "write"}
NoExpiry == deployment.backend # "redis" => \A w \in Windows : expires[w] = None
ReadOK == \A t \in Threads :
    thread[t].pc = "write" =>
        thread[t].read = counter[thread[t].window] /\ thread[t].read < Limit
BaseInv == BackendOK /\ NoExpiry /\ ReadOK

LEMMA OneWriter ==
    ASSUME GatewayTypeOK, BackendOK, NEW t \in Threads, NEW u \in Threads,
           thread[t].pc \in {"select", "write"}, thread[u].pc \in {"select", "write"}
    PROVE  t = u
<1>1. deployment \in Deployments /\ deployment.backend # "redis"
  BY DEF GatewayTypeOK, BackendOK
<1>2. deployment.backend = "sqlite"
  BY <1>1, GatewayAssumption
<1>3. Proc(t) = Proc(u)
  BY <1>1, <1>2, ProcFacts
<1> QED
  BY <1>3, TypeParts DEF Owner

LEMMA BaseInit == Init => BaseInv
  BY DEF Init, BaseInv, BackendOK, NoExpiry, ReadOK, IdleThread

LEMMA BaseStep == GatewayTypeOK /\ BaseInv /\ [Next]_vars => BaseInv'
<1> SUFFICES ASSUME GatewayTypeOK, BaseInv, [Next]_vars PROVE BaseInv'
  OBVIOUS
<1> USE DEF BaseInv
<1>0. Vars /\ thread \in [Threads -> ThreadType] /\ Owner
  BY TypeParts
<1>i. IdleThread.pc = "idle"
  BY IdleType
<1>1. ASSUME NEW t \in Threads, Arrive(t)
      PROVE  BackendOK' /\ NoExpiry' /\ ReadOK'
  <2>1. /\ thread'[t].pc = IF deployment.backend = "redis" THEN "incr" ELSE "lock"
        /\ \A u \in Threads : u # t => thread'[u] = thread[u]
        /\ counter' = counter /\ expires' = expires /\ deployment' = deployment
    BY <1>0, <1>1 DEF Arrive, Fixed
  <2> QED
    BY <2>1 DEF BackendOK, NoExpiry, ReadOK
<1>2. ASSUME NEW t \in Threads, Incr(t)
      PROVE  BackendOK' /\ NoExpiry' /\ ReadOK'
  <2>1. /\ thread'[t].pc \in {"idle", "expire"}
        /\ \A u \in Threads : u # t => thread'[u] = thread[u]
        /\ expires' = expires /\ deployment' = deployment
        /\ thread[t].pc = "incr"
    BY <1>0, <1>2, <1>i, IdleFacts DEF Incr, Fixed, ThreadType
  <2>2. deployment.backend = "redis"
    BY <2>1 DEF BackendOK
  <2> QED
    BY <2>1, <2>2 DEF BackendOK, NoExpiry, ReadOK
<1>3. ASSUME NEW t \in Threads, Expire(t)
      PROVE  BackendOK' /\ NoExpiry' /\ ReadOK'
  <2>1. /\ Idle(t) /\ counter' = counter /\ deployment' = deployment
        /\ thread[t].pc = "expire"
    BY <1>3 DEF Expire, Fixed
  <2>2. deployment.backend = "redis"
    BY <2>1 DEF BackendOK
  <2> QED
    BY <1>i, <2>1, <2>2, IdleFacts DEF BackendOK, NoExpiry, ReadOK
<1>4. ASSUME NEW t \in Threads, Lock(t)
      PROVE  BackendOK' /\ NoExpiry' /\ ReadOK'
  <2>1. /\ thread'[t].pc = "select"
        /\ \A u \in Threads : u # t => thread'[u] = thread[u]
        /\ counter' = counter /\ expires' = expires /\ deployment' = deployment
        /\ thread[t].pc = "lock"
    BY <1>0, <1>4 DEF Lock, Fixed
  <2> QED
    BY <2>1 DEF BackendOK, NoExpiry, ReadOK
<1>5. ASSUME NEW t \in Threads, Select(t)
      PROVE  BackendOK' /\ NoExpiry' /\ ReadOK'
  <2>0. thread[t] \in ThreadType /\ counter[thread[t].window] \in Nat
    BY <1>0 DEF Vars, ThreadType
  <2>1. /\ \/ thread'[t].pc = "idle"
           \/ /\ thread'[t].pc = "write" /\ thread'[t].window = thread[t].window
              /\ thread'[t].read = counter[thread[t].window]
              /\ ~(counter[thread[t].window] >= Limit)
        /\ \A u \in Threads : u # t => thread'[u] = thread[u]
        /\ counter' = counter /\ expires' = expires /\ deployment' = deployment
        /\ thread[t].pc = "select"
    BY <1>0, <1>5, <1>i, <2>0, IdleFacts DEF Select, Fixed, ThreadType
  <2>2. ~(counter[thread[t].window] >= Limit) => counter[thread[t].window] < Limit
    BY <2>0, GatewayAssumption
  <2> QED
    BY <2>1, <2>2 DEF BackendOK, NoExpiry, ReadOK
<1>6. ASSUME NEW t \in Threads, Write(t)
      PROVE  BackendOK' /\ NoExpiry' /\ ReadOK'
  <2>1. /\ Idle(t) /\ expires' = expires /\ deployment' = deployment
        /\ thread[t].pc = "write"
    BY <1>6 DEF Write, Fixed
  <2>2. \A u \in Threads : u # t => thread[u].pc # "write"
    BY <2>1, OneWriter
  <2> QED
    BY <1>i, <2>1, <2>2, IdleFacts DEF BackendOK, NoExpiry, ReadOK
<1>7. ASSUME NEW t \in Threads, CallRaises(t)
      PROVE  BackendOK' /\ NoExpiry' /\ ReadOK'
  <2>1. /\ Idle(t) /\ deployment' = deployment
        /\ \/ thread[t].pc = "incr" /\ expires' = expires
           \/ thread[t].pc = "expire" /\ counter' = counter
           \/ counter' = counter /\ expires' = expires
    BY <1>7 DEF CallRaises, Fixed
  <2>2. thread[t].pc \in {"incr", "expire"} => deployment.backend = "redis"
    BY DEF BackendOK
  <2> QED
    BY <1>i, <2>1, <2>2, IdleFacts DEF BackendOK, NoExpiry, ReadOK
<1>8. ASSUME NEW w \in Windows, KeyExpires(w)
      PROVE  BackendOK' /\ NoExpiry' /\ ReadOK'
  <2>1. deployment.backend = "redis" /\ deployment' = deployment /\ thread' = thread
    BY <1>8 DEF KeyExpires, NoExpiry, Fixed
  <2> QED
    BY <2>1 DEF BackendOK, NoExpiry, ReadOK
<1>9. ASSUME NEW p \in Processes, Crash(p)
      PROVE  BackendOK' /\ NoExpiry' /\ ReadOK'
  <2>1. /\ \A t \in Threads : thread'[t] = IdleThread \/ thread'[t] = thread[t]
        /\ deployment' = deployment /\ counter' = counter /\ expires' = expires
    BY <1>9 DEF Crash, Fixed
  <2> QED
    BY <1>i, <2>1 DEF BackendOK, NoExpiry, ReadOK
<1>10. ASSUME Tick \/ UNCHANGED vars
       PROVE  BackendOK' /\ NoExpiry' /\ ReadOK'
  <2>1. deployment' = deployment /\ thread' = thread /\ counter' = counter /\ expires' = expires
    BY <1>10 DEF Tick, vars, Fixed
  <2> QED
    BY <2>1 DEF BackendOK, NoExpiry, ReadOK
<1> QED
  BY <1>1, <1>2, <1>3, <1>4, <1>5, <1>6, <1>7, <1>8, <1>9, <1>10 DEF Next, Allow

-----------------------------------------------------------------------------
(* A counter of Redis without an expiry has a thread at its EXPIRE.        *)
LEMMA LeakInit == Init => LeaksNeedFault
  BY GatewayAssumption DEF Init, LeaksNeedFault, Leaked

LEMMA LeakStep ==
    GatewayTypeOK /\ BaseInv /\ LeaksNeedFault /\ [Next]_vars => LeaksNeedFault'
<1> SUFFICES ASSUME GatewayTypeOK, BaseInv, LeaksNeedFault, [Next]_vars,
                    NEW v \in Windows, faults' = 0
             PROVE  ~Leaked(v)'
  BY DEF LeaksNeedFault
<1>0. Vars /\ thread \in [Threads -> ThreadType]
  BY TypeParts
<1>i. IdleThread.pc = "idle"
  BY IdleType
<1>n. counter[v] \in Nat /\ now # None
  BY <1>0, GatewayAssumption DEF Vars
<1>1. ASSUME NEW t \in Threads, Arrive(t) PROVE ~Leaked(v)'
  <2>1. /\ thread[t].pc = "idle" /\ \A u \in Threads : u # t => thread'[u] = thread[u]
        /\ counter' = counter /\ expires' = expires /\ deployment' = deployment
        /\ faults' = faults
    BY <1>0, <1>1 DEF Arrive, Fixed
  <2> QED
    BY <2>1 DEF LeaksNeedFault, Leaked
<1>2. ASSUME NEW t \in Threads, Incr(t) PROVE ~Leaked(v)'
  <2>0. /\ thread[t].pc = "incr" /\ expires' = expires /\ deployment' = deployment
        /\ faults' = faults
        /\ counter' = [counter EXCEPT ![thread[t].window] = counter[thread[t].window] + 1]
        /\ \A u \in Threads : u # t => thread'[u] = thread[u]
    BY <1>0, <1>2, IdleFacts DEF Incr, Fixed
  <2>1. CASE v # thread[t].window
    <3>1. counter'[v] = counter[v]
      BY <1>0, <2>0, <2>1 DEF Vars
    <3> QED
      BY <2>0, <3>1 DEF LeaksNeedFault, Leaked
  <2>2. CASE v = thread[t].window /\ counter[v] = 0
    <3>1. thread' = [thread EXCEPT ![t].pc = "expire"]
      BY <1>2, <2>2 DEF Incr, SetsExpiry
    <3>2. thread'[t].pc = "expire" /\ thread'[t].window = v
      BY <1>0, <2>2, <3>1 DEF ThreadType
    <3> QED
      BY <3>2 DEF Leaked
  <2>3. CASE v = thread[t].window /\ counter[v] # 0
    <3>1. counter[v] > 0
      BY <1>n, <2>3
    <3> QED
      BY <2>0, <3>1 DEF LeaksNeedFault, Leaked
  <2> QED
    BY <2>1, <2>2, <2>3
<1>3. ASSUME NEW t \in Threads, Expire(t) PROVE ~Leaked(v)'
  <2>0. /\ Idle(t) /\ counter' = counter /\ deployment' = deployment /\ faults' = faults
        /\ thread[t].pc = "expire"
        /\ expires' = IF counter[thread[t].window] > 0
                        THEN [expires EXCEPT ![thread[t].window] = now] ELSE expires
    BY <1>3 DEF Expire, Fixed
  <2>1. CASE v = thread[t].window
    BY <1>0, <1>n, <2>0, <2>1 DEF Leaked, Vars
  <2>2. CASE v # thread[t].window
    <3>1. expires'[v] = expires[v]
      BY <1>0, <2>0, <2>2 DEF Vars
    <3> QED
      BY <2>0, <2>2, <3>1, IdleFacts DEF LeaksNeedFault, Leaked
  <2> QED
    BY <2>1, <2>2
<1>4. ASSUME NEW t \in Threads, Lock(t) \/ Select(t) \/ Write(t) PROVE ~Leaked(v)'
  <2>1. thread[t].pc \in {"lock", "select", "write"} /\ deployment' = deployment
    BY <1>4 DEF Lock, Select, Write, Fixed
  <2> QED
    BY <2>1 DEF BaseInv, BackendOK, Leaked
<1>5. ASSUME NEW w \in Windows, KeyExpires(w) PROVE ~Leaked(v)'
  <2>0. /\ thread' = thread /\ deployment' = deployment /\ faults' = faults
        /\ counter' = [counter EXCEPT ![w] = 0] /\ expires' = [expires EXCEPT ![w] = None]
    BY <1>5 DEF KeyExpires, Fixed
  <2>1. CASE v = w
    BY <1>0, <2>0, <2>1 DEF Leaked, Vars
  <2>2. CASE v # w
    <3>1. counter'[v] = counter[v] /\ expires'[v] = expires[v]
      BY <1>0, <2>0, <2>2 DEF Vars
    <3> QED
      BY <2>0, <3>1 DEF LeaksNeedFault, Leaked
  <2> QED
    BY <2>1, <2>2
<1>6. ASSUME (\E t \in Threads : CallRaises(t)) \/ (\E p \in Processes : Crash(p))
      PROVE  FALSE
  BY <1>0, <1>6, GatewayAssumption DEF CallRaises, Crash, Vars
<1>7. ASSUME Tick \/ UNCHANGED vars PROVE ~Leaked(v)'
  <2>1. /\ thread' = thread /\ deployment' = deployment /\ faults' = faults
        /\ counter' = counter /\ expires' = expires
    BY <1>7 DEF Tick, vars, Fixed
  <2> QED
    BY <2>1 DEF LeaksNeedFault, Leaked
<1> QED
  BY <1>1, <1>2, <1>3, <1>4, <1>5, <1>6, <1>7 DEF Next, Allow

(* As long as no call has raised and no process has died, every counter    *)
(* of Redis expires or has its EXPIRE on the way (RateLimiter.allow).      *)
THEOREM NoLeak == Spec => []LeaksNeedFault
<1>1. Init => GatewayTypeOK /\ BaseInv /\ LeaksNeedFault
  BY TypeInit, BaseInit, LeakInit
<1>2. GatewayTypeOK /\ BaseInv /\ LeaksNeedFault /\ [Next]_vars
        => (GatewayTypeOK /\ BaseInv /\ LeaksNeedFault)'
  BY TypeStep, BaseStep, LeakStep
<1> QED
  BY <1>1, <1>2, PTL DEF Spec

-----------------------------------------------------------------------------
(* The threads at the EXPIRE of a window, and those on their way in a      *)
(* window before another.                                                  *)
Pending(m) == {t \in Threads : thread[t].pc = "expire" /\ thread[t].window = m}
Behind(n)  == {t \in Threads : thread[t].pc # "idle" /\ thread[t].window < n}

LEMMA CountFacts ==
    ASSUME NEW A \in SUBSET Threads
    PROVE  /\ Cardinality(A) \in Nat /\ Cardinality(A) <= Cardinality(Threads)
           /\ \A B \in SUBSET A : Cardinality(B) \in Nat /\ Cardinality(B) <= Cardinality(A)
           /\ \A t \in A : Cardinality(A \ {t}) = Cardinality(A) - 1
           /\ \A t \in Threads \ A : Cardinality(A \union {t}) = Cardinality(A) + 1
<1>1. IsFiniteSet(Threads) /\ IsFiniteSet(A)
  BY GatewayAssumption, FS_Subset
<1>2. \A B \in SUBSET A : IsFiniteSet(B) /\ Cardinality(B) \in Nat /\ Cardinality(B) <= Cardinality(A)
  BY <1>1, FS_Subset, FS_CardinalityType
<1>3. Cardinality(A) \in Nat /\ Cardinality(A) <= Cardinality(Threads)
  BY <1>1, FS_Subset, FS_CardinalityType
<1>4. \A t \in A : Cardinality(A \ {t}) = Cardinality(A) - 1
  BY <1>1, FS_RemoveElement
<1>5. \A t \in Threads \ A : Cardinality(A \union {t}) = Cardinality(A) + 1
  BY <1>1, FS_AddElement
<1> QED
  BY <1>2, <1>3, <1>4, <1>5

(* A thread computes its window from the clock, so it is never of a later  *)
(* one; and a key expires only when its window is over.                    *)
WindowOK == \A t \in Threads : thread[t].window <= Window(now)
ExpiryOK == \A w \in Windows : expires[w] # None => expires[w] >= 2 * w

(* What was let through and what will be is counted, while the window is   *)
(* not over; each thread lets one late request through at most.            *)
CountOK ==
    \A m \in Windows : m >= Window(now) =>
        /\ onTime[m] + Cardinality(Pending(m)) <= counter[m]
        /\ onTime[m] + Cardinality(Pending(m)) <= Limit
OnTimeOK == \A m \in Windows : onTime[m] <= Limit
LateOK ==
    /\ \A m \in Windows : late[m] <= Cardinality(Threads)
    /\ \A m \in Windows : m > Window(now) => late[m] = 0
    /\ late[Window(now)] + Cardinality(Behind(Window(now))) <= Cardinality(Threads)

LimitInv == WindowOK /\ ExpiryOK /\ CountOK /\ OnTimeOK /\ LateOK

LEMMA SetFacts ==
    \A m : Pending(m) \in SUBSET Threads /\ Behind(m) \in SUBSET Threads
  BY DEF Pending, Behind

(* A thread that goes idle leaves both.                                    *)
LEMMA IdleSets ==
    ASSUME GatewayTypeOK, NEW t \in Threads, Idle(t)
    PROVE  \A m : Pending(m)' = Pending(m) \ {t} /\ Behind(m)' = Behind(m) \ {t}
<1>1. \A u \in Threads : thread'[u] = IF u = t THEN IdleThread ELSE thread[u]
  BY IdleFacts
<1> QED
  BY <1>1, IdleType DEF Pending, Behind

LEMMA LimitInit == Init => LimitInv
<1> SUFFICES ASSUME Init PROVE LimitInv
  OBVIOUS
<1>1. Window(now) \in Nat /\ Window(now) \in Windows
  BY WindowFacts, NowInWindows, GatewayAssumption DEF Init
<1>2. \A m : Pending(m) = {} /\ Behind(m) = {}
  BY DEF Init, Pending, Behind, IdleThread
<1>3. Cardinality({}) = 0 /\ Cardinality(Threads) \in Nat
  BY FS_EmptySet, CountFacts
<1>4. Limit \in Nat
  BY GatewayAssumption
<1>5. WindowOK /\ ExpiryOK
  BY <1>1 DEF Init, IdleThread, WindowOK, ExpiryOK
<1>6. CountOK /\ OnTimeOK
  BY <1>2, <1>3, <1>4 DEF Init, CountOK, OnTimeOK
<1>7. LateOK
  BY <1>1, <1>2, <1>3 DEF Init, LateOK
<1> QED
  BY <1>5, <1>6, <1>7 DEF LimitInv

(* The late requests, when a thread goes idle and lets its own through or  *)
(* not, the clock standing still.                                          *)
LEMMA LateIdle ==
    ASSUME GatewayTypeOK, LimitInv, NEW t \in Threads, Idle(t), now' = now,
           thread[t].pc # "idle", Passes(t) \/ UNCHANGED History
    PROVE  LateOK'
<1>m. Window(now) \in Windows /\ Window(now) \in Nat
  BY NowInWindows DEF GatewayTypeOK, Windows
<1>0. late \in [Windows -> Nat] /\ thread[t].window \in Windows /\ thread[t].window \in Nat
  BY DEF GatewayTypeOK, Windows
<1>c. /\ Cardinality(Behind(Window(now))) \in Nat /\ Cardinality(Threads) \in Nat
      /\ Cardinality(Behind(Window(now)) \ {t}) \in Nat
      /\ Cardinality(Behind(Window(now)) \ {t}) <= Cardinality(Behind(Window(now)))
      /\ t \in Behind(Window(now)) =>
           Cardinality(Behind(Window(now)) \ {t}) = Cardinality(Behind(Window(now))) - 1
  BY SetFacts, CountFacts
<1>b. Behind(Window(now))' = Behind(Window(now)) \ {t} /\ Window(now)' = Window(now)
  <2>1. Window(now)' = Window(now)
    BY DEF Window
  <2> QED
    BY <2>1, IdleSets DEF Behind
<1>l. LateOK
  BY DEF LimitInv
<1>1. CASE late' = late
  BY <1>m, <1>0, <1>c, <1>b, <1>l, <1>1 DEF LateOK
<1>2. CASE late' # late
  <2>1. Passes(t) /\ thread[t].window # Window(now)
    BY <1>2, PassesFacts DEF History
  <2>2. late' = [late EXCEPT ![Window(now)] = @ + 1]
    BY <2>1, PassesFacts
  <2>3. t \in Behind(Window(now))
    BY <1>m, <1>0, <2>1 DEF Behind, LimitInv, WindowOK
  <2>4. late[Window(now)] \in Nat /\ late'[Window(now)] = late[Window(now)] + 1
    BY <1>m, <1>0, <2>2
  <2>5. late'[Window(now)] + Cardinality(Behind(Window(now)))' <= Cardinality(Threads)
    BY <1>c, <1>b, <1>l, <2>3, <2>4 DEF LateOK
  <2>6. \A m \in Windows : m # Window(now) => late'[m] = late[m]
    BY <1>0, <2>2
  <2>7. late'[Window(now)] <= Cardinality(Threads)
    BY <1>c, <1>b, <2>3, <2>4, <1>l DEF LateOK
  <2> QED
    BY <1>m, <1>b, <1>l, <2>5, <2>6, <2>7 DEF LateOK
<1> QED
  BY <1>1, <1>2

(* A step that lets nothing through, lowers no counter and only takes      *)
(* threads away.                                                           *)
LEMMA HarmlessStep ==
    ASSUME GatewayTypeOK, GatewayTypeOK', LimitInv, WindowOK', ExpiryOK',
           now' = now, UNCHANGED History,
           \A m \in Windows : counter'[m] >= counter[m],
           \A m \in Windows : Pending(m)' \subseteq Pending(m),
           Behind(Window(now))' \subseteq Behind(Window(now))
    PROVE  LimitInv'
<1>0. Window(now)' = Window(now) /\ Window(now) \in Windows /\ Window(now) \in Nat
  BY NowInWindows DEF Window, GatewayTypeOK, Windows
<1>1. onTime' = onTime /\ late' = late /\ onTime \in [Windows -> Nat] /\ late \in [Windows -> Nat]
  BY DEF History, GatewayTypeOK
<1>2. counter \in [Windows -> Nat] /\ counter' \in [Windows -> Nat]
  BY DEF GatewayTypeOK
<1>3. \A m \in Windows : /\ Cardinality(Pending(m)) \in Nat /\ Cardinality(Pending(m))' \in Nat
                         /\ Cardinality(Pending(m))' <= Cardinality(Pending(m))
  BY SetFacts, CountFacts
<1>4. /\ Cardinality(Behind(Window(now))) \in Nat /\ Cardinality(Behind(Window(now)))' \in Nat
      /\ Cardinality(Behind(Window(now)))' <= Cardinality(Behind(Window(now)))
  BY SetFacts, CountFacts
<1>5. CountOK'
  <2> SUFFICES ASSUME NEW m \in Windows, m >= Window(now)
               PROVE  /\ onTime[m] + Cardinality(Pending(m))' <= counter'[m]
                      /\ onTime[m] + Cardinality(Pending(m))' <= Limit
    BY <1>0, <1>1 DEF CountOK
  <2>1. /\ onTime[m] + Cardinality(Pending(m)) <= counter[m]
        /\ onTime[m] + Cardinality(Pending(m)) <= Limit
    BY DEF LimitInv, CountOK
  <2>2. /\ onTime[m] \in Nat /\ counter[m] \in Nat /\ counter'[m] \in Nat /\ Limit \in Nat
        /\ counter'[m] >= counter[m]
    BY <1>1, <1>2, GatewayAssumption
  <2> QED
    BY <1>3, <2>1, <2>2
<1>6. OnTimeOK'
  BY <1>1 DEF LimitInv, OnTimeOK
<1>7. LateOK'
  <2>1. late[Window(now)] \in Nat /\ Cardinality(Threads) \in Nat
    BY <1>0, <1>1, CountFacts
  <2>2. late[Window(now)] + Cardinality(Behind(Window(now))) <= Cardinality(Threads)
    BY DEF LimitInv, LateOK
  <2>3. late[Window(now)] + Cardinality(Behind(Window(now)))' <= Cardinality(Threads)
    BY <1>4, <2>1, <2>2
  <2> QED
    BY <1>0, <1>1, <2>3 DEF LimitInv, LateOK
<1> QED
  BY <1>5, <1>6, <1>7 DEF LimitInv

(* A request of the current minute that is let through by thread t, which  *)
(* was pending or is counted now.                                          *)
LEMMA PassStep ==
    ASSUME GatewayTypeOK, GatewayTypeOK', LimitInv, NEW t \in Threads, Idle(t), Passes(t),
           now' = now, thread[t].pc # "idle", ExpiryOK',
           \A m \in Windows : counter'[m] >= counter[m],
           \/ thread[t].pc = "expire"
           \/ /\ counter'[thread[t].window] = counter[thread[t].window] + 1
              /\ counter'[thread[t].window] <= Limit
    PROVE  LimitInv'
<1> DEFINE w == thread[t].window
<1>0. /\ Window(now)' = Window(now) /\ Window(now) \in Windows /\ Window(now) \in Nat
      /\ w \in Windows /\ Limit \in Nat
  <2>1. Window(now)' = Window(now)
    BY DEF Window
  <2>2. Window(now) \in Windows /\ Window(now) \in Nat
    BY NowInWindows DEF GatewayTypeOK, Windows
  <2>3. w \in Windows
    BY DEF GatewayTypeOK
  <2> QED
    BY <2>1, <2>2, <2>3, GatewayAssumption
<1>2. /\ onTime \in [Windows -> Nat] /\ onTime' \in [Windows -> Nat]
      /\ counter \in [Windows -> Nat] /\ counter' \in [Windows -> Nat]
  BY DEF GatewayTypeOK
<1>3. \A m \in Windows : /\ Pending(m)' = Pending(m) \ {t}
                         /\ Cardinality(Pending(m)) \in Nat /\ Cardinality(Pending(m))' \in Nat
                         /\ Cardinality(Pending(m))' <= Cardinality(Pending(m))
                         /\ t \in Pending(m) => Cardinality(Pending(m))' = Cardinality(Pending(m)) - 1
  BY SetFacts, CountFacts, IdleSets
<1>4. WindowOK'
  <2>1. \A u \in Threads : thread'[u] = IF u = t THEN IdleThread ELSE thread[u]
    BY IdleFacts
  <2> QED
    BY <1>0, <2>1, IdleType DEF WindowOK, LimitInv
<1>5. \A m \in Windows : m >= Window(now) =>
        /\ onTime[m] + Cardinality(Pending(m)) <= counter[m]
        /\ onTime[m] + Cardinality(Pending(m)) <= Limit
  BY DEF LimitInv, CountOK
<1>6. CountOK'
  <2> SUFFICES ASSUME NEW m \in Windows, m >= Window(now)
               PROVE  /\ onTime'[m] + Cardinality(Pending(m))' <= counter'[m]
                      /\ onTime'[m] + Cardinality(Pending(m))' <= Limit
    BY <1>0 DEF CountOK
  <2>1. /\ onTime[m] \in Nat /\ onTime'[m] \in Nat /\ counter[m] \in Nat /\ counter'[m] \in Nat
        /\ counter'[m] >= counter[m]
    BY <1>2
  <2>2. CASE m = Window(now) /\ w = m
    <3>1. onTime'[m] = onTime[m] + 1
      BY <1>0, <1>2, <2>2, PassesFacts
    <3>2. CASE thread[t].pc = "expire"
      <4>1. t \in Pending(m)
        BY <2>2, <3>2 DEF Pending
      <4> QED
        BY <1>0, <1>3, <1>5, <2>1, <3>1, <4>1
    <3>3. CASE counter'[w] = counter[w] + 1 /\ counter'[w] <= Limit
      BY <1>0, <1>3, <1>5, <2>1, <2>2, <3>1, <3>3
    <3> QED
      BY <3>2, <3>3
  <2>3. CASE ~(m = Window(now) /\ w = m)
    <3>1. onTime'[m] = onTime[m]
      BY <1>0, <1>2, <2>3, PassesFacts
    <3> QED
      BY <1>0, <1>3, <1>5, <2>1, <3>1
  <2> QED
    BY <2>2, <2>3
<1>7. OnTimeOK'
  <2>1. \A m \in Windows : m # Window(now) => onTime'[m] = onTime[m]
    BY <1>0, <1>2, PassesFacts
  <2>2. onTime'[Window(now)] <= Limit
    <3>1. onTime'[Window(now)] + Cardinality(Pending(Window(now)))' <= Limit
      BY <1>0, <1>6 DEF CountOK
    <3>2. onTime'[Window(now)] \in Nat /\ Cardinality(Pending(Window(now)))' \in Nat
      BY <1>0, <1>2, <1>3
    <3> QED
      BY <1>0, <3>1, <3>2
  <2> QED
    BY <2>1, <2>2 DEF OnTimeOK, LimitInv
<1>8. LateOK'
  BY LateIdle
<1> QED
  BY <1>4, <1>6, <1>7, <1>8 DEF LimitInv

LEMMA LimitStep ==
    GatewayTypeOK /\ GatewayTypeOK' /\ BaseInv /\ LimitInv /\ [Next]_vars => LimitInv'
<1> SUFFICES ASSUME GatewayTypeOK, GatewayTypeOK', BaseInv, LimitInv, [Next]_vars
             PROVE  LimitInv'
  OBVIOUS
<1>0. Vars /\ thread \in [Threads -> ThreadType] /\ Owner
  BY TypeParts
<1>i. IdleThread.pc = "idle" /\ IdleThread.window = 0
  BY IdleType
<1>w. Window(now) \in Windows /\ Window(now) \in Nat
  BY <1>0, NowInWindows DEF Vars, Windows
<1>c. counter \in [Windows -> Nat] /\ \A m \in Windows : counter[m] >= counter[m]
  BY <1>0 DEF Vars
<1>t. \A t \in Threads : /\ thread[t].window \in Windows /\ thread[t].window \in Nat
                         /\ thread[t].window <= Window(now)
  BY <1>0 DEF LimitInv, WindowOK, ThreadType, Windows
<1>k. \A t \in Threads : Idle(t) /\ now' = now => WindowOK'
  <2> SUFFICES ASSUME NEW t \in Threads, Idle(t), now' = now PROVE WindowOK'
    OBVIOUS
  <2>1. Window(now)' = Window(now) /\ \A u \in Threads : thread'[u] = IF u = t THEN IdleThread ELSE thread[u]
    BY IdleFacts DEF Window
  <2> QED
    BY <1>i, <1>w, <1>t, <2>1 DEF WindowOK
(* An EXPIRE comes after its window has begun.                             *)
<1>e. \A t \in Threads : expires' = [expires EXCEPT ![thread[t].window] = now] => ExpiryOK'
  <2> SUFFICES ASSUME NEW t \in Threads, expires' = [expires EXCEPT ![thread[t].window] = now]
               PROVE  ExpiryOK'
    OBVIOUS
  <2>1. now \in Nat /\ 2 * Window(now) <= now
    BY <1>0, WindowFacts DEF Vars
  <2>2. now >= 2 * thread[t].window
    BY <1>w, <1>t, <2>1
  <2>3. \A w \in Windows : expires'[w] = IF w = thread[t].window THEN now ELSE expires[w]
    BY <1>0 DEF Vars
  <2> QED
    BY <2>2, <2>3 DEF ExpiryOK, LimitInv
<1>1. ASSUME NEW t \in Threads, Arrive(t)
      PROVE  LimitInv'
  <2>1. /\ thread[t].pc = "idle"
        /\ thread'[t].pc \in {"incr", "lock"} /\ thread'[t].window = Window(now)
        /\ \A u \in Threads : u # t => thread'[u] = thread[u]
        /\ now' = now /\ counter' = counter /\ expires' = expires /\ UNCHANGED History
    BY <1>0, <1>1 DEF Arrive, ThreadType
  <2>2. Window(now)' = Window(now)
    BY <2>1 DEF Window
  <2>3. WindowOK' /\ ExpiryOK'
    BY <1>w, <1>t, <2>1, <2>2 DEF LimitInv, WindowOK, ExpiryOK
  <2>4. \A m \in Windows : Pending(m)' \subseteq Pending(m)
    BY <2>1 DEF Pending
  <2>5. Behind(Window(now))' \subseteq Behind(Window(now))
    BY <1>w, <2>1, <2>2 DEF Behind
  <2> QED
    BY <1>c, <2>1, <2>3, <2>4, <2>5, HarmlessStep
<1>2. ASSUME NEW t \in Threads, Incr(t)
      PROVE  LimitInv'
  <2> DEFINE v == thread[t].window
  <2>0. /\ thread[t].pc = "incr" /\ now' = now /\ expires' = expires
        /\ counter' = [counter EXCEPT ![v] = counter[v] + 1]
    BY <1>2 DEF Incr
  <2>1. /\ counter[v] \in Nat /\ counter'[v] = counter[v] + 1
        /\ \A m \in Windows : /\ counter[m] \in Nat /\ counter'[m] \in Nat
                               /\ counter'[m] >= counter[m]
    BY <1>0, <1>t, <2>0 DEF Vars
  <2>2. ExpiryOK'
    BY <2>0 DEF LimitInv, ExpiryOK
  <2>3. Window(now)' = Window(now)
    BY <2>0 DEF Window
  <2>4. CASE SetsExpiry(counter[v] + 1)
    <3>1. counter[v] = 0
      BY <2>1, <2>4 DEF SetsExpiry
    <3>2. /\ thread'[t].pc = "expire" /\ thread'[t].window = v
          /\ \A u \in Threads : u # t => thread'[u] = thread[u]
          /\ onTime' = onTime /\ late' = late
      BY <1>0, <1>2, <2>4 DEF Incr, History, ThreadType
    <3>3. WindowOK'
      BY <1>t, <2>3, <3>2 DEF WindowOK
    <3>4. Behind(Window(now))' = Behind(Window(now))
      BY <2>0, <2>3, <3>2 DEF Behind
    <3>5. LateOK'
      BY <2>3, <3>2, <3>4 DEF LateOK, LimitInv
    <3>6. OnTimeOK'
      BY <3>2 DEF OnTimeOK, LimitInv
    <3>7. CountOK'
      <4> SUFFICES ASSUME NEW m \in Windows, m >= Window(now)
                   PROVE  /\ onTime[m] + Cardinality(Pending(m))' <= counter'[m]
                          /\ onTime[m] + Cardinality(Pending(m))' <= Limit
        BY <2>3, <3>2 DEF CountOK
      <4>1. /\ onTime[m] + Cardinality(Pending(m)) <= counter[m]
            /\ onTime[m] + Cardinality(Pending(m)) <= Limit
            /\ onTime[m] \in Nat /\ Cardinality(Pending(m)) \in Nat
        BY <1>0, SetFacts, CountFacts DEF LimitInv, CountOK, Vars
      <4>2. CASE m = v
        <5>1. Pending(m)' = Pending(m) \union {t} /\ t \notin Pending(m)
          BY <2>0, <3>2, <4>2 DEF Pending
        <5>2. Cardinality(Pending(m))' = Cardinality(Pending(m)) + 1
          BY <5>1, SetFacts, CountFacts
        <5> QED
          BY <2>1, <3>1, <4>1, <4>2, <5>2, GatewayAssumption
      <4>3. CASE m # v
        <5>1. Pending(m)' = Pending(m)
          BY <2>0, <3>2, <4>3 DEF Pending
        <5>2. counter'[m] = counter[m]
          BY <1>0, <2>0, <4>3 DEF Vars
        <5> QED
          BY <4>1, <5>1, <5>2
      <4> QED
        BY <4>2, <4>3
    <3> QED
      BY <2>2, <3>3, <3>5, <3>6, <3>7 DEF LimitInv
  <2>5. CASE ~SetsExpiry(counter[v] + 1) /\ Within(counter[v] + 1)
    <3>1. Idle(t) /\ Passes(t)
      BY <1>2, <2>5 DEF Incr
    <3>2. counter'[v] <= Limit
      BY <2>1, <2>5 DEF Within
    <3> QED
      BY <2>0, <2>1, <2>2, <3>1, <3>2, PassStep
  <2>6. CASE ~SetsExpiry(counter[v] + 1) /\ ~Within(counter[v] + 1)
    <3>1. Idle(t) /\ UNCHANGED History
      BY <1>2, <2>6 DEF Incr
    <3> QED
      BY <1>k, <2>0, <2>1, <2>2, <2>3, <3>1, IdleSets, HarmlessStep DEF Behind
  <2> QED
    BY <2>4, <2>5, <2>6
<1>3. ASSUME NEW t \in Threads, Expire(t)
      PROVE  LimitInv'
  <2>1. /\ Idle(t) /\ Passes(t) /\ now' = now /\ counter' = counter
        /\ thread[t].pc = "expire"
        /\ expires' = [expires EXCEPT ![thread[t].window] = now] \/ expires' = expires
    BY <1>3 DEF Expire
  <2>2. ExpiryOK'
    BY <1>e, <2>1 DEF LimitInv, ExpiryOK
  <2> QED
    BY <1>c, <2>1, <2>2, PassStep
<1>4. ASSUME NEW t \in Threads, Lock(t)
      PROVE  LimitInv'
  <2>1. /\ thread[t].pc = "lock" /\ thread'[t].pc = "select"
        /\ thread'[t].window = thread[t].window
        /\ \A u \in Threads : u # t => thread'[u] = thread[u]
        /\ now' = now /\ counter' = counter /\ expires' = expires /\ UNCHANGED History
    BY <1>0, <1>4 DEF Lock, ThreadType
  <2>2. Window(now)' = Window(now)
    BY <2>1 DEF Window
  <2>3. WindowOK' /\ ExpiryOK'
    BY <1>t, <2>1, <2>2 DEF LimitInv, WindowOK, ExpiryOK
  <2>4. \A m \in Windows : Pending(m)' \subseteq Pending(m)
    BY <2>1 DEF Pending
  <2>5. Behind(Window(now))' \subseteq Behind(Window(now))
    BY <2>1, <2>2 DEF Behind
  <2> QED
    BY <1>c, <2>1, <2>3, <2>4, <2>5, HarmlessStep
<1>5. ASSUME NEW t \in Threads, Select(t)
      PROVE  LimitInv'
  <2>1. /\ thread[t].pc = "select"
        /\ now' = now /\ counter' = counter /\ expires' = expires /\ UNCHANGED History
    BY <1>5 DEF Select
  <2>2. Window(now)' = Window(now) /\ ExpiryOK'
    BY <2>1 DEF Window, LimitInv, ExpiryOK
  <2>3. CASE Idle(t)
    BY <1>c, <1>k, <2>1, <2>2, <2>3, IdleSets, HarmlessStep DEF Behind
  <2>4. CASE thread' = [thread EXCEPT ![t].pc = "write", ![t].read = counter[thread[t].window]]
    <3>1. /\ thread'[t].pc = "write" /\ thread'[t].window = thread[t].window
          /\ \A u \in Threads : u # t => thread'[u] = thread[u]
      BY <1>0, <2>4 DEF ThreadType
    <3>3. WindowOK'
      BY <1>t, <2>2, <3>1 DEF WindowOK
    <3>4. \A m \in Windows : Pending(m)' \subseteq Pending(m)
      BY <3>1 DEF Pending
    <3>5. Behind(Window(now))' \subseteq Behind(Window(now))
      BY <2>1, <2>2, <3>1 DEF Behind
    <3> QED
      BY <1>c, <2>1, <2>2, <3>3, <3>4, <3>5, HarmlessStep
  <2> QED
    BY <1>5, <2>3, <2>4 DEF Select
<1>6. ASSUME NEW t \in Threads, Write(t)
      PROVE  LimitInv'
  <2>1. /\ Idle(t) /\ Passes(t) /\ now' = now /\ expires' = expires
        /\ thread[t].pc = "write"
        /\ counter' = [counter EXCEPT ![thread[t].window] = thread[t].read + 1]
    BY <1>6 DEF Write
  <2>2. thread[t].read = counter[thread[t].window] /\ thread[t].read < Limit
    BY <2>1 DEF BaseInv, ReadOK
  <2>3. /\ counter'[thread[t].window] = counter[thread[t].window] + 1
        /\ counter'[thread[t].window] <= Limit
        /\ \A m \in Windows : counter'[m] >= counter[m]
    BY <1>0, <1>t, <2>1, <2>2, GatewayAssumption DEF Vars
  <2>4. ExpiryOK'
    BY <2>1 DEF LimitInv, ExpiryOK
  <2> QED
    BY <2>1, <2>3, <2>4, PassStep
<1>7. ASSUME NEW t \in Threads, CallRaises(t)
      PROVE  LimitInv'
  <2>1. /\ Idle(t) /\ now' = now /\ UNCHANGED History
        /\ counter' = counter \/ counter' = [counter EXCEPT ![thread[t].window] = @ + 1]
        /\ expires' = [expires EXCEPT ![thread[t].window] = now] \/ expires' = expires
    BY <1>7 DEF CallRaises
  <2>2. Window(now)' = Window(now) /\ ExpiryOK'
    BY <1>e, <2>1 DEF Window, LimitInv, ExpiryOK
  <2>3. \A m \in Windows : counter'[m] >= counter[m]
    BY <1>0, <1>t, <2>1 DEF Vars
  <2> QED
    BY <1>k, <2>1, <2>2, <2>3, IdleSets, HarmlessStep DEF Behind
(* Now at its expiry, a key's window is over.                              *)
<1>8. ASSUME NEW w \in Windows, KeyExpires(w)
      PROVE  LimitInv'
  <2>1. /\ thread' = thread /\ now' = now /\ onTime' = onTime /\ late' = late
        /\ expires[w] # None /\ now >= expires[w] + Ttl
        /\ counter' = [counter EXCEPT ![w] = 0] /\ expires' = [expires EXCEPT ![w] = None]
    BY <1>8 DEF KeyExpires, History
  <2>2. w < Window(now)
    <3>1. expires[w] \in Nat /\ now \in Nat /\ w \in Nat /\ expires[w] >= 2 * w
      BY <1>0, <2>1 DEF Vars, Windows, LimitInv, ExpiryOK
    <3>2. now < 2 * Window(now) + 2
      BY <3>1, WindowFacts
    <3> QED
      BY <1>w, <2>1, <3>1, <3>2 DEF Ttl
  <2>3. /\ Window(now)' = Window(now)
        /\ \A m : Pending(m)' = Pending(m) /\ Behind(m)' = Behind(m)
    BY <2>1 DEF Window, Pending, Behind
  <2>4. \A m \in Windows : m >= Window(now) => counter'[m] = counter[m]
    <3> SUFFICES ASSUME NEW m \in Windows, m >= Window(now) PROVE m # w /\ counter'[m] = counter[m]
      OBVIOUS
    <3>1. m # w
      BY <1>w, <2>2 DEF Windows
    <3> QED
      BY <1>0, <2>1, <3>1 DEF Vars
  <2>5. WindowOK' /\ OnTimeOK' /\ LateOK'
    BY <2>1, <2>3 DEF LimitInv, WindowOK, OnTimeOK, LateOK
  <2>6. ExpiryOK'
    BY <1>0, <2>1 DEF LimitInv, ExpiryOK, Vars
  <2>7. CountOK'
    BY <2>1, <2>3, <2>4 DEF LimitInv, CountOK
  <2> QED
    BY <2>5, <2>6, <2>7 DEF LimitInv
<1>9. ASSUME NEW p \in Processes, Crash(p)
      PROVE  LimitInv'
  <2>1. /\ \A t \in Threads : thread'[t] = IdleThread \/ thread'[t] = thread[t]
        /\ now' = now /\ counter' = counter /\ expires' = expires /\ UNCHANGED History
    BY <1>9 DEF Crash
  <2>2. Window(now)' = Window(now)
    BY <2>1 DEF Window
  <2>3. WindowOK' /\ ExpiryOK'
    BY <1>i, <1>w, <1>t, <2>1, <2>2 DEF LimitInv, WindowOK, ExpiryOK
  <2>4. \A m \in Windows : Pending(m)' \subseteq Pending(m)
    BY <1>i, <2>1 DEF Pending
  <2>5. Behind(Window(now))' \subseteq Behind(Window(now))
    BY <1>i, <2>1, <2>2 DEF Behind
  <2> QED
    BY <1>c, <2>1, <2>3, <2>4, <2>5, HarmlessStep
<1>10. ASSUME Tick
       PROVE  LimitInv'
  <2>1. /\ now' = now + 1 /\ thread' = thread /\ counter' = counter /\ expires' = expires
        /\ onTime' = onTime /\ late' = late /\ now' \in 0..MaxNow
    BY <1>0, <1>10, GatewayAssumption DEF Tick, History, Vars
  <2>2. /\ Window(now)' \in Windows /\ Window(now)' \in Nat
        /\ Window(now)' \in {Window(now), Window(now) + 1}
    BY <1>0, <2>1, NowInWindows, WindowGrows DEF Vars, Windows
  <2>3. \A m : Pending(m)' = Pending(m) /\ Behind(m)' = Behind(m)
    BY <2>1 DEF Pending, Behind
  <2>4. WindowOK' /\ ExpiryOK' /\ OnTimeOK'
    BY <1>w, <1>t, <2>1, <2>2 DEF LimitInv, WindowOK, ExpiryOK, OnTimeOK
  <2>5. CountOK'
    <3>1. \A m \in Windows : m >= Window(now)' => m >= Window(now)
      BY <1>w, <2>2 DEF Windows
    <3> QED
      BY <2>1, <2>3, <3>1 DEF LimitInv, CountOK
  <2>6. LateOK'
    <3>0. LateOK
      BY DEF LimitInv
    <3>1. CASE Window(now)' = Window(now)
      BY <2>1, <3>0, <3>1 DEF LateOK, Behind
    <3>2. CASE Window(now)' = Window(now) + 1
      <4>1. \A m \in Windows : m > Window(now)' => m > Window(now)
        BY <1>w, <3>2 DEF Windows
      <4>2. late[Window(now)'] = 0
        BY <1>w, <2>2, <3>0, <3>2 DEF LateOK
      <4>3. Cardinality(Behind(Window(now)))' \in Nat /\ Cardinality(Threads) \in Nat
            /\ Cardinality(Behind(Window(now)))' <= Cardinality(Threads)
        BY SetFacts, CountFacts DEF Behind
      <4> QED
        BY <2>1, <3>0, <4>1, <4>2, <4>3 DEF LateOK
    <3> QED
      BY <2>2, <3>1, <3>2
  <2> QED
    BY <2>4, <2>5, <2>6 DEF LimitInv
<1>11. ASSUME UNCHANGED vars
       PROVE  LimitInv'
  <2>1. /\ Window(now)' = Window(now)
        /\ \A m : Pending(m)' = Pending(m) /\ Behind(m)' = Behind(m)
    BY <1>11 DEF vars, Window, Pending, Behind
  <2> QED
    BY <1>11, <2>1 DEF vars, LimitInv, WindowOK, ExpiryOK, CountOK, OnTimeOK, LateOK
<1> QED
  BY <1>1, <1>2, <1>3, <1>4, <1>5, <1>6, <1>7, <1>8, <1>9, <1>10, <1>11 DEF Next, Allow

(* No minute lets more requests of its own window through than the limit,  *)
(* and of earlier windows no more than there are threads, for any threads, *)
(* faults and duration, with Redis or in one process with SQLite           *)
(* (RateLimiter.allow).                                                    *)
THEOREM LimitKept == Spec => []LimitHolds
<1>1. Init => GatewayTypeOK /\ BaseInv /\ LimitInv
  BY TypeInit, BaseInit, LimitInit
<1>2. GatewayTypeOK /\ BaseInv /\ LimitInv /\ [Next]_vars
        => (GatewayTypeOK /\ BaseInv /\ LimitInv)'
  BY TypeStep, BaseStep, LimitStep
<1>3. LimitInv => LimitHolds
  BY DEF LimitInv, OnTimeOK, LateOK, LimitHolds
<1> QED
  BY <1>1, <1>2, <1>3, PTL DEF Spec

-----------------------------------------------------------------------------
(* Of a primary and a secondary region that agree about the primary's      *)
(* health at most one serves, and one does unless the primary is unhealthy *)
(* and the replica too far behind; regions that disagree may both serve,   *)
(* or neither (evaluate_ha_readiness).                                     *)
LEMMA RegionsExclude ==
    ASSUME NEW primary, NEW secondary, NEW s,
           s.mode # "single", primary = s.primary, secondary # s.primary,
           s.healthy \in BOOLEAN, (s.lag <= s.max_lag) \in BOOLEAN
    PROVE  /\ ~(Serves(primary, s) /\ Serves(secondary, s))
           /\ Serves(primary, s) \/ Serves(secondary, s) <=> s.healthy \/ s.lag <= s.max_lag
  BY DEF Serves

-----------------------------------------------------------------------------
(* A set of numbers that is not empty has a least one.                     *)
LEMMA Least ==
    ASSUME NEW S \in SUBSET Nat, S # {}
    PROVE  \E n \in S : \A m \in S : ~(m < n)
<1>1. PICK n \in S : \A m \in S : <<m, n>> \notin OpToRel(<, Nat)
  BY WFMin, NatLessThanWellFounded, Zenon
<1> QED
  BY <1>1, Zenon DEF OpToRel

(* What the loop of _abac_allows has decided after n rules: the rules      *)
(* before it that apply and deny, or else those that apply and allow.      *)
Denies(list, a, n) == \E i \in 1..n : Denying(list[i]) /\ Applies(list[i], a)
Allows(list, a, n) == \E i \in 1..n : Allowing(list[i]) /\ Applies(list[i], a)
Verdict(list, a, n) ==
    IF Denies(list, a, n) THEN "denied" ELSE IF Allows(list, a, n) THEN "allowed" ELSE "default"

LEMMA FirstVerdict ==
    ASSUME NEW list, NEW a
    PROVE  Verdict(list, a, 0) = "default"
<1>1. 1..0 = {}
  OBVIOUS
<1> QED
  BY <1>1 DEF Verdict, Denies, Allows

LEMMA NextVerdict ==
    ASSUME NEW list, NEW a, NEW n, n \in Nat \ {0}
    PROVE  Verdict(list, a, n) = Decide(Verdict(list, a, n - 1), list[n], a)
<1> DEFINE hit == Applies(list[n], a)
<1>1. 1..n = (1..(n - 1)) \union {n}
  BY SMT
<1>2. Denies(list, a, n) <=> Denies(list, a, n - 1) \/ (Denying(list[n]) /\ hit)
  BY <1>1, Zenon DEF Denies
<1>3. Allows(list, a, n) <=> Allows(list, a, n - 1) \/ (Allowing(list[n]) /\ hit)
  BY <1>1, Zenon DEF Allows
<1> HIDE DEF hit
<1>4. Decide(Verdict(list, a, n - 1), list[n], a)
        = IF Verdict(list, a, n - 1) # "denied" /\ hit
          THEN Effect(Verdict(list, a, n - 1), list[n]) ELSE Verdict(list, a, n - 1)
  BY DEF Decide, hit
<1>5. CASE Denies(list, a, n - 1)
  BY <1>2, <1>4, <1>5 DEF Verdict
<1>6. CASE ~Denies(list, a, n - 1) /\ Denying(list[n])
  BY <1>2, <1>3, <1>4, <1>6 DEF Verdict, Effect
<1>7. CASE ~Denies(list, a, n - 1) /\ ~Denying(list[n])
  BY <1>2, <1>3, <1>4, <1>7 DEF Verdict, Effect
<1> QED
  BY <1>5, <1>6, <1>7

(* Whatever function takes the loop's turns one by one gives that verdict. *)
LEMMA OneVerdict ==
    ASSUME NEW list, NEW a, NEW len, len \in Nat,
           NEW f, f = [n \in 0..len |-> IF n = 0 THEN "default" ELSE Decide(f[n - 1], list[n], a)]
    PROVE  f[len] = Verdict(list, a, len)
<1> DEFINE wrong == {n \in 0..len : f[n] # Verdict(list, a, n)}
<1>1. SUFFICES wrong = {}
  <2>1. len \in 0..len
    OBVIOUS
  <2> QED
    BY <1>1, <2>1
<1>2. SUFFICES ASSUME wrong # {} PROVE FALSE
  OBVIOUS
<1>3. wrong \in SUBSET Nat
  OBVIOUS
<1>4. PICK n \in wrong : \A m \in wrong : ~(m < n)
  <2> HIDE DEF wrong
  <2> QED
    BY <1>2, <1>3, Least, Zenon
<1>5. n \in 0..len /\ f[n] # Verdict(list, a, n)
  BY <1>4
<1>6. f[n] = IF n = 0 THEN "default" ELSE Decide(f[n - 1], list[n], a)
  BY <1>5, Zenon
<1>7. CASE n = 0
  BY <1>5, <1>6, <1>7, FirstVerdict
<1>8. CASE n # 0
  <2>1. n \in Nat \ {0} /\ n - 1 \in 0..len /\ n - 1 < n
    BY <1>5, <1>8
  <2>2. f[n - 1] = Verdict(list, a, n - 1)
    BY <1>4, <2>1
  <2>3. f[n] = Decide(Verdict(list, a, n - 1), list[n], a)
    BY <1>6, <1>8, <2>2, Zenon
  <2>4. Verdict(list, a, n) = Decide(Verdict(list, a, n - 1), list[n], a)
    BY <2>1, NextVerdict, Zenon
  <2> QED
    BY <1>5, <2>3, <2>4, Zenon
<1> QED
  BY <1>7, <1>8

LEMMA RulesDecide ==
    ASSUME NEW list, list \in Seq(Range(list)), NEW a
    PROVE  AbacAllows(list, a) <=> ~\E rule \in Range(list) : Denying(rule) /\ Applies(rule, a)
<1> DEFINE len == Len(list)
           Turn(f) == [n \in 0..len |-> IF n = 0 THEN "default" ELSE Decide(f[n - 1], list[n], a)]
           told == [n \in 0..len |-> Verdict(list, a, n)]
           decision == CHOOSE f : f = Turn(f)
<1>1. len \in Nat /\ DOMAIN list = 1..len
  OBVIOUS
<1>2. told = Turn(told)
  <2> SUFFICES ASSUME NEW n \in 0..len
               PROVE  told[n] = IF n = 0 THEN "default" ELSE Decide(told[n - 1], list[n], a)
    BY Zenon
  <2>1. CASE n = 0
    BY <2>1, FirstVerdict, Zenon
  <2>2. CASE n # 0
    <3>1. n \in Nat \ {0} /\ n - 1 \in 0..len
      BY <1>1, <2>2
    <3> QED
      BY <2>2, <3>1, NextVerdict, Zenon
  <2> QED
    BY <2>1, <2>2
<1>3. decision = Turn(decision)
  BY <1>2, Zenon
<1>4. decision[len] = Verdict(list, a, len)
  <2> HIDE DEF len, decision
  <2> QED
    BY <1>1, <1>3, OneVerdict, Zenon
<1>5. AbacAllows(list, a) <=> decision[len] # "denied"
  BY Zenon DEF AbacAllows
<1>6. Verdict(list, a, len) # "denied" <=> ~Denies(list, a, len)
  BY DEF Verdict
<1>7. Denies(list, a, len) <=> \E rule \in Range(list) : Denying(rule) /\ Applies(rule, a)
  BY <1>1, Zenon DEF Denies, Range
<1> QED
  BY <1>4, <1>5, <1>6, <1>7

(* A rule that denies an access cannot be overridden by the rules after    *)
(* it, by the owner of the resource or by an explicit scope, and nothing   *)
(* else denies, in a list of rules of any length (_abac_allows and         *)
(* check_scope of security/authz.py).                                      *)
THEOREM DenyWins == Spec => []DenyOverrides
<1>1. rules \in RuleLists => DenyOverrides
  <2> SUFFICES ASSUME rules \in RuleLists, NEW a \in Accesses
               PROVE  LET denied == \E rule \in Range(rules) : Denying(rule) /\ Applies(rule, a) IN
                      /\ AbacAllows(rules, a) <=> ~denied
                      /\ \A setting \in RoleSettings : \A owner \in {None, a.user} :
                            CheckScope(setting, rules, a, owner) => ~denied
    BY Zenon DEF DenyOverrides
  <2>1. AbacAllows(rules, a) <=> ~\E rule \in Range(rules) : Denying(rule) /\ Applies(rule, a)
    BY GatewayAssumption, RulesDecide, Zenon
  <2>2. \A setting \in RoleSettings : \A owner \in {None, a.user} :
           CheckScope(setting, rules, a, owner) => AbacAllows(rules, a)
    BY Zenon DEF CheckScope
  <2> QED
    BY <2>1, <2>2, Zenon
<1>2. GatewayTypeOK => rules \in RuleLists
  BY DEF GatewayTypeOK
<1> QED
  BY <1>1, <1>2, TypeCorrect, PTL
=============================================================================
