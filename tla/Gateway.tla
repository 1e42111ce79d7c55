------------------------------- MODULE Gateway ------------------------------
(***************************************************************************)
(* The entry of the server: the rate limiter behind each admitted request  *)
(* (api/rate_limit.py), in one process with its SQLite database or in      *)
(* several with one Redis, and the readiness of the regions                *)
(* (observe/ha.py).                                                        *)
(*                                                                         *)
(* Time is counted in half minutes.  A window is a minute: a request       *)
(* computes its window first and is counted in it later, perhaps in the    *)
(* next minute.  SQLite's statements are taken under the process's lock;   *)
(* INCR and EXPIRE are two calls: either may raise, and a process may die  *)
(* between them.                                                           *)
(***************************************************************************)
EXTENDS Authz, FiniteSetsExt, Functions

CONSTANTS Threads,       \* threads that serve requests
          Deployments,   \* [backend, proc]: the limiter's backend, each thread's process
          Requests,      \* the requests that come in
          RoleSettings,  \* values of SHRAG_ROLE_SCOPES
          RuleLists,     \* values of SHRAG_ABAC_RULES_JSON
          Accesses,      \* what check_scope is asked
          Limit,         \* rate_limit_per_minute
          MaxNow,        \* half minutes a behaviour lasts
          MaxCount,      \* bound on a counter of Redis
          MaxFaults      \* calls that raise and processes that die

ASSUME GatewayAssumption ==
    /\ Limit \in Nat \ {0} /\ MaxNow \in Nat /\ MaxCount \in Nat /\ MaxFaults \in Nat
    /\ \A list \in RuleLists : list \in Seq(Range(list))
    /\ IsFiniteSet(Threads) /\ None \notin Threads /\ None \notin Nat
    /\ \A d \in Deployments : d.backend \in {"sqlite", "redis"} /\ DOMAIN d.proc = Threads
    /\ \A d \in Deployments : d.backend = "sqlite" => \A t, u \in Threads : d.proc[t] = d.proc[u]

VARIABLES deployment, rules,
          now,       \* half minutes
          thread,    \* where each thread is
          counter,   \* the count of each window; 0 is an absent row or key
          expires,   \* when EXPIRE was last called on a window's key, or None
          lock,      \* who has the lock of each process
          onTime, late,   \* history: requests let through in a minute, by their window
          faults

vars == <<deployment, rules, now, thread, counter, expires, lock, onTime, late, faults>>

Window(t) == t \div 2
Windows == 0..Window(MaxNow)
Processes == UNION {Range(d.proc) : d \in Deployments}
ThreadPC == {"idle", "lock", "select", "write", "incr", "expire"}

IdleThread == [pc |-> "idle", window |-> 0, read |-> 0]

Init ==
    /\ deployment \in Deployments /\ rules \in RuleLists
    /\ now = 0
    /\ thread = [t \in Threads |-> IdleThread]
    /\ counter = [w \in Windows |-> 0]
    /\ expires = [w \in Windows |-> None]
    /\ lock = [p \in Processes |-> None]
    /\ onTime = [w \in Windows |-> 0] /\ late = [w \in Windows |-> 0]
    /\ faults = 0

Proc(t) == deployment.proc[t]
Fixed == <<deployment, rules>>
History == <<onTime, late>>
Idle(t) == thread' = [thread EXCEPT ![t] = IdleThread]

(* A request that is let through now, for the window it computed.          *)
Passes(t) ==
    LET m == Window(now) IN
    IF thread[t].window = m
      THEN onTime' = [onTime EXCEPT ![m] = @ + 1] /\ UNCHANGED late
      ELSE late' = [late EXCEPT ![m] = @ + 1] /\ UNCHANGED onTime

(* allow(): the window, before any lock.                                   *)
Limited == {"query", "docs", "feedback"}   \* the other endpoints have no limit
Admitted == {p \in Limited \X Requests : Admits(p[1], p[2])}
Arrive(t) ==
    /\ thread[t].pc = "idle"
    /\ Admitted # {}
    /\ thread' = [thread EXCEPT ![t] = [pc |-> IF deployment.backend = "redis" THEN "incr" ELSE "lock",
                                        window |-> Window(now), read |-> 0]]
    /\ UNCHANGED <<Fixed, now, counter, expires, lock, History, faults>>

-----------------------------------------------------------------------------
(* Redis.                                                                  *)
Within(value) == value <= Limit

(* Mutant: the expiry is set by the second request.                        *)
SetsExpirySecond(value) == value = 2
SetsExpiry(value) == value = 1

Incr(t) ==
    LET w == thread[t].window
        value == counter[w] + 1 IN
    /\ thread[t].pc = "incr"
    /\ value <= MaxCount
    /\ counter' = [counter EXCEPT ![w] = value]
    /\ IF SetsExpiry(value)
         THEN thread' = [thread EXCEPT ![t].pc = "expire"] /\ UNCHANGED History
         ELSE Idle(t) /\ IF Within(value) THEN Passes(t) ELSE UNCHANGED History
    /\ UNCHANGED <<Fixed, now, expires, lock, faults>>

(* EXPIRE on a key that is gone does nothing.  The first request of a      *)
(* window is within every limit.                                           *)
Expire(t) ==
    LET w == thread[t].window IN
    /\ thread[t].pc = "expire"
    /\ expires' = IF counter[w] > 0 THEN [expires EXCEPT ![w] = now] ELSE expires
    /\ Idle(t)
    /\ Passes(t)
    /\ UNCHANGED <<Fixed, now, counter, lock, faults>>

(* Mutant: an expiry of half a minute.                                     *)
TtlShort == 1
(* 65 seconds: more than two of our units.                                 *)
Ttl == 2
KeyExpires(w) ==
    /\ expires[w] # None
    /\ now >= expires[w] + Ttl
    /\ counter' = [counter EXCEPT ![w] = 0]
    /\ expires' = [expires EXCEPT ![w] = None]
    /\ UNCHANGED <<Fixed, now, thread, lock, History, faults>>

-----------------------------------------------------------------------------
(* SQLite.                                                                 *)
(* Mutant: the lock is not asked for.                                      *)
LockFreeAlways(t) == TRUE
LockFree(t) == lock[Proc(t)] = None
Lock(t) ==
    /\ thread[t].pc = "lock"
    /\ LockFree(t)
    /\ lock' = [lock EXCEPT ![Proc(t)] = t]
    /\ thread' = [thread EXCEPT ![t].pc = "select"]
    /\ UNCHANGED <<Fixed, now, counter, expires, History, faults>>

Select(t) ==
    LET count == counter[thread[t].window] IN
    /\ thread[t].pc = "select"
    /\ IF count >= Limit
         THEN Idle(t) /\ lock' = [lock EXCEPT ![Proc(t)] = None]
         ELSE thread' = [thread EXCEPT ![t].pc = "write", ![t].read = count] /\ UNCHANGED lock
    /\ UNCHANGED <<Fixed, now, counter, expires, History, faults>>

Write(t) ==
    /\ thread[t].pc = "write"
    /\ counter' = [counter EXCEPT ![thread[t].window] = thread[t].read + 1]
    /\ Idle(t)
    /\ lock' = [lock EXCEPT ![Proc(t)] = None]
    /\ Passes(t)
    /\ UNCHANGED <<Fixed, now, expires, faults>>

-----------------------------------------------------------------------------
Tick ==
    /\ now < MaxNow
    /\ now' = now + 1
    /\ UNCHANGED <<Fixed, thread, counter, expires, lock, History, faults>>

(* A call raises, before or after the server did its part; SQLite rolls     *)
(* back.  The request fails and its thread goes on to the next.            *)
CallRaises(t) ==
    LET s == thread[t] IN
    /\ s.pc \in {"incr", "expire", "select", "write"}
    /\ faults < MaxFaults
    /\ faults' = faults + 1
    /\ Idle(t)
    /\ \/ s.pc = "incr" /\ counter[s.window] < MaxCount
          /\ counter' = [counter EXCEPT ![s.window] = @ + 1] /\ UNCHANGED expires
       \/ s.pc = "expire" /\ counter[s.window] > 0
          /\ expires' = [expires EXCEPT ![s.window] = now] /\ UNCHANGED counter
       \/ UNCHANGED <<counter, expires>>
    /\ lock' = IF s.pc \in {"select", "write"} THEN [lock EXCEPT ![Proc(t)] = None] ELSE lock
    /\ UNCHANGED <<Fixed, now, History>>

Crash(p) ==
    /\ faults < MaxFaults
    /\ faults' = faults + 1
    /\ thread' = [t \in Threads |-> IF Proc(t) = p THEN IdleThread ELSE thread[t]]
    /\ lock' = [lock EXCEPT ![p] = None]
    /\ UNCHANGED <<Fixed, now, counter, expires, History>>

Allow(t) == Incr(t) \/ Expire(t) \/ Lock(t) \/ Select(t) \/ Write(t) \/ CallRaises(t)

Next == \/ \E t \in Threads : Arrive(t) \/ Allow(t)
        \/ \E w \in Windows : KeyExpires(w)
        \/ \E p \in Processes : Crash(p)
        \/ Tick

Spec == Init /\ [][Next]_vars

-----------------------------------------------------------------------------
(* evaluate_ha_readiness, for readyz: whether a region serves, by its own  *)
(* settings: its mode, the primary region and what it thinks of it.        *)
Serves(region, s) ==
    \/ s.mode = "single"
    \/ region = s.primary /\ s.healthy
    \/ region # s.primary /\ ~s.healthy /\ s.lag <= s.max_lag

-----------------------------------------------------------------------------
(* Types, and the lock: only its owner is between SELECT and commit.       *)
GatewayTypeOK ==
    /\ deployment \in Deployments /\ rules \in RuleLists
    /\ now \in 0..MaxNow
    /\ thread \in [Threads -> [pc : ThreadPC, window : Windows, read : Nat]]
    /\ counter \in [Windows -> Nat]
    /\ expires \in [Windows -> (0..MaxNow) \union {None}]
    /\ lock \in [Processes -> Threads \union {None}]
    /\ onTime \in [Windows -> Nat] /\ late \in [Windows -> Nat]
    /\ faults \in 0..MaxFaults
    /\ \A t \in Threads : thread[t].pc \in {"select", "write"} <=> lock[Proc(t)] = t

(* In no minute are more requests of its own window let through than the   *)
(* limit, and of earlier windows no more than there are threads: a request *)
(* counted in a window that is over was already on its way (rate_limit.py  *)
(* computes the window before the lock; a key lives longer than a minute). *)
LimitHolds ==
    \A m \in Windows : onTime[m] <= Limit /\ late[m] <= Cardinality(Threads)

(* A key that will never expire is one whose INCR or EXPIRE raised, or     *)
(* whose process died between them, or has a call still on its way.        *)
Leaked(w) ==
    /\ deployment.backend = "redis" /\ counter[w] > 0 /\ expires[w] = None
    /\ \A t \in Threads : ~(thread[t].pc = "expire" /\ thread[t].window = w)
LeaksNeedFault == faults = 0 => \A w \in Windows : ~Leaked(w)

(* A rule that denies an access cannot be overridden, wherever it stands   *)
(* in the list, whoever owns the resource, whatever scopes are granted     *)
(* explicitly and wherever the roles come from, and no other rule denies   *)
(* (_abac_allows, check_scope).                                            *)
DenyOverrides ==
    \A a \in Accesses :
        LET denied == \E rule \in Range(rules) : Denying(rule) /\ Applies(rule, a) IN
        /\ AbacAllows(rules, a) <=> ~denied
        /\ \A setting \in RoleSettings : \A owner \in {None, a.user} :
              CheckScope(setting, rules, a, owner) => ~denied
=============================================================================
