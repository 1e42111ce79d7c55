---------------------------- MODULE JobLifecycle ----------------------------
(***************************************************************************)
(* What the ingest queue promises to a caller that polls get_job_status:   *)
(* the status of a job and its number of failed attempts move along        *)
(*                                                                         *)
(*    unknown -> pending -> processing -> completed | failed               *)
(*                  ^           |                                          *)
(*                  +-----------+   (a failed attempt, retries left)       *)
(*                                                                         *)
(* It knows nothing of lists, threads and polling.                         *)
(***************************************************************************)
EXTENDS Naturals

CONSTANTS Jobs, MaxRetries

VARIABLES status, attempts

Init ==
    /\ status = [j \in Jobs |-> "unknown"]
    /\ attempts = [j \in Jobs |-> 0]

Accept(j) ==
    /\ status[j] = "unknown"
    /\ status' = [status EXCEPT ![j] = "pending"]
    /\ UNCHANGED attempts

Begin(j) ==
    /\ status[j] = "pending"
    /\ status' = [status EXCEPT ![j] = "processing"]
    /\ UNCHANGED attempts

Succeed(j) ==
    /\ status[j] = "processing"
    /\ status' = [status EXCEPT ![j] = "completed"]
    /\ UNCHANGED attempts

Retry(j) ==
    /\ status[j] = "processing"
    /\ attempts[j] + 1 < MaxRetries
    /\ status' = [status EXCEPT ![j] = "pending"]
    /\ attempts' = [attempts EXCEPT ![j] = @ + 1]

GiveUp(j) ==
    /\ status[j] = "processing"
    /\ attempts[j] + 1 >= MaxRetries
    /\ status' = [status EXCEPT ![j] = "failed"]
    /\ attempts' = [attempts EXCEPT ![j] = @ + 1]

Next ==
    \E j \in Jobs :
        Accept(j) \/ Begin(j) \/ Succeed(j) \/ Retry(j) \/ GiveUp(j)

Spec == Init /\ [][Next]_<<status, attempts>>
=============================================================================
