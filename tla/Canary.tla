------------------------------- MODULE Canary -------------------------------
(***************************************************************************)
(* Shadow evaluation (heal/canary.py): a request that is sampled starts a  *)
(* thread that runs one of the loops of LlmLoops with a variant of the     *)
(* prompt and records its score, or its error.  The errors of the last     *)
(* minute close the circuit; it is looked at once, before the thread is    *)
(* started, so that shadows already running may still record theirs.       *)
(*                                                                         *)
(* Time is counted in ticks, an error's time stamp is its age.             *)
(***************************************************************************)
EXTENDS LlmLoops

CONSTANTS Window,      \* _WINDOW_SECONDS, in ticks
          MaxRecent,   \* errors a window may hold: int(_WINDOW_SECONDS / 10) * _MAX_ERROR_RATE
          MaxResults   \* _canary_results keeps this many (1000)

ASSUME CanaryAssumption ==
    /\ Window \in Nat \ {0} /\ MaxRecent \in Nat /\ MaxResults \in Nat \ {0}
    /\ IsFiniteSet(Slots)

VARIABLES shadow,   \* where each request and its shadow thread are
          errors,   \* _error_window: the age of each error
          results   \* _canary_results

vars == <<call, shadow, errors, results>>

ShadowPC == {"none", "checked", "running"}

(* Mutant: an error never gets old.                                        *)
RecentEver(es) == Len(es)
Recent(es) == Cardinality({i \in DOMAIN es : es[i] < Window})
(* The errors joined the window oldest first: the recent ones end it.      *)
Pruned(es) == SubSeq(es, Len(es) - Recent(es) + 1, Len(es))
(* Mutant: the circuit opens one error late.                               *)
CircuitOpenLate(es) == Recent(es) > MaxRecent + 1
CircuitOpen(es) == Recent(es) > MaxRecent

(* The shadow function is any callable the caller hands in; the model runs *)
(* the loops that could be one.  Each thread's first:                      *)
Runs == {l \in [Slots -> AllLoops] : \A c \in Slots : l[c] \in Loops[c]}

Init ==
    /\ \E l \in Runs : call = [c \in Slots |-> Idle(l[c])]
    /\ shadow = [c \in Slots |-> "none"]
    /\ errors = <<>>
    /\ results = <<>>

(* run_canary_shadow: an open circuit skips the request.                   *)
Check(c) ==
    /\ shadow[c] = "none"
    /\ ~CircuitOpen(errors)
    /\ shadow' = [shadow EXCEPT ![c] = "checked"]
    /\ UNCHANGED <<call, errors, results>>

StartShadow(c) ==
    /\ shadow[c] = "checked"
    /\ shadow' = [shadow EXCEPT ![c] = "running"]
    /\ Goto(c, "begin")
    /\ UNCHANGED <<errors, results>>

RunShadow(c) ==
    /\ shadow[c] = "running"
    /\ LoopStep(c)
    /\ UNCHANGED <<shadow, errors, results>>

(* Mutant: the results grow.                                               *)
KeptAll(rs) == rs
Kept(rs) == IF Len(rs) > MaxResults THEN Tail(rs) ELSE rs

(* _record_canary, under its lock: the results keep their last ones, an    *)
(* error joins the window and the old ones leave it.  An exception without *)
(* a message is no error.                                                  *)
Record(c) ==
    /\ shadow[c] = "running"
    /\ ~Running(c)
    /\ \E error \in IF call[c].pc = "raised" THEN BOOLEAN ELSE {FALSE} :
         /\ errors' = IF error THEN Pruned(Append(errors, 0)) ELSE errors
         /\ \E passed \in BOOLEAN : (error => ~passed) /\ results' = Kept(Append(results, passed))
    /\ shadow' = [shadow EXCEPT ![c] = "none"]
    /\ \E l \in Loops[c] : call' = [call EXCEPT ![c] = Idle(l)]

Older(age) == IF age < Window THEN age + 1 ELSE age

Tick ==
    /\ errors' = [i \in DOMAIN errors |-> Older(errors[i])]
    /\ errors' # errors
    /\ UNCHANGED <<call, shadow, results>>

Next == \/ \E c \in Slots : Check(c) \/ StartShadow(c) \/ RunShadow(c) \/ Record(c)
        \/ Tick

(* A thread that is started runs, and time passes; nobody has to call.     *)
Spec == Init /\ [][Next]_vars
FairSpec ==
    /\ Spec
    /\ \A c \in Slots : WF_vars(StartShadow(c)) /\ WF_vars(RunShadow(c)) /\ WF_vars(Record(c))
    /\ WF_vars(Tick)

-----------------------------------------------------------------------------
OldestFirst(es) == \A i, j \in DOMAIN es : i <= j => es[i] >= es[j]

CanaryTypeOK ==
    /\ LoopsTypeOK
    /\ shadow \in [Slots -> ShadowPC]
    /\ errors \in Seq(0..Window) /\ OldestFirst(errors)
    /\ results \in Seq(BOOLEAN) /\ Len(results) <= MaxResults
    /\ \A c \in Slots : shadow[c] # "running" => call[c].pc = "idle"

(* Shadows that were let through before the circuit opened may still fail, *)
(* and no others: the window never holds more errors than its limit and    *)
(* one for each thread (run_canary_shadow checks, then starts).            *)
OvershootBounded == Recent(errors) <= MaxRecent + Cardinality(Slots)

(* Every call ends, whatever the model answers: the loops are bounded.     *)
EveryCallEnds == \A c \in Slots : Running(c) ~> ~Running(c)

(* An open circuit closes again once its errors are old, although nobody   *)
(* prunes the window while it is open.                                     *)
CircuitRecloses == CircuitOpen(errors) ~> ~CircuitOpen(errors)
=============================================================================
