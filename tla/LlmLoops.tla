------------------------------ MODULE LlmLoops ------------------------------
(***************************************************************************)
(* The bounded loops around the language model: iterative refinement       *)
(* (reflect/refine.py), chain of verification (reflect/cove.py), the ReAct *)
(* agent (agent/react.py), repair (heal/repair.py) and the retry policy    *)
(* (heal/retry.py).  Each call has its own state; they share nothing but   *)
(* the model they ask.                                                     *)
(*                                                                         *)
(* A completion is abstracted to what the loop tells apart: empty, short,  *)
(* long, a verdict, raised.  A version of an answer is the number of times *)
(* it was rewritten; what a text says, cites or warns of is left out.      *)
(***************************************************************************)
EXTENDS Naturals, Sequences, FiniteSets

CONSTANTS Slots,         \* threads that run a call each
          RefineRounds,  \* SHRAG_REFINE_MAX_ROUNDS
          Questions,     \* SHRAG_COVE_MAX_QUESTIONS
          MaxSteps,      \* ReActAgent.max_steps
          RepairRounds,  \* SHRAG_MAX_REPAIR_ROUNDS
          MaxAttempts,   \* RetryPolicy.max_attempts
          Loops          \* bound: the loops each thread runs

VARIABLE call

Strategies == {"append_note", "hyde_rewrite", "strict_cite", "full_loop"}
AllLoops   == {"refine", "cove", "react", "retry"} \union Strategies

ASSUME LoopsAssumption ==
    /\ RefineRounds \in Nat \ {0} /\ Questions \in Nat \ {0} /\ MaxSteps \in Nat
    /\ RepairRounds \in Nat /\ MaxAttempts \in Nat \ {0}
    /\ Loops \in [Slots -> SUBSET AllLoops]

PC == {"idle", "begin", "critique", "improve", "verify", "round", "done", "raised"}
CallState == [loop : AllLoops, pc : PC, round : Nat, version : Nat, scored : Nat,
              converged : BOOLEAN, verdicts : Seq(BOOLEAN)]

Idle(loop) == [loop |-> loop, pc |-> "idle", round |-> 0, version |-> 0, scored |-> 0,
               converged |-> FALSE, verdicts |-> <<>>]
Running(c) == call[c].pc \notin {"idle", "done", "raised"}

At(c, loop, pc) == call[c].loop = loop /\ call[c].pc = pc
Goto(c, pc)     == call' = [call EXCEPT ![c].pc = pc]

-----------------------------------------------------------------------------
(* refine_full.  A score the model does not give counts as 0.5, which is   *)
(* below the threshold; a critic that raises says nothing, and nothing     *)
(* said converges.                                                         *)
RefineScore(c, good) ==
    /\ At(c, "refine", "begin")
    /\ call' = [call EXCEPT ![c].round = @ + 1, ![c].scored = call[c].version,
                            ![c].converged = good,
                            ![c].pc = IF good THEN "done" ELSE "critique"]

RefineCritique(c, issues) ==
    /\ At(c, "refine", "critique")
    /\ call' = [call EXCEPT ![c].converged = ~issues, ![c].pc = IF issues THEN "improve" ELSE "done"]

NextRound(s) == IF s.round < RefineRounds THEN "begin" ELSE "done"
(* Mutant: the answer is replaced before it is compared.                   *)
ImprovedFirst(s, text) ==
    CASE text = "blank"   -> [s EXCEPT !.pc = "done"]
      [] text = "similar" -> [s EXCEPT !.converged = TRUE, !.pc = "done", !.version = @ + 1]
      [] text = "new"     -> [s EXCEPT !.version = @ + 1, !.pc = NextRound(s)]
(* _improve returns the answer itself when the model raises: similar.      *)
Improved(s, text) ==
    CASE text = "blank"   -> [s EXCEPT !.pc = "done"]
      [] text = "similar" -> [s EXCEPT !.converged = TRUE, !.pc = "done"]
      [] text = "new"     -> [s EXCEPT !.version = @ + 1, !.pc = NextRound(s)]

RefineImprove(c, text) ==
    /\ At(c, "refine", "improve")
    /\ call' = [call EXCEPT ![c] = Improved(@, text)]

Refine(c) ==
    \/ \E good \in BOOLEAN : RefineScore(c, good)
    \/ \E issues \in BOOLEAN : RefineCritique(c, issues)
    \/ \E text \in {"blank", "similar", "new"} : RefineImprove(c, text)

-----------------------------------------------------------------------------
(* cove_verify.  The questions come from the model or, when it raises or   *)
(* says nothing usable, from the heuristic; there is always one.           *)
CoveQuestions(c, n) ==
    /\ At(c, "cove", "begin")
    /\ call' = [call EXCEPT ![c].round = n, ![c].pc = "verify"]

(* What came of one question: no independent answer, the model's verdict   *)
(* on it, or, when the model raises, whether the answer sounds negative.   *)
Verdicts == {"blank", "CONFIRMED", "UNCONFIRMED", "neither", "negative", "positive"}
(* _check_consistency: UNCONFIRMED contains CONFIRMED.                     *)
Confirmed(v) == v \in {"CONFIRMED", "UNCONFIRMED", "positive"}

CoveAnswer(c, v) ==
    LET vs == Append(call[c].verdicts, Confirmed(v)) IN
    /\ At(c, "cove", "verify")
    /\ call' = [call EXCEPT ![c].verdicts = vs,
                            ![c].pc = IF Len(vs) = call[c].round THEN "done" ELSE "verify"]

Cove(c) ==
    \/ \E n \in 1..Questions : CoveQuestions(c, n)
    \/ \E v \in Verdicts : CoveAnswer(c, v)

-----------------------------------------------------------------------------
(* ReActAgent.run.  A tool that is unknown or raises is an observation; a  *)
(* model that raises ends the run.                                         *)
ReactThink(c, plan) ==
    /\ At(c, "react", "begin")
    /\ IF call[c].round < MaxSteps
         THEN call' = [call EXCEPT ![c].round = IF plan = "tool" THEN @ + 1 ELSE @,
                                   ![c].pc = CASE plan = "final" -> "done"
                                               [] plan = "raises" -> "raised"
                                               [] plan = "tool" -> "begin"]
         ELSE call' = [call EXCEPT ![c].pc = IF plan = "raises" THEN "raised" ELSE "done"]

React(c) == \E plan \in {"final", "tool", "raises"} : ReactThink(c, plan)

(* run_with_retry.                                                         *)
Attempt(c, works) ==
    LET n == call[c].round + 1 IN
    /\ At(c, "retry", "begin")
    /\ call' = [call EXCEPT ![c].round = n,
                            ![c].pc = IF works THEN "done" ELSE IF n < MaxAttempts THEN "begin" ELSE "raised"]

-----------------------------------------------------------------------------
(* repair_response: found, whether there are chunks to work with; text,    *)
(* what _strict_cite_generate makes of them.                               *)
Texts == {"empty", "short", "long"}

AppendNote(c) ==
    /\ At(c, "append_note", "begin")
    /\ Goto(c, "done")

(* One answer from the original chunks, which falls back to a note.        *)
StrictCite(c) ==
    /\ At(c, "strict_cite", "begin")
    /\ Goto(c, "done")

(* _build_hyde_query, _re_retrieve, _strict_cite_generate; a retrieval     *)
(* that raises finds nothing.  HYDE_REWRITE goes on to the full loop when  *)
(* its one try fails.                                                      *)
HydeRewrite(c, found, text) ==
    /\ At(c, "hyde_rewrite", "begin")
    /\ IF found /\ text # "empty"
         THEN call' = [call EXCEPT ![c].pc = "done", ![c].round = 1]
         ELSE Goto(c, "round")

(* Mutant: a round that fails starts the strategy again and is not counted.*)
SpentAgain(s) == [s EXCEPT !.pc = "begin"]
Spent(s) == [s EXCEPT !.pc = "round", !.round = @ + 1]

RepairRound(c, found, text) ==
    /\ At(c, "full_loop", "begin") \/ call[c].pc = "round"
    /\ IF call[c].round = RepairRounds
         THEN Goto(c, "done")
         ELSE IF found /\ text = "long"
           THEN call' = [call EXCEPT ![c].pc = "done", ![c].round = @ + 1]
           ELSE call' = [call EXCEPT ![c] = Spent(@)]

Repair(c) ==
    \/ AppendNote(c) \/ StrictCite(c)
    \/ \E found \in BOOLEAN, text \in Texts : HydeRewrite(c, found, text) \/ RepairRound(c, found, text)

LoopStep(c) ==
    \/ Refine(c) \/ Cove(c) \/ React(c) \/ Repair(c)
    \/ \E works \in BOOLEAN : Attempt(c, works)

-----------------------------------------------------------------------------
(* Types, and each loop within its bound.                                  *)
LoopsTypeOK ==
    /\ call \in [Slots -> CallState]
    /\ \A c \in Slots :
         CASE call[c].loop = "refine" -> call[c].round <= RefineRounds /\ call[c].version <= call[c].round
           [] call[c].loop = "cove"   -> Len(call[c].verdicts) <= call[c].round
           [] call[c].loop = "react"  -> call[c].round <= MaxSteps
           [] call[c].loop = "retry"  -> call[c].round <= MaxAttempts
           [] OTHER -> call[c].round <= IF RepairRounds > 1 THEN RepairRounds ELSE 1

(* An answer that refine.py calls converged is one it has scored: an       *)
(* improvement that was accepted goes through another round first.         *)
ConvergedWasScored ==
    \A c \in Slots : (call[c].loop = "refine" /\ call[c].converged) =>
        call[c].scored = call[c].version
=============================================================================
