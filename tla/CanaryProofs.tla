---------------------------- MODULE CanaryProofs ----------------------------
(***************************************************************************)
(* Theorems about Canary and the loops of LlmLoops, for every finite set   *)
(* of threads, every bound of the loops, every window and every limit.     *)
(***************************************************************************)
EXTENDS Canary, FiniteSetTheorems, SequenceTheorems, TLAPS

-----------------------------------------------------------------------------
(* A call, by the loop it runs: the room that is left in its bound, and,   *)
(* for a refinement, which version the last score was of.                  *)
RefineOK(s) ==
    /\ s.pc \in {"idle", "begin", "critique", "improve", "done"}
    /\ s.round <= RefineRounds /\ s.version <= s.round
    /\ s.pc \in {"idle", "begin"} => s.round < RefineRounds
    /\ s.pc \in {"critique", "improve"} => s.scored = s.version /\ s.version < s.round
    /\ s.pc \in {"idle", "begin", "improve"} => ~s.converged
    /\ s.converged => s.scored = s.version

CoveOK(s) ==
    /\ s.pc \in {"idle", "begin", "verify", "done"}
    /\ Len(s.verdicts) <= s.round
    /\ s.pc \in {"idle", "begin"} => Len(s.verdicts) = 0
    /\ s.pc = "verify" => Len(s.verdicts) < s.round

ReactOK(s) ==
    /\ s.pc \in {"idle", "begin", "done", "raised"}
    /\ s.round <= MaxSteps

RetryOK(s) ==
    /\ s.pc \in {"idle", "begin", "done", "raised"}
    /\ s.round <= MaxAttempts
    /\ s.pc \in {"idle", "begin"} => s.round < MaxAttempts

RepairOK(s) ==
    /\ s.pc \in {"idle", "begin", "round", "done"}
    /\ s.round <= IF RepairRounds > 1 THEN RepairRounds ELSE 1
    /\ s.pc \in {"idle", "begin", "round"} => s.round <= RepairRounds

LoopOK(s) ==
    /\ s \in CallState
    /\ s.loop = "refine" => RefineOK(s)
    /\ s.loop = "cove" => CoveOK(s)
    /\ s.loop = "react" => ReactOK(s)
    /\ s.loop = "retry" => RetryOK(s)
    /\ s.loop \in Strategies => RepairOK(s)

LEMMA LoopsApart ==
    /\ AllLoops = {"refine", "cove", "react", "retry", "append_note", "hyde_rewrite",
                   "strict_cite", "full_loop"}
    /\ Strategies = {"append_note", "hyde_rewrite", "strict_cite", "full_loop"}
  BY DEF AllLoops, Strategies

LEMMA IdleOK ==
    ASSUME NEW loop \in AllLoops
    PROVE  LoopOK(Idle(loop)) /\ Idle(loop).pc = "idle"
  <1>1. <<>> \in Seq(BOOLEAN) /\ Len(<<>>) = 0
    OBVIOUS
  <1>2. Idle(loop) \in CallState
    BY <1>1 DEF Idle, CallState, PC
  <1>3. QED
    BY <1>1, <1>2, LoopsApart, LoopsAssumption
       DEF Idle, LoopOK, RefineOK, CoveOK, ReactOK, RetryOK, RepairOK

(* A thread that starts its loop.                                          *)
LEMMA BeginOK ==
    ASSUME NEW s, LoopOK(s), s.pc = "idle"
    PROVE  LoopOK([s EXCEPT !.pc = "begin"]) /\ [s EXCEPT !.pc = "begin"].pc = "begin"
  <1>1. PICK to : to = [s EXCEPT !.pc = "begin"]
    OBVIOUS
  <1>2. /\ to \in CallState /\ to.pc = "begin" /\ to.loop = s.loop /\ to.round = s.round
        /\ to.version = s.version /\ to.scored = s.scored /\ to.converged = s.converged
        /\ to.verdicts = s.verdicts
    BY <1>1 DEF LoopOK, CallState, PC
  <1>3. QED
    BY <1>1, <1>2 DEF LoopOK, RefineOK, CoveOK, ReactOK, RetryOK, RepairOK

-----------------------------------------------------------------------------
(* The loops, one after the other: a step takes the thread's call to one   *)
(* that is in order again, and leaves the other threads' calls alone.      *)
CallTo(c, to) == call' = [call EXCEPT ![c] = to] /\ LoopOK(to)

LEMMA RefineStep ==
    ASSUME call \in [Slots -> CallState], NEW c \in Slots, LoopOK(call[c]), Refine(c)
    PROVE  \E to : CallTo(c, to) /\ to.pc # "idle"
  <1> DEFINE s == call[c]
  <1>1. s \in CallState /\ s.loop = "refine" /\ RefineOK(s)
    BY DEF Refine, RefineScore, RefineCritique, RefineImprove, At, LoopOK
  <1>2. RefineRounds \in Nat /\ s.round \in Nat /\ s.version \in Nat /\ s.scored \in Nat
    BY <1>1, LoopsAssumption DEF CallState
  <1>3. ASSUME NEW good \in BOOLEAN, RefineScore(c, good)
        PROVE  \E to : CallTo(c, to) /\ to.pc # "idle"
    <2>1. PICK pc : pc = IF good THEN "done" ELSE "critique"
      OBVIOUS
    <2>2. PICK to : to = [s EXCEPT !.round = s.round + 1, !.scored = s.version, !.converged = good, !.pc = pc]
      OBVIOUS
    <2>3. call' = [call EXCEPT ![c] = to]
      BY <1>1, <1>3, <2>1, <2>2 DEF RefineScore, CallState
    <2>4. pc \in PC /\ s.round + 1 \in Nat
      BY <1>2, <2>1 DEF PC
    <2>5. /\ to \in CallState /\ to.pc = pc /\ to.loop = s.loop /\ to.round = s.round + 1
          /\ to.version = s.version /\ to.scored = s.version /\ to.converged = good
      BY <1>1, <1>2, <2>2, <2>4 DEF CallState
    <2>6. s.pc = "begin"
      BY <1>3 DEF RefineScore, At
    <2>7. RefineOK(to)
      BY <1>1, <1>2, <2>1, <2>5, <2>6 DEF RefineOK
    <2>8. QED
      BY <1>1, <2>1, <2>3, <2>5, <2>7, LoopsApart DEF LoopOK, CallTo
  <1>4. ASSUME NEW issues \in BOOLEAN, RefineCritique(c, issues)
        PROVE  \E to : CallTo(c, to) /\ to.pc # "idle"
    <2>1. PICK pc : pc = IF issues THEN "improve" ELSE "done"
      OBVIOUS
    <2>2. PICK converged \in BOOLEAN : converged = ~issues
      OBVIOUS
    <2>3. PICK to : to = [s EXCEPT !.converged = converged, !.pc = pc]
      OBVIOUS
    <2>4. call' = [call EXCEPT ![c] = to]
      BY <1>1, <1>4, <2>1, <2>2, <2>3 DEF RefineCritique, CallState
    <2>5. pc \in PC
      BY <2>1 DEF PC
    <2>6. /\ to \in CallState /\ to.pc = pc /\ to.loop = s.loop /\ to.round = s.round
          /\ to.version = s.version /\ to.scored = s.scored /\ to.converged = converged
      BY <1>1, <2>3, <2>5 DEF CallState
    <2>7. s.pc = "critique"
      BY <1>4 DEF RefineCritique, At
    <2>8. RefineOK(to)
      BY <1>1, <1>2, <2>1, <2>2, <2>6, <2>7 DEF RefineOK
    <2>9. QED
      BY <1>1, <2>1, <2>4, <2>6, <2>8, LoopsApart DEF LoopOK, CallTo
  <1>5. ASSUME NEW text \in {"blank", "similar", "new"}, RefineImprove(c, text)
        PROVE  \E to : CallTo(c, to) /\ to.pc # "idle"
    <2>1. PICK to : to = Improved(s, text)
      OBVIOUS
    <2>2. call' = [call EXCEPT ![c] = to] /\ s.pc = "improve"
      BY <1>5, <2>1 DEF RefineImprove, At
    <2>3. NextRound(s) \in {"begin", "done"} /\ (NextRound(s) = "begin" => s.round < RefineRounds)
      BY DEF NextRound
    <2>4. CASE text = "blank"
      <3>1. to = [s EXCEPT !.pc = "done"]
        BY <2>1, <2>4 DEF Improved
      <3>2. /\ to \in CallState /\ to.pc = "done" /\ to.loop = s.loop /\ to.round = s.round
            /\ to.version = s.version /\ to.scored = s.scored /\ to.converged = s.converged
        BY <1>1, <3>1 DEF CallState, PC
      <3>3. RefineOK(to)
        BY <1>1, <1>2, <2>2, <3>2 DEF RefineOK
      <3>4. QED
        BY <1>1, <2>2, <3>2, <3>3, LoopsApart DEF LoopOK, CallTo
    <2>5. CASE text = "similar"
      <3>1. to = [s EXCEPT !.converged = TRUE, !.pc = "done"]
        BY <2>1, <2>5 DEF Improved
      <3>2. /\ to \in CallState /\ to.pc = "done" /\ to.loop = s.loop /\ to.round = s.round
            /\ to.version = s.version /\ to.scored = s.scored
        BY <1>1, <3>1 DEF CallState, PC
      <3>3. RefineOK(to)
        BY <1>1, <1>2, <2>2, <3>2 DEF RefineOK
      <3>4. QED
        BY <1>1, <2>2, <3>2, <3>3, LoopsApart DEF LoopOK, CallTo
    <2>6. CASE text = "new"
      <3>1. to = [s EXCEPT !.version = s.version + 1, !.pc = NextRound(s)]
        BY <2>1, <2>6 DEF Improved
      <3>2. NextRound(s) \in PC /\ s.version + 1 \in Nat
        BY <1>2, <2>3 DEF PC
      <3>3. /\ to \in CallState /\ to.pc = NextRound(s) /\ to.loop = s.loop /\ to.round = s.round
            /\ to.version = s.version + 1 /\ to.scored = s.scored /\ to.converged = s.converged
        BY <1>1, <3>1, <3>2 DEF CallState
      <3>4. RefineOK(to)
        BY <1>1, <1>2, <2>2, <2>3, <3>3 DEF RefineOK
      <3>5. QED
        BY <1>1, <2>2, <2>3, <3>3, <3>4, LoopsApart DEF LoopOK, CallTo
    <2>7. QED
      BY <2>4, <2>5, <2>6
  <1>6. QED
    BY <1>3, <1>4, <1>5 DEF Refine

LEMMA CoveStep ==
    ASSUME call \in [Slots -> CallState], NEW c \in Slots, LoopOK(call[c]), Cove(c)
    PROVE  \E to : CallTo(c, to) /\ to.pc # "idle"
  <1> DEFINE s == call[c]
  <1>1. s \in CallState /\ s.loop = "cove" /\ CoveOK(s)
    <2>1. \A n : CoveQuestions(c, n) => At(c, "cove", "begin")
      BY DEF CoveQuestions
    <2>2. \A v : CoveAnswer(c, v) => At(c, "cove", "verify")
      BY DEF CoveAnswer
    <2>3. At(c, "cove", "begin") \/ At(c, "cove", "verify")
      BY <2>1, <2>2 DEF Cove
    <2>4. QED
      BY <2>3 DEF At, LoopOK
  <1>2. Questions \in Nat /\ s.round \in Nat /\ s.verdicts \in Seq(BOOLEAN) /\ Len(s.verdicts) \in Nat
    BY <1>1, LoopsAssumption DEF CallState
  <1>3. ASSUME NEW n \in 1..Questions, CoveQuestions(c, n)
        PROVE  \E to : CallTo(c, to) /\ to.pc # "idle"
    <2>1. PICK to : to = [s EXCEPT !.round = n, !.pc = "verify"]
      OBVIOUS
    <2>2. call' = [call EXCEPT ![c] = to]
      BY <1>1, <1>3, <2>1 DEF CoveQuestions, CallState
    <2>3. n \in Nat /\ 0 < n
      BY <1>2
    <2>4. /\ to \in CallState /\ to.pc = "verify" /\ to.loop = s.loop /\ to.round = n
          /\ to.verdicts = s.verdicts
      BY <1>1, <2>1, <2>3 DEF CallState, PC
    <2>5. s.pc = "begin"
      BY <1>3 DEF CoveQuestions, At
    <2>6. CoveOK(to)
      BY <1>1, <1>2, <2>3, <2>4, <2>5 DEF CoveOK
    <2>7. QED
      BY <1>1, <2>2, <2>4, <2>6, LoopsApart DEF LoopOK, CallTo
  <1>4. ASSUME NEW v \in Verdicts, CoveAnswer(c, v)
        PROVE  \E to : CallTo(c, to) /\ to.pc # "idle"
    <2>1. PICK vs : vs = Append(s.verdicts, Confirmed(v))
      OBVIOUS
    <2>2. Confirmed(v) \in BOOLEAN
      BY DEF Confirmed
    <2>3. vs \in Seq(BOOLEAN) /\ Len(vs) = Len(s.verdicts) + 1
      BY <1>2, <2>1, <2>2
    <2>4. PICK pc : pc = IF Len(vs) = s.round THEN "done" ELSE "verify"
      OBVIOUS
    <2>5. PICK to : to = [s EXCEPT !.verdicts = vs, !.pc = pc]
      OBVIOUS
    <2>6. call' = [call EXCEPT ![c] = to] /\ s.pc = "verify"
      BY <1>1, <1>4, <2>1, <2>4, <2>5 DEF CoveAnswer, CallState, At
    <2>7. /\ to \in CallState /\ to.pc = pc /\ to.loop = s.loop /\ to.round = s.round
          /\ to.verdicts = vs
      BY <1>1, <2>3, <2>4, <2>5 DEF CallState, PC
    <2>8. CoveOK(to)
      BY <1>1, <1>2, <2>3, <2>4, <2>6, <2>7 DEF CoveOK
    <2>9. QED
      BY <1>1, <2>4, <2>6, <2>7, <2>8, LoopsApart DEF LoopOK, CallTo
  <1>5. QED
    BY <1>3, <1>4 DEF Cove

LEMMA ReactStep ==
    ASSUME call \in [Slots -> CallState], NEW c \in Slots, LoopOK(call[c]), React(c)
    PROVE  \E to : CallTo(c, to) /\ to.pc # "idle"
  <1> DEFINE s == call[c]
  <1>1. s \in CallState /\ s.loop = "react" /\ ReactOK(s) /\ s.pc = "begin"
    BY DEF React, ReactThink, At, LoopOK
  <1>2. MaxSteps \in Nat /\ s.round \in Nat /\ s.round <= MaxSteps
    BY <1>1, LoopsAssumption DEF CallState, ReactOK
  <1>3. ASSUME NEW to, call' = [call EXCEPT ![c] = to], to \in CallState, to.loop = s.loop,
               to.pc \in {"begin", "done", "raised"}, to.round <= MaxSteps
        PROVE  CallTo(c, to) /\ to.pc # "idle"
    <2>1. ReactOK(to)
      BY <1>3 DEF ReactOK
    <2>2. LoopOK(to)
      BY <1>1, <1>3, <2>1, LoopsApart DEF LoopOK
    <2>3. QED
      BY <1>3, <2>2 DEF CallTo
  <1>4. PICK plan \in {"final", "tool", "raises"} : ReactThink(c, plan)
    BY DEF React
  <1>5. CASE s.round < MaxSteps
    <2>1. PICK pc : pc = CASE plan = "final" -> "done"
                           [] plan = "raises" -> "raised"
                           [] plan = "tool" -> "begin"
      OBVIOUS
    <2>2. PICK round : round = IF plan = "tool" THEN s.round + 1 ELSE s.round
      OBVIOUS
    <2>3. PICK to : to = [s EXCEPT !.round = round, !.pc = pc]
      OBVIOUS
    <2>4. call' = [call EXCEPT ![c] = to]
      BY <1>1, <1>4, <1>5, <2>1, <2>2, <2>3 DEF ReactThink, CallState
    <2>5. pc \in {"begin", "done", "raised"} /\ pc \in PC
      BY <1>4, <2>1 DEF PC
    <2>6. round \in Nat /\ round <= MaxSteps
      BY <1>2, <1>5, <2>2
    <2>7. to \in CallState /\ to.pc = pc /\ to.loop = s.loop /\ to.round = round
      BY <1>1, <2>3, <2>5, <2>6 DEF CallState
    <2>8. QED
      BY <1>3, <2>4, <2>5, <2>6, <2>7
  <1>6. CASE ~(s.round < MaxSteps)
    <2>1. PICK pc \in {"raised", "done"} : call' = [call EXCEPT ![c].pc = pc]
      BY <1>4, <1>6 DEF ReactThink
    <2>2. PICK to : to = [s EXCEPT !.pc = pc]
      OBVIOUS
    <2>3. call' = [call EXCEPT ![c] = to]
      BY <2>1, <2>2
    <2>4. to \in CallState /\ to.pc = pc /\ to.loop = s.loop /\ to.round = s.round
      BY <1>1, <2>2 DEF CallState, PC
    <2>5. QED
      BY <1>2, <1>3, <2>1, <2>3, <2>4
  <1>7. QED
    BY <1>5, <1>6

LEMMA AttemptStep ==
    ASSUME call \in [Slots -> CallState], NEW c \in Slots, LoopOK(call[c]),
           NEW works \in BOOLEAN, Attempt(c, works)
    PROVE  \E to : CallTo(c, to) /\ to.pc # "idle"
  <1> DEFINE s == call[c]
  <1>1. s \in CallState /\ s.loop = "retry" /\ RetryOK(s) /\ s.pc = "begin"
    BY DEF Attempt, At, LoopOK
  <1>2. MaxAttempts \in Nat /\ s.round \in Nat /\ s.round < MaxAttempts
    BY <1>1, LoopsAssumption DEF CallState, RetryOK
  <1>3. PICK n : n = s.round + 1
    OBVIOUS
  <1>4. n \in Nat /\ n <= MaxAttempts
    BY <1>2, <1>3
  <1>5. PICK pc : pc = IF works THEN "done" ELSE IF n < MaxAttempts THEN "begin" ELSE "raised"
    OBVIOUS
  <1>6. pc \in {"begin", "done", "raised"} /\ pc \in PC /\ (pc = "begin" => n < MaxAttempts)
    BY <1>5 DEF PC
  <1>7. PICK to : to = [s EXCEPT !.round = n, !.pc = pc]
    OBVIOUS
  <1>8. call' = [call EXCEPT ![c] = to]
    BY <1>1, <1>3, <1>5, <1>7 DEF Attempt, CallState
  <1>9. to \in CallState /\ to.pc = pc /\ to.loop = s.loop /\ to.round = n
    BY <1>1, <1>4, <1>6, <1>7 DEF CallState
  <1>10. RetryOK(to)
    BY <1>4, <1>6, <1>9 DEF RetryOK
  <1>11. LoopOK(to)
    BY <1>1, <1>9, <1>10, LoopsApart DEF LoopOK
  <1>12. QED
    BY <1>6, <1>8, <1>9, <1>11 DEF CallTo

LEMMA RepairStep ==
    ASSUME call \in [Slots -> CallState], NEW c \in Slots, LoopOK(call[c]), Repair(c)
    PROVE  \E to : CallTo(c, to) /\ to.pc # "idle"
  <1> DEFINE s == call[c]
             Allowed == IF RepairRounds > 1 THEN RepairRounds ELSE 1
  <1>1. s \in CallState /\ RepairRounds \in Nat /\ s.round \in Nat /\ s.loop \in AllLoops
    BY LoopsAssumption DEF LoopOK, CallState
  <1>2. s.loop \in Strategies
    <2>1. CASE s.pc = "round"
      BY <1>1, <2>1, LoopsApart DEF LoopOK, RefineOK, CoveOK, ReactOK, RetryOK
    <2>2. CASE s.loop \in {"append_note", "strict_cite", "hyde_rewrite", "full_loop"}
      BY <2>2, LoopsApart
    <2>3. AppendNote(c) => s.loop = "append_note"
      BY DEF AppendNote, At
    <2>4. /\ StrictCite(c) => s.loop = "strict_cite"
          /\ \A found, text : /\ HydeRewrite(c, found, text) => s.loop = "hyde_rewrite"
                              /\ RepairRound(c, found, text) => s.loop = "full_loop" \/ s.pc = "round"
      BY DEF StrictCite, HydeRewrite, RepairRound, At
    <2>5. QED
      BY <2>1, <2>2, <2>3, <2>4 DEF Repair
  <1>3. RepairOK(s)
    BY <1>2 DEF LoopOK
  <1>4. ASSUME NEW to, to \in CallState, call' = [call EXCEPT ![c] = to], to.loop = s.loop,
               to.pc \in {"done", "round"}, to.round <= Allowed,
               to.pc = "round" => to.round <= RepairRounds
        PROVE  CallTo(c, to) /\ to.pc # "idle"
    <2>1. RepairOK(to)
      BY <1>4 DEF RepairOK
    <2>2. LoopOK(to)
      BY <1>2, <1>4, <2>1, LoopsApart DEF LoopOK
    <2>3. QED
      BY <1>4, <2>2 DEF CallTo
  <1> HIDE DEF Allowed
  <1>5. \A n \in Nat : n <= RepairRounds => n <= Allowed
    BY <1>1 DEF Allowed
  <1>6. 1 <= Allowed
    BY <1>1 DEF Allowed
  <1>7. ASSUME NEW pc \in {"done", "round"}, Goto(c, pc), s.round <= RepairRounds
        PROVE  \E to : CallTo(c, to) /\ to.pc # "idle"
    <2>1. PICK to : to = [s EXCEPT !.pc = pc]
      OBVIOUS
    <2>2. call' = [call EXCEPT ![c] = to]
      BY <1>1, <1>7, <2>1 DEF Goto, CallState
    <2>3. to \in CallState /\ to.pc = pc /\ to.loop = s.loop /\ to.round = s.round
      BY <1>1, <2>1 DEF CallState, PC
    <2>4. QED
      BY <1>1, <1>4, <1>7, <1>5, <2>2, <2>3
  <1>8. CASE AppendNote(c)
    BY <1>3, <1>7, <1>8 DEF AppendNote, At, RepairOK
  <1>9. CASE StrictCite(c)
    BY <1>3, <1>7, <1>9 DEF StrictCite, At, RepairOK
  <1>10. ASSUME NEW found \in BOOLEAN, NEW text \in Texts, HydeRewrite(c, found, text)
         PROVE  \E to : CallTo(c, to) /\ to.pc # "idle"
    <2>1. CASE found /\ text # "empty"
      <3>1. PICK to : to = [s EXCEPT !.pc = "done", !.round = 1]
        OBVIOUS
      <3>2. call' = [call EXCEPT ![c] = to]
        BY <1>1, <1>10, <2>1, <3>1 DEF HydeRewrite, CallState
      <3>3. 1 \in Nat
        OBVIOUS
      <3>4. to \in CallState /\ to.pc = "done" /\ to.loop = s.loop /\ to.round = 1
        BY <1>1, <3>1, <3>3 DEF CallState, PC
      <3>5. 1 <= Allowed
        BY <1>6
      <3>6. QED
        BY <1>4, <3>2, <3>4, <3>5
    <2>2. CASE ~(found /\ text # "empty")
      BY <1>3, <1>7, <1>10, <2>2 DEF HydeRewrite, At, RepairOK
    <2>3. QED
      BY <2>1, <2>2
  <1>11. ASSUME NEW found \in BOOLEAN, NEW text \in Texts, RepairRound(c, found, text)
         PROVE  \E to : CallTo(c, to) /\ to.pc # "idle"
    <2>1. s.round <= RepairRounds
      BY <1>3, <1>11 DEF RepairRound, At, RepairOK
    <2>2. CASE s.round = RepairRounds
      BY <1>7, <1>11, <2>1, <2>2 DEF RepairRound
    <2>3. CASE s.round # RepairRounds /\ found /\ text = "long"
      <3>1. PICK to : to = [s EXCEPT !.pc = "done", !.round = s.round + 1]
        OBVIOUS
      <3>2. call' = [call EXCEPT ![c] = to]
        BY <1>1, <1>11, <2>3, <3>1 DEF RepairRound, CallState
      <3>3. s.round + 1 \in Nat
        BY <1>1
      <3>4. to \in CallState /\ to.pc = "done" /\ to.loop = s.loop /\ to.round = s.round + 1
        BY <1>1, <3>1, <3>3 DEF CallState, PC
      <3>5. s.round + 1 <= Allowed
        BY <1>1, <1>5, <2>1, <2>3
      <3>6. QED
        BY <1>4, <3>2, <3>4, <3>5
    <2>4. CASE s.round # RepairRounds /\ ~(found /\ text = "long")
      <3>1. PICK to : to = [s EXCEPT !.pc = "round", !.round = s.round + 1]
        OBVIOUS
      <3>2. call' = [call EXCEPT ![c] = to]
        BY <1>11, <2>4, <3>1 DEF RepairRound, Spent
      <3>3. s.round + 1 \in Nat /\ s.round + 1 <= RepairRounds
        BY <1>1, <2>1, <2>4
      <3>4. to \in CallState /\ to.pc = "round" /\ to.loop = s.loop /\ to.round = s.round + 1
        BY <1>1, <3>1, <3>3 DEF CallState, PC
      <3>5. to.round <= Allowed
        BY <1>5, <3>3, <3>4
      <3>6. QED
        BY <1>4, <3>2, <3>3, <3>4, <3>5
    <2>5. QED
      BY <2>2, <2>3, <2>4
  <1>12. QED
    BY <1>8, <1>9, <1>10, <1>11 DEF Repair

-----------------------------------------------------------------------------
(* All threads, and the shadows beside them.                               *)
Calls == call \in [Slots -> CallState] /\ \A c \in Slots : LoopOK(call[c])

Shadows ==
    /\ shadow \in [Slots -> ShadowPC]
    /\ \A c \in Slots : shadow[c] # "running" => call[c].pc = "idle"

LEMMA LoopStepOK ==
    ASSUME Calls, NEW c \in Slots, LoopStep(c)
    PROVE  \E to : CallTo(c, to) /\ to.pc # "idle"
  <1>1. call \in [Slots -> CallState] /\ LoopOK(call[c])
    BY DEF Calls
  <1>2. QED
    BY <1>1, RefineStep, CoveStep, ReactStep, RepairStep, AttemptStep DEF LoopStep

LEMMA CallsAfter ==
    ASSUME Calls, NEW c \in Slots, NEW to, CallTo(c, to)
    PROVE  Calls' /\ call'[c] = to /\ \A k \in Slots \ {c} : call'[k] = call[k]
  <1>1. to \in CallState
    BY DEF CallTo, LoopOK
  <1>2. QED
    BY <1>1 DEF Calls, CallTo

LEMMA InitCalls == Init => Calls /\ Shadows
  <1> SUFFICES ASSUME Init PROVE Calls /\ Shadows
    OBVIOUS
  <1>1. PICK l \in Runs : call = [c \in Slots |-> Idle(l[c])]
    BY DEF Init
  <1>2. \A c \in Slots : LoopOK(Idle(l[c])) /\ Idle(l[c]).pc = "idle"
    BY IdleOK DEF Runs
  <1>3. \A c \in Slots : Idle(l[c]) \in CallState
    BY <1>2 DEF LoopOK
  <1>4. QED
    BY <1>1, <1>2, <1>3 DEF Init, Calls, Shadows, ShadowPC

LEMMA StepCalls == Calls /\ Shadows /\ [Next]_vars => Calls' /\ Shadows'
  <1> SUFFICES ASSUME Calls, Shadows, [Next]_vars PROVE Calls' /\ Shadows'
    OBVIOUS
  <1>1. ASSUME NEW c \in Slots, Check(c) PROVE Calls' /\ Shadows'
    BY <1>1 DEF Check, Calls, Shadows, ShadowPC
  <1>2. ASSUME NEW c \in Slots, StartShadow(c) PROVE Calls' /\ Shadows'
    <2>1. PICK to : to = [call[c] EXCEPT !.pc = "begin"]
      OBVIOUS
    <2>2. LoopOK(call[c]) /\ call[c].pc = "idle"
      BY <1>2 DEF StartShadow, Calls, Shadows
    <2>3. LoopOK(to)
      BY <2>1, <2>2, BeginOK
    <2>4. call' = [call EXCEPT ![c] = to]
      BY <1>2, <2>1 DEF StartShadow, Goto
    <2>5. Calls' /\ \A k \in Slots \ {c} : call'[k] = call[k]
      BY <2>3, <2>4, CallsAfter DEF CallTo
    <2>6. QED
      BY <1>2, <2>5 DEF StartShadow, Shadows, ShadowPC
  <1>3. ASSUME NEW c \in Slots, RunShadow(c) PROVE Calls' /\ Shadows'
    <2>1. PICK to : CallTo(c, to)
      BY <1>3, LoopStepOK DEF RunShadow
    <2>2. Calls' /\ \A k \in Slots \ {c} : call'[k] = call[k]
      BY <2>1, CallsAfter
    <2>3. QED
      BY <1>3, <2>2 DEF RunShadow, Shadows
  <1>4. ASSUME NEW c \in Slots, Record(c) PROVE Calls' /\ Shadows'
    <2>1. PICK l \in Loops[c] : call' = [call EXCEPT ![c] = Idle(l)]
      BY <1>4 DEF Record
    <2>2. LoopOK(Idle(l)) /\ Idle(l).pc = "idle"
      BY <2>1, LoopsAssumption, IdleOK
    <2>3. Calls' /\ call'[c] = Idle(l) /\ \A k \in Slots \ {c} : call'[k] = call[k]
      BY <2>1, <2>2, CallsAfter DEF CallTo
    <2>4. QED
      BY <1>4, <2>2, <2>3 DEF Record, Shadows, ShadowPC
  <1>5. CASE Tick
    BY <1>5 DEF Tick, Calls, Shadows
  <1>6. CASE UNCHANGED vars
    BY <1>6 DEF vars, Calls, Shadows
  <1>7. QED
    BY <1>1, <1>2, <1>3, <1>4, <1>5, <1>6 DEF Next

LEMMA CallsAreTyped == Calls => LoopsTypeOK
  <1> SUFFICES ASSUME Calls PROVE LoopsTypeOK
    OBVIOUS
  <1>1. ASSUME NEW c \in Slots
        PROVE  CASE call[c].loop = "refine" -> /\ call[c].round <= RefineRounds
                                               /\ call[c].version <= call[c].round
                 [] call[c].loop = "cove"   -> Len(call[c].verdicts) <= call[c].round
                 [] call[c].loop = "react"  -> call[c].round <= MaxSteps
                 [] call[c].loop = "retry"  -> call[c].round <= MaxAttempts
                 [] OTHER -> call[c].round <= IF RepairRounds > 1 THEN RepairRounds ELSE 1
    <2> DEFINE s == call[c]
    <2>1. LoopOK(s) /\ s.loop \in AllLoops
      BY DEF Calls, CallState
    <2>2. CASE s.loop = "refine"
      BY <2>1, <2>2 DEF LoopOK, RefineOK
    <2>3. CASE s.loop = "cove"
      BY <2>1, <2>3 DEF LoopOK, CoveOK
    <2>4. CASE s.loop = "react"
      BY <2>1, <2>4 DEF LoopOK, ReactOK
    <2>5. CASE s.loop = "retry"
      BY <2>1, <2>5 DEF LoopOK, RetryOK
    <2>6. CASE s.loop \in Strategies
      <3>1. s.round <= IF RepairRounds > 1 THEN RepairRounds ELSE 1
        BY <2>1, <2>6 DEF LoopOK, RepairOK
      <3>2. s.loop \notin {"refine", "cove", "react", "retry"}
        BY <2>6, LoopsApart
      <3>3. QED
        BY <3>1, <3>2
    <2>7. QED
      BY <2>1, <2>2, <2>3, <2>4, <2>5, <2>6, LoopsApart
  <1>2. QED
    BY <1>1 DEF Calls, LoopsTypeOK

(* An answer that a refinement calls converged is one it has scored,       *)
(* whatever the critic, the improver and the threshold say: an improvement *)
(* that was accepted goes through another round first.                     *)
THEOREM RefinementsScored == Spec => []ConvergedWasScored
  <1>1. Calls => ConvergedWasScored
    BY DEF Calls, LoopOK, RefineOK, ConvergedWasScored
  <1>2. QED
    BY <1>1, InitCalls, StepCalls, PTL DEF Spec

-----------------------------------------------------------------------------
(* The window of errors.                                                   *)
Ages == Seq(0..Window)
RecentAt(es) == {i \in DOMAIN es : es[i] < Window}

LEMMA RecentCount ==
    ASSUME NEW es \in Ages
    PROVE  /\ IsFiniteSet(RecentAt(es)) /\ Recent(es) = Cardinality(RecentAt(es))
           /\ Recent(es) \in Nat /\ Len(es) \in Nat /\ Recent(es) <= Len(es)
  <1>1. Len(es) \in Nat /\ DOMAIN es = 1..Len(es) /\ RecentAt(es) \subseteq 1..Len(es)
    BY DEF Ages, RecentAt
  <1>2. IsFiniteSet(1..Len(es)) /\ Cardinality(1..Len(es)) = Len(es)
    <2>1. PICK n \in Nat : n = Len(es)
      BY <1>1
    <2>2. IsFiniteSet(1..n) /\ Cardinality(1..n) = IF 1 > n THEN 0 ELSE n - 1 + 1
      BY FS_Interval
    <2>3. QED
      BY <2>1, <2>2
  <1>3. /\ IsFiniteSet(RecentAt(es)) /\ Cardinality(RecentAt(es)) <= Len(es)
        /\ Cardinality(RecentAt(es)) \in Nat
    BY <1>1, <1>2, FS_Subset, FS_CardinalityType
  <1>4. Recent(es) = Cardinality(RecentAt(es))
    BY DEF Recent, RecentAt
  <1>5. QED
    BY <1>1, <1>3, <1>4

LEMMA RecentAppended ==
    ASSUME NEW es \in Ages
    PROVE  /\ Append(es, 0) \in Ages /\ Recent(Append(es, 0)) = Recent(es) + 1
           /\ OldestFirst(es) => OldestFirst(Append(es, 0))
  <1> DEFINE more == Append(es, 0)
  <1>1. Window \in Nat /\ 0 < Window
    BY CanaryAssumption
  <1>2. /\ more \in Ages /\ Len(more) = Len(es) + 1 /\ DOMAIN more = 1..(Len(es) + 1)
        /\ more[Len(es) + 1] = 0 /\ \A i \in 1..Len(es) : more[i] = es[i]
    BY <1>1 DEF Ages
  <1>3. Len(es) \in Nat /\ DOMAIN es = 1..Len(es) /\ \A i \in DOMAIN es : es[i] \in 0..Window
    BY <1>1 DEF Ages
  <1> HIDE DEF more
  <1>4. RecentAt(more) = RecentAt(es) \union {Len(es) + 1} /\ Len(es) + 1 \notin RecentAt(es)
    BY <1>1, <1>2, <1>3 DEF RecentAt
  <1>5. Cardinality(RecentAt(more)) = Cardinality(RecentAt(es)) + 1
    BY <1>4, RecentCount, FS_AddElement
  <1>6. Recent(more) = Recent(es) + 1
    BY <1>2, <1>5, RecentCount
  <1>7. ASSUME OldestFirst(es) PROVE OldestFirst(more)
    BY <1>1, <1>2, <1>3, <1>7 DEF OldestFirst
  <1>8. QED
    BY <1>2, <1>6, <1>7 DEF more

(* What is pruned is at the front: in a window that is in order of time,   *)
(* the recent errors are those after the first Len - Recent ones.          *)
LEMMA PrunedAreOld ==
    ASSUME NEW es \in Ages, OldestFirst(es)
    PROVE  RecentAt(es) = (Len(es) - Recent(es) + 1)..Len(es)
  <1> DEFINE suffix == (Len(es) - Recent(es) + 1)..Len(es)
  <1>1. /\ Len(es) \in Nat /\ DOMAIN es = 1..Len(es) /\ Window \in Nat
        /\ \A i \in DOMAIN es : es[i] \in 0..Window
    BY CanaryAssumption DEF Ages
  <1>2. Recent(es) \in Nat /\ Recent(es) <= Len(es) /\ IsFiniteSet(RecentAt(es))
        /\ Recent(es) = Cardinality(RecentAt(es))
    BY RecentCount
  <1>3. suffix \subseteq 1..Len(es) /\ IsFiniteSet(suffix) /\ Cardinality(suffix) = Recent(es)
    <2>1. PICK a \in Int : a = Len(es) - Recent(es) + 1
      BY <1>1, <1>2
    <2>2. PICK b \in Nat : b = Len(es)
      BY <1>1
    <2>3. IsFiniteSet(a..b) /\ Cardinality(a..b) = IF a > b THEN 0 ELSE b - a + 1
      BY FS_Interval
    <2>4. (IF a > b THEN 0 ELSE b - a + 1) = Recent(es)
      BY <1>1, <1>2, <2>1, <2>2
    <2>5. QED
      BY <1>1, <1>2, <2>1, <2>2, <2>3, <2>4
  <1>4. \A i \in RecentAt(es), j \in 1..Len(es) : i <= j => j \in RecentAt(es)
    BY <1>1 DEF RecentAt, OldestFirst
  <1>5. CASE RecentAt(es) \subseteq suffix
    BY <1>2, <1>3, <1>5, FS_Subset
  <1>6. CASE ~(RecentAt(es) \subseteq suffix)
    <2>1. PICK i \in RecentAt(es) : i \notin suffix
      BY <1>6
    <2>2. i \in 1..Len(es)
      BY <1>1 DEF RecentAt
    <2>3. i < Len(es) - Recent(es) + 1
      BY <1>1, <1>2, <2>1, <2>2
    <2>4. suffix \subseteq RecentAt(es)
      BY <1>1, <1>2, <1>3, <1>4, <2>2, <2>3
    <2>5. suffix = RecentAt(es)
      BY <1>2, <1>3, <2>4, FS_Subset
    <2>6. QED
      BY <2>1, <2>5
  <1>7. QED
    BY <1>5, <1>6

LEMMA PrunedBounded ==
    ASSUME NEW es \in Ages
    PROVE  /\ Pruned(es) \in Ages /\ Recent(Pruned(es)) <= Recent(es)
           /\ OldestFirst(es) => OldestFirst(Pruned(es))
  <1>1. Recent(es) \in Nat /\ Len(es) \in Nat /\ Recent(es) <= Len(es) /\ es \in Seq(0..Window)
    BY RecentCount DEF Ages
  <1>2. PICK m \in Nat : m = Len(es) - Recent(es) + 1
    BY <1>1
  <1>3. PICK n \in Nat : n = Len(es)
    BY <1>1
  <1>4. /\ Pruned(es) \in Seq(0..Window)
        /\ Len(Pruned(es)) = IF m <= n THEN n - m + 1 ELSE 0
        /\ \A i \in 1..(n - m + 1) : Pruned(es)[i] = es[m + i - 1]
    <2>1. \A i \in m..n : es[i] \in 0..Window
      <3>1. 1 <= m
        BY <1>1, <1>2
      <3>2. DOMAIN es = 1..n /\ \A i \in 1..n : es[i] \in 0..Window
        BY <1>1, <1>3, CanaryAssumption
      <3>3. QED
        BY <1>2, <1>3, <3>1, <3>2
    <2>2. Pruned(es) = SubSeq(es, m, n)
      BY <1>2, <1>3 DEF Pruned
    <2>3. QED
      BY <2>1, <2>2, SubSeqProperties
  <1>5. Pruned(es) \in Ages /\ Len(Pruned(es)) = Recent(es)
    BY <1>1, <1>2, <1>3, <1>4 DEF Ages
  <1>6. Recent(Pruned(es)) <= Recent(es)
    BY <1>5, RecentCount
  <1>7. ASSUME OldestFirst(es) PROVE OldestFirst(Pruned(es))
    <2>1. DOMAIN Pruned(es) = 1..Recent(es) /\ DOMAIN es = 1..Len(es)
      BY <1>1, <1>5 DEF Ages
    <2>2. \A i \in 1..Recent(es) : Pruned(es)[i] = es[m + i - 1] /\ m + i - 1 \in DOMAIN es
      BY <1>1, <1>2, <1>3, <1>4, <2>1
    <2>3. \A i, j \in 1..Recent(es) : i <= j => m + i - 1 <= m + j - 1
      BY <1>1, <1>2
    <2>4. QED
      BY <1>7, <2>1, <2>2, <2>3 DEF OldestFirst
  <1>8. QED
    BY <1>5, <1>6, <1>7

LEMMA AgedBounded ==
    ASSUME NEW es \in Ages, NEW aged, aged = [i \in DOMAIN es |-> Older(es[i])]
    PROVE  /\ aged \in Ages /\ Recent(aged) <= Recent(es)
           /\ OldestFirst(es) => OldestFirst(aged)
  <1>1. /\ Len(es) \in Nat /\ DOMAIN es = 1..Len(es) /\ Window \in Nat
        /\ \A i \in DOMAIN es : es[i] \in 0..Window
    BY CanaryAssumption DEF Ages
  <1>2. \A i \in DOMAIN es : /\ aged[i] = Older(es[i]) /\ Older(es[i]) \in 0..Window
                             /\ aged[i] < Window => es[i] < Window
    BY <1>1 DEF Older
  <1>3. aged \in Ages /\ DOMAIN aged = DOMAIN es
    BY <1>1, <1>2 DEF Ages
  <1>4. RecentAt(aged) \subseteq RecentAt(es)
    BY <1>2, <1>3 DEF RecentAt
  <1>5. Recent(aged) <= Recent(es)
    BY <1>3, <1>4, RecentCount, FS_Subset
  <1>6. ASSUME OldestFirst(es) PROVE OldestFirst(aged)
    BY <1>1, <1>2, <1>3, <1>6 DEF OldestFirst, Older
  <1>7. QED
    BY <1>3, <1>5, <1>6

-----------------------------------------------------------------------------
(* The window in a state: in order of time, and with room for the errors   *)
(* of the threads that are under way.  A thread is let through below the   *)
(* limit only, and gives its place back when it records.                   *)
Active == {c \in Slots : shadow[c] # "none"}

WindowOK == errors \in Ages /\ OldestFirst(errors)
Room     == Recent(errors) + Cardinality(Active) <= MaxRecent + Cardinality(Slots)

ResultsOK == results \in Seq(BOOLEAN) /\ Len(results) <= MaxResults

LEMMA ActiveCount ==
    /\ IsFiniteSet(Active) /\ Cardinality(Active) \in Nat
    /\ Cardinality(Active) <= Cardinality(Slots) /\ Cardinality(Slots) \in Nat
  BY CanaryAssumption, FS_Subset, FS_CardinalityType DEF Active

LEMMA InitWindow == Init => WindowOK /\ Room /\ ResultsOK
  <1> SUFFICES ASSUME Init PROVE WindowOK /\ Room /\ ResultsOK
    OBVIOUS
  <1>1. errors = <<>> /\ results = <<>>
    BY DEF Init
  <1>2. WindowOK
    BY <1>1 DEF WindowOK, Ages, OldestFirst
  <1>3. ResultsOK
    BY <1>1, CanaryAssumption DEF ResultsOK
  <1>4. Recent(errors) <= 0
    BY <1>1, <1>2, RecentCount DEF WindowOK
  <1>5. Room
    BY <1>2, <1>4, ActiveCount, RecentCount, CanaryAssumption DEF Room, WindowOK
  <1>6. QED
    BY <1>2, <1>3, <1>5

(* Recording: one error more at most, and the thread is no longer active.  *)
LEMMA RecordWindow ==
    ASSUME WindowOK, Room, shadow \in [Slots -> ShadowPC], NEW c \in Slots, Record(c)
    PROVE  WindowOK' /\ Room'
  <1>1. /\ errors' = Pruned(Append(errors, 0)) \/ errors' = errors
        /\ shadow[c] = "running" /\ shadow' = [shadow EXCEPT ![c] = "none"]
    BY DEF Record
  <1>2. Active' = Active \ {c} /\ c \in Active
    BY <1>1 DEF Active
  <1>3. Cardinality(Active') = Cardinality(Active) - 1
    BY <1>2, ActiveCount, FS_RemoveElement
  <1>4. WindowOK' /\ Recent(errors') <= Recent(errors) + 1
    <2>1. CASE errors' = errors
      BY <2>1, RecentCount DEF WindowOK
    <2>2. CASE errors' = Pruned(Append(errors, 0))
      <3>1. PICK more \in Ages : /\ more = Append(errors, 0) /\ Recent(more) = Recent(errors) + 1
                                 /\ OldestFirst(more)
        BY RecentAppended DEF WindowOK
      <3>2. errors' \in Ages /\ Recent(errors') <= Recent(more) /\ OldestFirst(errors')
        BY <2>2, <3>1, PrunedBounded
      <3>3. QED
        BY <3>1, <3>2 DEF WindowOK
    <2>3. QED
      BY <1>1, <2>1, <2>2
  <1>5. Recent(errors) \in Nat /\ Recent(errors') \in Nat
    BY <1>4, RecentCount DEF WindowOK
  <1>6. Recent(errors') + Cardinality(Active') <= MaxRecent + Cardinality(Slots)
    BY <1>3, <1>4, <1>5, ActiveCount, CanaryAssumption DEF Room
  <1>7. QED
    BY <1>4, <1>6 DEF Room, Recent

LEMMA StepWindow == Shadows /\ WindowOK /\ Room /\ [Next]_vars => WindowOK' /\ Room'
  <1> SUFFICES ASSUME Shadows, WindowOK, Room, [Next]_vars PROVE WindowOK' /\ Room'
    OBVIOUS
  <1>1. shadow \in [Slots -> ShadowPC] /\ Recent(errors) \in Nat
    BY RecentCount DEF Shadows, WindowOK
  <1>2. ASSUME NEW c \in Slots, Check(c) PROVE WindowOK' /\ Room'
    <2>1. errors' = errors /\ Recent(errors) <= MaxRecent
      BY <1>1, <1>2, CanaryAssumption DEF Check, CircuitOpen
    <2>2. Active' \subseteq Slots
      BY DEF Active
    <2>3. Cardinality(Active') <= Cardinality(Slots) /\ Cardinality(Active') \in Nat
      BY <2>2, CanaryAssumption, FS_Subset, FS_CardinalityType
    <2>4. Recent(errors) + Cardinality(Active') <= MaxRecent + Cardinality(Slots)
      BY <1>1, <2>1, <2>3, ActiveCount, CanaryAssumption
    <2>5. QED
      BY <2>1, <2>4 DEF Room, WindowOK, Recent
  <1>3. ASSUME NEW c \in Slots, StartShadow(c) \/ RunShadow(c) PROVE WindowOK' /\ Room'
    <2>1. errors' = errors /\ Active' = Active
      BY <1>1, <1>3 DEF StartShadow, RunShadow, Active
    <2>2. QED
      BY <2>1 DEF Room, WindowOK, Recent
  <1>4. ASSUME NEW c \in Slots, Record(c) PROVE WindowOK' /\ Room'
    BY <1>1, <1>4, RecordWindow
  <1>5. CASE Tick
    <2>1. PICK aged : aged = [i \in DOMAIN errors |-> Older(errors[i])]
      OBVIOUS
    <2>2. errors' = aged /\ Active' = Active
      BY <1>5, <2>1 DEF Tick, Active
    <2>3. aged \in Ages /\ Recent(aged) <= Recent(errors) /\ OldestFirst(aged)
      BY <2>1, AgedBounded DEF WindowOK
    <2>4. Recent(aged) \in Nat
      BY <2>3, RecentCount
    <2>5. Recent(aged) + Cardinality(Active) <= MaxRecent + Cardinality(Slots)
      BY <1>1, <2>3, <2>4, ActiveCount, CanaryAssumption DEF Room
    <2>6. QED
      BY <2>2, <2>3, <2>5 DEF Room, WindowOK, Recent
  <1>6. CASE UNCHANGED vars
    BY <1>6 DEF vars, Room, WindowOK, Active, Recent
  <1>7. QED
    BY <1>2, <1>3, <1>4, <1>5, <1>6 DEF Next

LEMMA StepResults == ResultsOK /\ [Next]_vars => ResultsOK'
  <1> SUFFICES ASSUME ResultsOK, [Next]_vars PROVE ResultsOK'
    OBVIOUS
  <1>1. CASE results' = results
    BY <1>1 DEF ResultsOK
  <1>2. ASSUME NEW passed \in BOOLEAN, results' = Kept(Append(results, passed)) PROVE ResultsOK'
    <2>1. PICK rs : rs = Append(results, passed)
      OBVIOUS
    <2>2. rs \in Seq(BOOLEAN) /\ Len(rs) = Len(results) + 1 /\ Len(results) \in Nat
          /\ Len(results) <= MaxResults /\ MaxResults \in Nat
      BY <2>1, CanaryAssumption DEF ResultsOK
    <2>3. CASE Len(rs) > MaxResults
      <3>1. Tail(rs) \in Seq(BOOLEAN) /\ Len(Tail(rs)) = Len(rs) - 1
        BY <2>2
      <3>2. QED
        BY <1>2, <2>1, <2>2, <2>3, <3>1 DEF Kept, ResultsOK
    <2>4. CASE ~(Len(rs) > MaxResults)
      BY <1>2, <2>1, <2>2, <2>4 DEF Kept, ResultsOK
    <2>5. QED
      BY <2>3, <2>4
  <1>3. ASSUME NEW c \in Slots, Record(c) PROVE ResultsOK'
    <2>1. \E passed \in BOOLEAN : results' = Kept(Append(results, passed))
      BY <1>3 DEF Record
    <2>2. QED
      BY <1>2, <2>1
  <1>4. QED
    BY <1>1, <1>3 DEF Next, Check, StartShadow, RunShadow, Tick, vars

(* Every call keeps within the bound of its loop, a thread that is not     *)
(* running has no call, the errors are in order of time, and the results   *)
(* never grow past what the list keeps.                                    *)
THEOREM CanaryTypeCorrect == Spec => []CanaryTypeOK
  <1>1. Calls /\ Shadows /\ WindowOK /\ ResultsOK => CanaryTypeOK
    BY CallsAreTyped DEF Shadows, WindowOK, ResultsOK, Ages, CanaryTypeOK
  <1>2. QED
    BY <1>1, InitCalls, StepCalls, InitWindow, StepWindow, StepResults, PTL DEF Spec

(* The circuit is looked at once, before a shadow starts, and shadows that *)
(* were let through may still fail after it opened; whatever the order of  *)
(* checks, records and time, the window never holds more errors than its   *)
(* limit and one for each thread.                                          *)
THEOREM OvershootIsBounded == Spec => []OvershootBounded
  <1>1. WindowOK /\ Room => OvershootBounded
    BY ActiveCount, RecentCount, CanaryAssumption DEF WindowOK, Room, OvershootBounded
  <1>2. QED
    BY <1>1, InitCalls, StepCalls, InitWindow, StepWindow, PTL DEF Spec
=============================================================================
