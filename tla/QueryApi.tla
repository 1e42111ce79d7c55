------------------------------ MODULE QueryApi ------------------------------
(***************************************************************************)
(* The API server with POST /query beside POST /docs: query() of           *)
(* src/shrag/api/routes.py and the stages it runs one after the other,     *)
(* each behind a bulkhead of its own: retrieve, grade, generate, reflect   *)
(* and heal.  A query shares with the /docs requests of DocsApi the        *)
(* inflight guard and the chunk store, which it reads once.                *)
(*                                                                         *)
(* Scores are in thousandths.  A chunk's score is "good" (selected by the  *)
(* grader, 0.35 and more), "weak", or "faint" (less than 0.25, where the   *)
(* web fallback begins).  Of a text the model keeps its length, what it    *)
(* cites, whether it repeats the query, and where it comes from.  Graph    *)
(* retrieval, the synthetic fill and the oracle lanes of the evaluation    *)
(* are off by default and left out; the scale gate reads metadata that     *)
(* _build_context never sets, and so lets every query through.             *)
(***************************************************************************)
EXTENDS DocsApi

CONSTANTS Queries,      \* the POSTs to /query, each one sent at most once
          Traffic,      \* what a run posts and asks: pairs of a workload and
                        \* a function from the queries that are sent to asks
          StageLimits,  \* the settings max_<stage>_inflight a run looks at
          Modes,        \* the repair strategy, SHRAG_LLM_FALLBACK_TO_MOCK and
                        \* generate_require_evidence a run looks at
          Completions,  \* what the model may answer
          Public,       \* the tenant "public"
          Forbidden,    \* the texts that hold the word "forbidden"
          PerSource,    \* retrieval_max_chunks_per_source
          MaxAttempts,  \* max_attempts of llm.complete
          Web           \* the id "web:fallback"

Stages == {"retrieve", "grade", "generate", "reflect", "heal"}
Ask == [tenant : Tenants, flagged : BOOLEAN, about : SUBSET Texts, topK : Nat]
Strategies == {"append_note", "hyde_rewrite", "strict_cite", "full_loop"}

ASSUME QueryAssumption ==
    /\ IsFiniteSet(Queries)
    /\ \A t \in Traffic : /\ t \in Workloads \X [DOMAIN t[2] -> Ask]
                         /\ DOMAIN t[2] \subseteq Queries
    /\ StageLimits \subseteq [Stages -> Nat]
    /\ Modes \subseteq [strategy : Strategies, fallback : BOOLEAN,
                        require : BOOLEAN]
    /\ \A c \in Completions : c.length \in Nat /\ c.repeats \in BOOLEAN
    /\ Public \in Tenants /\ Web \notin Ids
    /\ MaxAttempts \in Nat \ {0}

VARIABLES mode, stageLimit, ask,  \* chosen once
          place, stage,  \* where each query is, and in or before which stage
          attempts,      \* calls of the model that failed
          chunks,        \* what retrieval, then the grader, hands on
          draft,         \* generation
          issues,        \* reflection.issues
          reply,         \* the response
          busy           \* the five stage bulkheads

queryFixed == <<mode, stageLimit, ask>>
dataVars   == <<attempts, chunks, draft, issues>>
docsVars   == <<fixed, requestVars, ingesting, tableVars, crashes, history>>
serverVars == <<vars, queryFixed, place, stage, dataVars, reply, busy>>

Place == {"start", "limit", "policy", "before", "in", "respond", "leave",
          "answered"}
NoText  == [from |-> "none", length |-> 0, cites |-> {}, repeats |-> FALSE]
NoReply == [status |-> "none", from |-> "none", cites |-> {},
            abstained |-> FALSE, confidence |-> 0]

ServerInit ==
    /\ Init
    /\ mode \in Modes /\ stageLimit \in StageLimits
    /\ \E t \in Traffic : body = t[1] /\ ask = t[2]
    /\ place = [q \in Queries |-> "start"]
    /\ stage = [q \in Queries |-> "retrieve"]
    /\ attempts = [q \in Queries |-> 0]
    /\ chunks = [q \in Queries |-> {}]
    /\ draft = [q \in Queries |-> NoText]
    /\ issues = [q \in Queries |-> {}]
    /\ reply = [q \in Queries |-> NoReply]
    /\ busy = [s \in Stages |-> 0]

-----------------------------------------------------------------------------
Move(q, p) == place' = [place EXCEPT ![q] = p]
Before(q, s) == Move(q, "before") /\ stage' = [stage EXCEPT ![q] = s]
In(q, s) == place[q] = "in" /\ stage[q] = s
Release(q) == busy' = [busy EXCEPT ![stage[q]] = Exit(@)]
Reply(q, r) == reply' = [reply EXCEPT ![q] = r]
RefuseWith(q, status) == /\ Move(q, "leave")
                         /\ Reply(q, [NoReply EXCEPT !.status = status])

QueryEnter(q) ==
    /\ place[q] = "start" /\ q \in DOMAIN ask
    /\ inflight < limits.inflight
    /\ inflight' = inflight + 1
    /\ Move(q, "limit")
    /\ UNCHANGED <<docsVars, faults, queryFixed, stage, dataVars, reply, busy>>

QueryEnterRefused(q) ==
    /\ place[q] = "start" /\ q \in DOMAIN ask
    /\ inflight >= limits.inflight
    /\ Move(q, "answered") /\ Reply(q, [NoReply EXCEPT !.status = "saturated"])
    /\ UNCHANGED <<docsVars, inflight, faults, queryFixed, stage, dataVars, busy>>

QueryLimited(q) ==
    /\ place[q] = "limit"
    /\ RefuseWith(q, "limited")
    /\ UNCHANGED <<docsVars, inflight, faults, queryFixed, stage, dataVars, busy>>

QueryAllowed(q) ==
    /\ place[q] = "limit"
    /\ Move(q, "policy")
    /\ UNCHANGED <<docsVars, inflight, faults, queryFixed, stage, dataVars, reply,
                   busy>>

(* check_query.                                                            *)
PolicyRefuses(q) ==
    /\ place[q] = "policy"
    /\ ask[q].flagged
    /\ RefuseWith(q, "forbidden")
    /\ UNCHANGED <<docsVars, inflight, faults, queryFixed, stage, dataVars, busy>>

PolicyAllows(q) ==
    /\ place[q] = "policy"
    /\ ~ask[q].flagged
    /\ Before(q, "retrieve")
    /\ UNCHANGED <<docsVars, inflight, faults, queryFixed, dataVars, reply, busy>>

(* _stage_or_503 of any of the stages.                                     *)
EnterStage(q) ==
    /\ place[q] = "before"
    /\ busy[stage[q]] < stageLimit[stage[q]]
    /\ busy' = [busy EXCEPT ![stage[q]] = @ + 1]
    /\ Move(q, "in")
    /\ UNCHANGED <<docsVars, inflight, faults, queryFixed, stage, dataVars, reply>>

StageRefused(q) ==
    /\ place[q] = "before"
    /\ busy[stage[q]] >= stageLimit[stage[q]]
    /\ RefuseWith(q, "saturated")
    /\ UNCHANGED <<docsVars, inflight, faults, queryFixed, stage, dataVars, busy>>

(* Mutant: the bulkhead has no finally.                                    *)
RetrieveLeaks(q) ==
    /\ In(q, "retrieve")
    /\ Raises
    /\ RefuseWith(q, "failed")
    /\ UNCHANGED <<docsVars, inflight, queryFixed, stage, dataVars, busy>>

(* The store raises under a retrieval.                                     *)
RetrieveRaises(q) ==
    /\ In(q, "retrieve")
    /\ Raises
    /\ Release(q)
    /\ RefuseWith(q, "failed")
    /\ UNCHANGED <<docsVars, inflight, queryFixed, stage, dataVars>>

-----------------------------------------------------------------------------
(* BaselineRetrievalStage.retrieve reads the whole table in one critical   *)
(* section; filter_chunks_by_acl keeps what its own tenant filter kept.    *)
Relevant(q) == {c \in store : /\ c.tenant \in {ask[q].tenant, Public}
                              /\ c.text \in ask[q].about}

(* _dedupe_chunks keeps one chunk of a source and a wording; what a piece  *)
(* of a text says is left open, so any two pieces of one text may be alike. *)
MayReadAlike(c, d) == c.source = d.source /\ c.text = d.text

(* Reranked, rid of duplicates, capped per source, cut at top_k: any order *)
(* of the scores.                                                          *)
Hits(q) ==
    LET OfSource(h, c) == {d \in h : d.source = c.source}
        Full(h, c) == \/ Cardinality(h) = ask[q].topK
                      \/ Cardinality(OfSource(h, c)) = PerSource
    IN  {h \in SUBSET Relevant(q) :
            /\ Cardinality(h) <= ask[q].topK
            /\ \A c \in h : Cardinality(OfSource(h, c)) <= PerSource
            /\ \A c \in Relevant(q) \ h :
                  Full(h, c) \/ \E d \in h : MayReadAlike(c, d)}

WebChunk == [source |-> Web, score |-> "weak", tenant |-> Public]

(* should_fallback_to_web: nothing found, or a faint best score.           *)
FallBack(q, found) ==
    IF /\ \A c \in found : c.score = "faint"
       /\ Cardinality(found) < ask[q].topK
    THEN found \union {WebChunk} ELSE found

Scored(h, score) ==
    {[source |-> c.source, text |-> c.text, tenant |-> c.tenant, piece |-> c.piece,
      score |-> score[c]] : c \in h}

Blocked(found) == \E c \in found : c.source # Web /\ c.text \in Forbidden

(* check_chunks comes right behind the bulkhead.                           *)
Retrieve(q) ==
    /\ In(q, "retrieve")
    /\ Release(q)
    /\ \E h \in Hits(q) : \E score \in [h -> {"good", "weak", "faint"}] :
          LET found == FallBack(q, Scored(h, score))
          IN  /\ chunks' = [chunks EXCEPT ![q] = found]
              /\ IF Blocked(found)
                 THEN RefuseWith(q, "forbidden") /\ UNCHANGED stage
                 ELSE Before(q, "grade") /\ UNCHANGED reply
    /\ UNCHANGED <<docsVars, inflight, faults, queryFixed, attempts, draft, issues>>

(* The first n of a set that is ranked in some order.                      *)
First(n, S) == {s \in SUBSET S : IF Cardinality(S) > n THEN Cardinality(s) = n
                                 ELSE s = S}

(* BaselineGradeStage: of the first five, those with 0.35 and more, which  *)
(* are ranked first.                                                       *)
Selected(found) == First(5, {c \in found : c.score = "good"})

Grade(q) ==
    /\ In(q, "grade")
    /\ Release(q)
    /\ \E s \in Selected(chunks[q]) : chunks' = [chunks EXCEPT ![q] = s]
    /\ Before(q, "generate")
    /\ UNCHANGED <<docsVars, inflight, faults, queryFixed, attempts, draft, issues,
                   reply>>

-----------------------------------------------------------------------------
(* BaselineGenerateStage and llm.complete.                                 *)
Insufficient == [NoText EXCEPT !.from = "insufficient", !.length = 22]

(* complete without an answer: "Insufficient evidence."                    *)
NeedsEvidence(q) == mode.require /\ chunks[q] = {}

Sources(found) == {c.source : c \in found}

(* Mutant: whatever is in brackets is a citation.                          *)
CitationsUnchecked(cites, found) == {cites}

(* extract_citations: what the text cites of the evidence, or the first    *)
(* two sources.                                                            *)
Citations(cites, found) ==
    IF cites \intersect Sources(found) # {} THEN {cites \intersect Sources(found)}
    ELSE {Sources(two) : two \in First(2, found)}

(* The text of a provider or of the mock, which repeats the first 20 words *)
(* of the prompt and so may cite some of the evidence.                     *)
Written(q, from, c) ==
    /\ Release(q)
    /\ \E cites \in Citations(c.cites, chunks[q]) :
          draft' = [draft EXCEPT ![q] = [from |-> from, length |-> c.length,
                                         cites |-> cites, repeats |-> c.repeats]]
    /\ Before(q, "reflect")

NoEvidence(q) ==
    /\ In(q, "generate")
    /\ NeedsEvidence(q)
    /\ Release(q)
    /\ draft' = [draft EXCEPT ![q] = Insufficient]
    /\ Before(q, "reflect")
    /\ UNCHANGED <<docsVars, inflight, faults, queryFixed, attempts, chunks, issues,
                   reply>>

ModelAnswers(q) ==
    /\ In(q, "generate")
    /\ ~NeedsEvidence(q)
    /\ \E c \in Completions : Written(q, "model", c)
    /\ UNCHANGED <<docsVars, inflight, faults, queryFixed, attempts, chunks, issues,
                   reply>>

(* Mutant: range(max_attempts) is not the bound.                           *)
ModelRetryMore(q) ==
    /\ In(q, "generate")
    /\ ~NeedsEvidence(q)
    /\ attempts[q] <= MaxAttempts
    /\ attempts' = [attempts EXCEPT ![q] = @ + 1]
    /\ UNCHANGED <<docsVars, inflight, faults, queryFixed, place, stage, chunks,
                   draft, issues, reply, busy>>

(* _with_retry: the provider raised and there are attempts left.           *)
ModelRetry(q) ==
    /\ In(q, "generate")
    /\ ~NeedsEvidence(q)
    /\ attempts[q] + 1 < MaxAttempts
    /\ attempts' = [attempts EXCEPT ![q] = @ + 1]
    /\ UNCHANGED <<docsVars, inflight, faults, queryFixed, place, stage, chunks,
                   draft, issues, reply, busy>>

(* The last attempt: the mock answers, or a RuntimeError that              *)
(* _stage_or_503 cannot tell from a full bulkhead.                         *)
ModelGivesUp(q) ==
    /\ In(q, "generate")
    /\ ~NeedsEvidence(q)
    /\ attempts[q] + 1 >= MaxAttempts
    /\ IF mode.fallback
       THEN /\ \E cites \in SUBSET Sources(chunks[q]) :
                  Written(q, "mock", [length |-> 120, cites |-> cites,
                                      repeats |-> FALSE])
            /\ UNCHANGED reply
       ELSE /\ Release(q)
            /\ RefuseWith(q, "saturated")
            /\ UNCHANGED <<draft, stage>>
    /\ UNCHANGED <<docsVars, inflight, faults, queryFixed, attempts, chunks, issues>>

-----------------------------------------------------------------------------
(* The evaluation and the reflection: what they make of a text's length,   *)
(* citations and wording.                                                  *)
AtMost1(n) == IF n > 1000 THEN 1000 ELSE n
Mean3(a, b, c) == (a + b + c) \div 3

(* BaselineMultiJudgeEnsemble.                                             *)
Judges(d) == <<AtMost1((d.length * 1000) \div 320),
               IF d.cites # {} THEN 1000 ELSE 350,
               IF d.repeats \/ d.length > 60 THEN 1000 ELSE 450>>
JudgeScore(d) == Mean3(Judges(d)[1], Judges(d)[2], Judges(d)[3])
Disagreement(d) == \E i, k \in 1 .. 3 : Judges(d)[i] - Judges(d)[k] >= 400

(* BaselineEvalHook.evaluate and critique_response.                        *)
Quality(d)   == AtMost1((d.length * 1000) \div 300)
ErrorRate(d) == IF d.length > 0 THEN 0 ELSE 1000
Critic(d)    == AtMost1((d.length * 1000) \div 400)
CriticPasses(d) == d.length >= 80
Signals(d) == <<Quality(d), ErrorRate(d), JudgeScore(d)>>

(* should_abstain, on the signals and the critic's score.                  *)
ShouldAbstain(scores) == \E i \in DOMAIN scores : scores[i] < 350

(* calibrated_confidence, of the four.                                     *)
Calibrated(d) == (Quality(d) + ErrorRate(d) + JudgeScore(d) + Critic(d)) \div 4

(* BaselineReflectStage.reflect; should_heal is issues # {}: each issue    *)
(* comes with an action, and query() never asks for cove questions.        *)
Issues(d) ==
    (IF ShouldAbstain(Append(Signals(d), Critic(d))) THEN {"abstain"} ELSE {})
    \union (IF CriticPasses(d) THEN {} ELSE {"refine_answer"})
    \union (IF Calibrated(d) < 450 THEN {"retrieve_more"} ELSE {})

Reflect(q) ==
    /\ In(q, "reflect")
    /\ Release(q)
    /\ issues' = [issues EXCEPT ![q] = Issues(draft[q])]
    /\ IF Issues(draft[q]) # {} THEN Before(q, "heal")
       ELSE Move(q, "respond") /\ UNCHANGED stage
    /\ UNCHANGED <<docsVars, inflight, faults, queryFixed, attempts, chunks, draft,
                   reply>>

(* circuit_breaker.                                                        *)
CircuitOpen(found) == (IF found # {} THEN 300 ELSE 0) >= 250

(* repair_response as heal() calls it, without a context and without the   *)
(* chunks: no strategy can retrieve or generate again.                     *)
Noted(d)     == [d EXCEPT !.from = "noted"]
ExhaustedCites(d) == [d EXCEPT !.from = "abstain", !.length = 73] \* mutant
Exhausted(d) == [d EXCEPT !.from = "abstain", !.length = 73, !.cites = {}]
Repair(d) == IF mode.strategy \in {"append_note", "strict_cite"} THEN Noted(d)
             ELSE Exhausted(d)

(* BaselineHealStage.heal, whose circuit is open whenever there is an      *)
(* issue: the refinement behind it has none to work on.                    *)
Healed(q) == IF CircuitOpen(issues[q]) THEN Repair(draft[q]) ELSE draft[q]

(* Mutant: the healed text is reflected on again, without a bound.         *)
HealAgain(q) ==
    /\ In(q, "heal")
    /\ Release(q)
    /\ draft' = [draft EXCEPT ![q] = Healed(q)]
    /\ Before(q, "reflect")
    /\ UNCHANGED <<docsVars, inflight, faults, queryFixed, attempts, chunks, issues,
                   reply>>

Heal(q) ==
    /\ In(q, "heal")
    /\ Release(q)
    /\ draft' = [draft EXCEPT ![q] = Healed(q)]
    /\ Move(q, "respond")
    /\ UNCHANGED <<docsVars, inflight, faults, queryFixed, stage, attempts, chunks,
                   issues, reply>>

-----------------------------------------------------------------------------
(* The response.                                                           *)
Abstained(q) == chunks[q] = {} \/ "abstain" \in issues[q]

(* _derive_confidence, the mean of the signals; a repair adds a score of 0. *)
Confidence(q, abstained) ==
    IF abstained THEN 0
    ELSE LET s == Signals(draft[q])
         IN  (s[1] + s[2] + s[3]) \div (IF issues[q] # {} THEN 4 ELSE 3)

(* The guardrail rewrites personal data in the text and nothing else.      *)
Respond(q) ==
    /\ place[q] = "respond"
    /\ Reply(q, [status |-> "answered", from |-> draft[q].from,
                 cites |-> draft[q].cites, abstained |-> Abstained(q),
                 confidence |-> Confidence(q, Abstained(q))])
    /\ Move(q, "leave")
    /\ UNCHANGED <<docsVars, inflight, faults, queryFixed, stage, dataVars, busy>>

QueryLeave(q) ==
    /\ place[q] = "leave"
    /\ inflight' = Exit(inflight)
    /\ Move(q, "answered")
    /\ UNCHANGED <<docsVars, faults, queryFixed, stage, dataVars, reply, busy>>

-----------------------------------------------------------------------------
DocsStep ==
    /\ \E r \in Requests : Enter(r) \/ EnterRefused(r) \/ PostDocs(r)
    /\ UNCHANGED <<queryFixed, place, stage, dataVars, reply, busy>>

Underway(q) == place[q] \notin {"start", "answered"}

ServerCrash ==
    /\ Crash
    /\ place' = [q \in Queries |-> IF Underway(q) THEN "answered" ELSE place[q]]
    /\ reply' = [q \in Queries |->
                    IF Underway(q) THEN [NoReply EXCEPT !.status = "lost"]
                    ELSE reply[q]]
    /\ busy' = [s \in Stages |-> 0]
    /\ UNCHANGED <<queryFixed, stage, dataVars>>

PostQuery(q) ==
    \/ QueryLimited(q) \/ QueryAllowed(q) \/ PolicyRefuses(q) \/ PolicyAllows(q)
    \/ EnterStage(q) \/ StageRefused(q)
    \/ Retrieve(q) \/ RetrieveRaises(q) \/ Grade(q)
    \/ NoEvidence(q) \/ ModelAnswers(q) \/ ModelRetry(q) \/ ModelGivesUp(q)
    \/ Reflect(q) \/ Heal(q) \/ Respond(q) \/ QueryLeave(q)

ServerNext ==
    \/ DocsStep
    \/ \E q \in Queries : QueryEnter(q) \/ QueryEnterRefused(q) \/ PostQuery(q)
    \/ ServerCrash

ServerSpec == ServerInit /\ [][ServerNext]_serverVars

(* A query that was admitted keeps running; nobody has to send one.        *)
ServerFairSpec == ServerSpec /\ \A q \in Queries : WF_serverVars(PostQuery(q))

-----------------------------------------------------------------------------
InStage(s) == {q \in Queries : In(q, s)}
Answered(q) == reply[q].status = "answered"

(* The variables have the types the code gives them.                       *)
ServerTypeOK ==
    /\ mode \in Modes /\ stageLimit \in StageLimits
    /\ <<body, ask>> \in Traffic
    /\ place \in [Queries -> Place] /\ stage \in [Queries -> Stages]
    /\ attempts \in [Queries -> 0 .. MaxAttempts - 1]
    /\ \A q \in Queries :
          /\ Sources(chunks[q]) \subseteq Ids \union {Web}
          /\ draft[q].cites \subseteq Ids \union {Web}
          /\ issues[q] \subseteq {"abstain", "refine_answer", "retrieve_more"}
          /\ reply[q].confidence \in 0 .. 1000
    /\ busy \in [Stages -> Nat]

(* However queries and document posts interleave, fail and are refused, a  *)
(* slot of the shared inflight guard or of a stage's bulkhead is held by   *)
(* exactly the requests inside, and no guard exceeds its limit.            *)
ServerSlotsMatch ==
    /\ inflight = Cardinality({r \in Requests : Inside(r)})
                    + Cardinality({q \in Queries : Underway(q)})
    /\ inflight <= limits.inflight
    /\ \A s \in Stages : busy[s] = Cardinality(InStage(s)) /\ busy[s] <= stageLimit[s]

(* A query that runs while its documents are replaced may see one of them  *)
(* in part, but never pieces of two versions or of two tenants: unless two *)
(* posts ingested the document at once.                                    *)
EvidenceOneVersion ==
    \A q \in Queries : \A c, d \in chunks[q] :
        c.source = d.source /\ c.source \notin mixed \union {Web} =>
            c.text = d.text /\ c.tenant = d.tenant

(* An answer cites only sources the grader selected for it, chunks of its  *)
(* own tenant or public ones, whatever the model wrote and however the     *)
(* answer was repaired.                                                    *)
AnswersGrounded ==
    \A q \in Queries : Answered(q) =>
        /\ reply[q].cites \subseteq Sources(chunks[q])
        /\ \A c \in chunks[q] : c.tenant \in {ask[q].tenant, Public}

(* A text the reflection found an issue with never leaves the server as    *)
(* the model wrote it; an abstained response has confidence 0, and the     *)
(* text that stands in for an answer cites nothing.                        *)
IssuesHealed ==
    \A q \in Queries : Answered(q) =>
        /\ issues[q] # {} => reply[q].from \in {"noted", "abstain"}
        /\ reply[q].abstained => reply[q].confidence = 0
        /\ reply[q].from = "abstain" => reply[q].cites = {} /\ reply[q].abstained

(* Every query that is admitted is answered, refused or lost in a crash,   *)
(* however often the model fails.                                          *)
QueriesAnswered ==
    \A q \in Queries : place[q] = "limit" ~> place[q] = "answered"

-----------------------------------------------------------------------------
(* What the documents promise beyond that.                                 *)

(* RegressionGate.check and the judges, the verdict that is called passed. *)
QualityPasses(d) ==
    /\ Quality(d) >= 550 \/ JudgeScore(d) >= 550
    /\ ErrorRate(d) <= 200
    /\ ~Disagreement(d)
    /\ CriticPasses(d)

(* "self-heal if quality/policy checks fail": a text that passes every     *)
(* check and has its evidence is what the client gets.                     *)
GoodAnswersSurvive ==
    [][\A q \in Queries : Heal(q) /\ chunks[q] # {} => ~QualityPasses(draft[q])]_serverVars
=============================================================================
