--------------------------- MODULE QueryApiProofs ---------------------------
(***************************************************************************)
(* Theorems about QueryApi, the server with both endpoints, for every      *)
(* traffic, every limit, every behaviour of the model and every number of  *)
(* faults and crashes.  What DocsApiProofs shows of a step of POST /docs   *)
(* is used here for the steps it takes beside the queries.                 *)
(***************************************************************************)
EXTENDS QueryApi, DocsApiProofs

-----------------------------------------------------------------------------
(* The scores.                                                             *)
Draft == [from : {"none", "insufficient", "model", "mock", "noted", "abstain"},
          length : Nat, cites : SUBSET (Ids \union {Web}), repeats : BOOLEAN]

LEMMA AtMostType ==
    ASSUME NEW n \in Nat PROVE AtMost1(n) \in 0 .. 1000
  BY DEF AtMost1

LEMMA Thirds ==
    ASSUME NEW n \in Nat, NEW k \in Nat \ {0} PROVE n \div k \in Nat /\ n \div k <= n
  OBVIOUS

LEMMA MeanType ==
    ASSUME NEW a, NEW b, NEW c, a \in 0 .. 1000, b \in 0 .. 1000, c \in 0 .. 1000
    PROVE  Mean3(a, b, c) \in 0 .. 1000 /\ (a + b + c) \div 4 \in 0 .. 1000
  BY DEF Mean3

LEMMA ScoreTypes ==
    ASSUME NEW d \in Draft
    PROVE  /\ Quality(d) \in 0 .. 1000 /\ ErrorRate(d) \in 0 .. 1000
           /\ JudgeScore(d) \in 0 .. 1000
  <1>1. d.length \in Nat
    BY DEF Draft
  <1>2. Quality(d) \in 0 .. 1000
    <2>1. (d.length * 1000) \div 300 \in Nat
      BY <1>1, Thirds
    <2>2. QED
      BY <2>1, AtMostType DEF Quality
  <1>3. ErrorRate(d) \in 0 .. 1000
    BY DEF ErrorRate
  <1>4. JudgeScore(d) \in 0 .. 1000
    <2>1. AtMost1((d.length * 1000) \div 320) \in 0 .. 1000
      <3>1. (d.length * 1000) \div 320 \in Nat
        BY <1>1, Thirds
      <3>2. QED
        BY <3>1, AtMostType
    <2>2. /\ Judges(d)[1] \in 0 .. 1000 /\ Judges(d)[2] \in 0 .. 1000
          /\ Judges(d)[3] \in 0 .. 1000
      BY <2>1 DEF Judges
    <2>3. QED
      BY <2>2, MeanType DEF JudgeScore
  <1>5. QED
    BY <1>2, <1>3, <1>4

(* No text is without an issue: an empty one has quality 0, any other one  *)
(* an error rate of 0, which should_abstain takes for a low score.         *)
LEMMA EveryTextAbstains ==
    ASSUME NEW d \in Draft PROVE "abstain" \in Issues(d)
  <1>1. d.length \in Nat
    BY DEF Draft
  <1>2. \E i \in DOMAIN Signals(d) : Signals(d)[i] < 350
    <2>1. CASE d.length = 0
      <3>1. Quality(d) < 350
        BY <2>1 DEF Quality, AtMost1
      <3>2. 1 \in DOMAIN Signals(d) /\ Signals(d)[1] = Quality(d)
        BY DEF Signals
      <3>3. QED
        BY <3>1, <3>2
    <2>2. CASE d.length > 0
      <3>1. 2 \in DOMAIN Signals(d) /\ Signals(d)[2] = 0
        BY <2>2 DEF Signals, ErrorRate
      <3>2. QED
        BY <3>1
    <2>3. QED
      BY <1>1, <2>1, <2>2
  <1>3. \A e : \A i \in DOMAIN Signals(d) : /\ i \in DOMAIN Append(Signals(d), e)
                                            /\ Append(Signals(d), e)[i] = Signals(d)[i]
    BY DEF Signals
  <1>4. ShouldAbstain(Append(Signals(d), Critic(d)))
    BY <1>2, <1>3 DEF ShouldAbstain
  <1>5. QED
    BY <1>4 DEF Issues

-----------------------------------------------------------------------------
(* Type correctness.  ServerTypeOK bounds what the stages hand on; here it *)
(* is joined by the whole type of each variable, and by the types that     *)
(* DocsApiProofs shows for the variables of POST /docs.                    *)
Evidence == [source : Ids, text : Texts, tenant : Tenants, piece : Nat,
             score : {"good", "weak", "faint"}] \union {WebChunk}
Trouble  == {"abstain", "refine_answer", "retrieve_more"}
Response == [status : {"none", "saturated", "limited", "forbidden", "failed",
                       "lost", "answered"},
             from : {"none", "insufficient", "model", "mock", "noted", "abstain"},
             cites : SUBSET (Ids \union {Web}), abstained : BOOLEAN,
             confidence : 0 .. 1000]

DataTypes ==
    /\ mode \in Modes /\ stageLimit \in StageLimits /\ <<body, ask>> \in Traffic
    /\ place \in [Queries -> Place] /\ stage \in [Queries -> Stages]
    /\ attempts \in [Queries -> 0 .. MaxAttempts - 1]
    /\ chunks \in [Queries -> SUBSET Evidence]
    /\ draft \in [Queries -> Draft]
    /\ issues \in [Queries -> SUBSET Trouble]
    /\ reply \in [Queries -> Response]
    /\ busy \in [Stages -> Nat]

(* A query that has begun is one that is sent.                             *)
Sent == \A q \in Queries : place[q] # "start" => q \in DOMAIN ask

ServerTypes == TypeInv /\ DataTypes /\ Sent

LEMMA TrafficFacts ==
    ASSUME NEW t \in Traffic
    PROVE  /\ t = <<t[1], t[2]>> /\ t[1] \in Workloads
           /\ t[2] \in [DOMAIN t[2] -> Ask] /\ DOMAIN t[2] \subseteq Queries
  BY QueryAssumption

LEMMA InitServer == ServerInit => ServerTypes
  <1> SUFFICES ASSUME ServerInit PROVE ServerTypes
    OBVIOUS
  <1>1. TypeInv
    BY InitType DEF ServerInit
  <1>2. PICK t \in Traffic : body = t[1] /\ ask = t[2]
    BY DEF ServerInit
  <1>3. <<body, ask>> \in Traffic
    BY <1>2, TrafficFacts
  <1>4. DataTypes /\ Sent
    BY <1>3, QueryAssumption DEF ServerInit, DataTypes, Sent, Place, Stages, Draft, NoText, NoReply, Response
  <1>5. QED
    BY <1>1, <1>4 DEF ServerTypes

(* What the steps of a query leave to POST /docs.                          *)
LEMMA DocsKept ==
    ASSUME TypeInv, UNCHANGED docsVars, inflight' \in Nat, faults' \in Nat
    PROVE  TypeInv'
  BY DEF TypeInv, TypeOK, PlaceOK, Doc, docsVars, fixed, requestVars, tableVars, history

(* What retrieval may bring.                                               *)
LEMMA HitFacts ==
    ASSUME TypeOK, NEW q \in Queries, NEW h \in Hits(q),
           NEW score \in [h -> {"good", "weak", "faint"}]
    PROVE  /\ FallBack(q, Scored(h, score)) \subseteq Evidence
           /\ \A c \in FallBack(q, Scored(h, score)) :
                 \/ c = WebChunk
                 \/ \E d \in h : /\ d \in store /\ d.tenant \in {ask[q].tenant, Public}
                                /\ c.source = d.source /\ c.text = d.text /\ c.tenant = d.tenant
  <1>1. h \subseteq store /\ \A d \in h : d.tenant \in {ask[q].tenant, Public}
    BY DEF Hits, Relevant
  <1>2. \A d \in h : d \in [source : Ids, piece : Nat, text : Texts, tenant : Tenants]
    BY <1>1 DEF TypeOK
  <1>3. Scored(h, score) \subseteq Evidence
    BY <1>2 DEF Scored, Evidence
  <1>4. FallBack(q, Scored(h, score)) \subseteq Scored(h, score) \union {WebChunk}
    BY DEF FallBack
  <1>5. \A c \in Scored(h, score) : \E d \in h :
           c.source = d.source /\ c.text = d.text /\ c.tenant = d.tenant
    BY DEF Scored
  <1>6. QED
    BY <1>1, <1>3, <1>4, <1>5 DEF Evidence

LEMMA RetrievedFacts ==
    ASSUME TypeOK, NEW q \in Queries, Retrieve(q)
    PROVE  \E found \in SUBSET Evidence :
              /\ chunks' = [chunks EXCEPT ![q] = found]
              /\ \/ RefuseWith(q, "forbidden") /\ UNCHANGED stage
                 \/ Before(q, "grade") /\ UNCHANGED reply
              /\ \A c \in found :
                    \/ c = WebChunk
                    \/ \E d \in store : /\ d.tenant \in {ask[q].tenant, Public}
                                      /\ c.source = d.source /\ c.text = d.text
                                      /\ c.tenant = d.tenant
  <1>1. PICK h \in Hits(q) : \E score \in [h -> {"good", "weak", "faint"}] :
           LET found == FallBack(q, Scored(h, score))
           IN  /\ chunks' = [chunks EXCEPT ![q] = found]
               /\ IF Blocked(found)
                  THEN RefuseWith(q, "forbidden") /\ UNCHANGED stage
                  ELSE Before(q, "grade") /\ UNCHANGED reply
    BY DEF Retrieve
  <1>2. PICK score \in [h -> {"good", "weak", "faint"}] :
           LET found == FallBack(q, Scored(h, score))
           IN  /\ chunks' = [chunks EXCEPT ![q] = found]
               /\ IF Blocked(found)
                  THEN RefuseWith(q, "forbidden") /\ UNCHANGED stage
                  ELSE Before(q, "grade") /\ UNCHANGED reply
    BY <1>1
  <1> DEFINE found == FallBack(q, Scored(h, score))
  <1>3. /\ found \in SUBSET Evidence
        /\ \A c \in found :
              \/ c = WebChunk
              \/ \E d \in store : /\ d.tenant \in {ask[q].tenant, Public}
                                /\ c.source = d.source /\ c.text = d.text
                                /\ c.tenant = d.tenant
    BY HitFacts
  <1>4. /\ chunks' = [chunks EXCEPT ![q] = found]
        /\ \/ RefuseWith(q, "forbidden") /\ UNCHANGED stage
           \/ Before(q, "grade") /\ UNCHANGED reply
    BY <1>2
  <1> HIDE DEF found
  <1>5. QED
    BY <1>3, <1>4

LEMMA SourcesType ==
    ASSUME NEW found \in SUBSET Evidence PROVE Sources(found) \in SUBSET (Ids \union {Web})
  BY DEF Sources, Evidence, WebChunk

LEMMA CitationsFacts ==
    ASSUME NEW found \in SUBSET Evidence, NEW given, NEW cites \in Citations(given, found)
    PROVE  cites \subseteq Sources(found)
  BY DEF Citations, Sources, First

LEMMA RepairType ==
    ASSUME NEW d \in Draft PROVE Repair(d) \in Draft
  BY DEF Repair, Noted, Exhausted, Draft

LEMMA ConfidenceType ==
    ASSUME DataTypes, NEW q \in Queries, NEW abstained, abstained \in BOOLEAN
    PROVE  Confidence(q, abstained) \in 0 .. 1000
  <1>1. draft[q] \in Draft
    BY DEF DataTypes
  <1>2. CASE abstained
    BY <1>2 DEF Confidence
  <1>3. CASE ~abstained
    <2>1. PICK s : s = Signals(draft[q])
      OBVIOUS
    <2>2. s[1] \in 0 .. 1000 /\ s[2] \in 0 .. 1000 /\ s[3] \in 0 .. 1000
      BY <1>1, <2>1, ScoreTypes DEF Signals
    <2>3. \/ Confidence(q, abstained) = (s[1] + s[2] + s[3]) \div 4
          \/ Confidence(q, abstained) = Mean3(s[1], s[2], s[3])
      BY <1>3, <2>1 DEF Confidence, Mean3
    <2>4. QED
      BY <2>2, <2>3, MeanType
  <1>4. QED
    BY <1>2, <1>3

(* What a step of a query does to its place, its stage and its reply.      *)
LEMMA MoveType ==
    ASSUME DataTypes, Sent, NEW q \in Queries, q \in DOMAIN ask, NEW p \in Place, Move(q, p),
           UNCHANGED ask
    PROVE  place' \in [Queries -> Place] /\ Sent'
  BY DEF DataTypes, Sent, Move

LEMMA BeforeType ==
    ASSUME DataTypes, Sent, NEW q \in Queries, q \in DOMAIN ask, NEW s \in Stages, Before(q, s),
           UNCHANGED ask
    PROVE  place' \in [Queries -> Place] /\ stage' \in [Queries -> Stages] /\ Sent'
  BY DEF DataTypes, Sent, Before, Move, Place

Refusals == {"saturated", "limited", "forbidden", "failed"}

LEMMA RefusalType ==
    ASSUME NEW status, status \in Refusals \union {"lost"}
    PROVE  [NoReply EXCEPT !.status = status] \in Response
  <1>1. NoReply \in Response
    BY DEF NoReply, Response
  <1>2. QED
    BY <1>1 DEF Response, Refusals

LEMMA RefuseType ==
    ASSUME DataTypes, Sent, NEW q \in Queries, q \in DOMAIN ask, UNCHANGED ask,
           NEW status \in Refusals, RefuseWith(q, status)
    PROVE  place' \in [Queries -> Place] /\ reply' \in [Queries -> Response] /\ Sent'
  <1>1. [NoReply EXCEPT !.status = status] \in Response
    BY RefusalType
  <1>2. QED
    BY <1>1 DEF DataTypes, Sent, RefuseWith, Move, Reply, Place

LEMMA ReleaseType ==
    ASSUME DataTypes, NEW q \in Queries, Release(q)
    PROVE  busy' \in [Stages -> Nat]
  BY DEF DataTypes, Release, Exit

(* The steps that hand data on.                                            *)
LEMMA RetrieveTypes ==
    ASSUME ServerTypes, NEW q \in Queries, q \in DOMAIN ask, Retrieve(q)
    PROVE  DataTypes' /\ Sent'
  <1> USE DEF queryFixed, docsVars, fixed, requestVars, tableVars, history
  <1>1. DataTypes /\ Sent /\ TypeOK
    BY DEF ServerTypes, TypeInv
  <1>2. PICK found \in SUBSET Evidence :
           /\ chunks' = [chunks EXCEPT ![q] = found]
           /\ \/ RefuseWith(q, "forbidden") /\ UNCHANGED stage
              \/ Before(q, "grade") /\ UNCHANGED reply
    BY <1>1, RetrievedFacts
  <1>3. chunks' \in [Queries -> SUBSET Evidence]
    BY <1>1, <1>2 DEF DataTypes
  <1>4. UNCHANGED <<body, ask, mode, stageLimit, attempts, draft, issues>>
    BY DEF Retrieve
  <1>5. /\ place' \in [Queries -> Place] /\ stage' \in [Queries -> Stages]
        /\ reply' \in [Queries -> Response] /\ Sent'
    <2>1. CASE RefuseWith(q, "forbidden") /\ UNCHANGED stage
      BY <1>1, <1>4, <2>1, RefuseType DEF DataTypes, Refusals
    <2>2. CASE Before(q, "grade") /\ UNCHANGED reply
      BY <1>1, <1>4, <2>2, BeforeType DEF DataTypes, Stages
    <2>3. QED
      BY <1>2, <2>1, <2>2
  <1>6. busy' \in [Stages -> Nat]
    BY <1>1, ReleaseType DEF Retrieve
  <1>7. QED
    BY <1>1, <1>3, <1>4, <1>5, <1>6 DEF DataTypes

LEMMA WrittenType ==
    ASSUME DataTypes, NEW q \in Queries, NEW from \in {"model", "mock"}, NEW c,
           c.length \in Nat, c.repeats \in BOOLEAN, Written(q, from, c)
    PROVE  /\ draft' \in [Queries -> Draft]
           /\ Before(q, "reflect") /\ Release(q)
           /\ \E cites \in SUBSET Sources(chunks[q]) :
                 draft' = [draft EXCEPT ![q] = [from |-> from, length |-> c.length,
                                                cites |-> cites, repeats |-> c.repeats]]
  <1>1. PICK cites \in Citations(c.cites, chunks[q]) :
           draft' = [draft EXCEPT ![q] = [from |-> from, length |-> c.length,
                                          cites |-> cites, repeats |-> c.repeats]]
    BY DEF Written
  <1>2. cites \subseteq Sources(chunks[q]) /\ Sources(chunks[q]) \subseteq Ids \union {Web}
    BY CitationsFacts, SourcesType DEF DataTypes
  <1>3. [from |-> from, length |-> c.length, cites |-> cites, repeats |-> c.repeats] \in Draft
    BY <1>2 DEF Draft
  <1>4. QED
    BY <1>1, <1>2, <1>3 DEF DataTypes, Written

(* A step of query() is one of a query that has been sent.                 *)
LEMMA QueryBegun ==
    ASSUME NEW q \in Queries, PostQuery(q) PROVE place[q] # "start"
  BY DEF PostQuery, QueryLimited, QueryAllowed, PolicyRefuses, PolicyAllows, EnterStage,
         StageRefused, Retrieve, RetrieveRaises, Grade, NoEvidence, ModelAnswers, ModelRetry,
         ModelGivesUp, Reflect, Heal, Respond, QueryLeave, In

LEMMA QueryTypes ==
    ASSUME ServerTypes, NEW q \in Queries,
           QueryEnter(q) \/ QueryEnterRefused(q) \/ PostQuery(q)
    PROVE  ServerTypes'
  <1> USE DEF queryFixed, dataVars
  <1>1. DataTypes /\ Sent /\ TypeOK /\ TypeInv
    BY DEF ServerTypes, TypeInv
  <1>2. q \in DOMAIN ask
    BY <1>1, QueryBegun DEF Sent, QueryEnter, QueryEnterRefused
  <1>3. /\ UNCHANGED <<docsVars, mode, stageLimit, ask>>
        /\ inflight' \in {inflight, inflight + 1, Exit(inflight)} /\ faults' \in {faults, faults + 1}
    BY DEF QueryEnter, QueryEnterRefused, PostQuery, QueryLimited, QueryAllowed, PolicyRefuses,
           PolicyAllows, EnterStage, StageRefused, Retrieve, RetrieveRaises, Grade, NoEvidence,
           ModelAnswers, ModelRetry, ModelGivesUp, Reflect, Heal, Respond, QueryLeave, Raises
  <1>4. TypeInv'
    <2>1. inflight' \in Nat /\ faults' \in Nat
      BY <1>1, <1>3 DEF TypeOK, Exit
    <2>2. QED
      BY <1>1, <1>3, <2>1, DocsKept
  <1>5. body' = body
    BY <1>3 DEF docsVars, fixed
  <1>6. DataTypes' /\ Sent'
    <2>1. CASE QueryEnter(q)
      BY <1>1, <1>2, <1>3, <1>5, <2>1, MoveType DEF QueryEnter, Place, DataTypes
    <2>2. CASE QueryEnterRefused(q)
      <3>1. [NoReply EXCEPT !.status = "saturated"] \in Response
        BY RefusalType DEF Refusals
      <3>2. place' \in [Queries -> Place] /\ Sent'
        BY <1>1, <1>2, <1>3, <2>2, MoveType DEF QueryEnterRefused, Place
      <3>3. QED
        BY <1>1, <1>3, <1>5, <2>2, <3>1, <3>2 DEF QueryEnterRefused, Reply, DataTypes
    <2>3. CASE QueryLimited(q) \/ PolicyRefuses(q) \/ StageRefused(q)
      BY <1>1, <1>2, <1>3, <1>5, <2>3, RefuseType
         DEF QueryLimited, PolicyRefuses, StageRefused, Refusals, DataTypes
    <2>4. CASE QueryAllowed(q)
      BY <1>1, <1>2, <1>3, <1>5, <2>4, MoveType DEF QueryAllowed, Place, DataTypes
    <2>5. CASE PolicyAllows(q)
      BY <1>1, <1>2, <1>3, <1>5, <2>5, BeforeType DEF PolicyAllows, Stages, DataTypes
    <2>6. CASE EnterStage(q)
      <3>1. place' \in [Queries -> Place] /\ Sent'
        BY <1>1, <1>2, <1>3, <2>6, MoveType DEF EnterStage, Place
      <3>2. QED
        BY <1>1, <1>3, <1>5, <2>6, <3>1 DEF EnterStage, DataTypes
    <2>7. CASE Retrieve(q)
      BY <1>2, <2>7, RetrieveTypes
    <2>8. CASE RetrieveRaises(q)
      <3>1. busy' \in [Stages -> Nat]
        BY <1>1, <2>8, ReleaseType DEF RetrieveRaises
      <3>2. QED
        BY <1>1, <1>2, <1>3, <1>5, <2>8, <3>1, RefuseType DEF RetrieveRaises, Refusals, DataTypes
    <2>9. CASE Grade(q)
      <3>1. busy' \in [Stages -> Nat]
        BY <1>1, <2>9, ReleaseType DEF Grade
      <3>2. PICK s \in Selected(chunks[q]) : chunks' = [chunks EXCEPT ![q] = s]
        BY <2>9 DEF Grade
      <3>3. s \subseteq chunks[q]
        BY DEF Selected, First
      <3>4. place' \in [Queries -> Place] /\ stage' \in [Queries -> Stages] /\ Sent'
        BY <1>1, <1>2, <1>3, <2>9, BeforeType DEF Grade, Stages
      <3>5. QED
        BY <1>1, <1>3, <1>5, <2>9, <3>1, <3>2, <3>3, <3>4 DEF Grade, DataTypes
    <2>10. CASE NoEvidence(q)
      <3>1. busy' \in [Stages -> Nat]
        BY <1>1, <2>10, ReleaseType DEF NoEvidence
      <3>2. Insufficient \in Draft
        BY DEF Insufficient, NoText, Draft
      <3>3. place' \in [Queries -> Place] /\ stage' \in [Queries -> Stages] /\ Sent'
        BY <1>1, <1>2, <1>3, <2>10, BeforeType DEF NoEvidence, Stages
      <3>4. QED
        BY <1>1, <1>3, <1>5, <2>10, <3>1, <3>2, <3>3 DEF NoEvidence, DataTypes
    <2>11. CASE ModelAnswers(q)
      <3>1. PICK c \in Completions : Written(q, "model", c)
        BY <2>11 DEF ModelAnswers
      <3>2. draft' \in [Queries -> Draft] /\ Before(q, "reflect") /\ Release(q)
        BY <1>1, <3>1, WrittenType, QueryAssumption
      <3>3. busy' \in [Stages -> Nat]
        BY <1>1, <3>2, ReleaseType
      <3>4. place' \in [Queries -> Place] /\ stage' \in [Queries -> Stages] /\ Sent'
        BY <1>1, <1>2, <1>3, <3>2, BeforeType DEF Stages
      <3>5. QED
        BY <1>1, <1>3, <1>5, <2>11, <3>2, <3>3, <3>4 DEF ModelAnswers, DataTypes
    <2>12. CASE ModelRetry(q)
      <3>1. attempts' \in [Queries -> 0 .. MaxAttempts - 1]
        BY <1>1, <2>12, QueryAssumption DEF ModelRetry, DataTypes
      <3>2. QED
        BY <1>1, <1>3, <1>5, <2>12, <3>1 DEF ModelRetry, DataTypes, Sent
    <2>13. CASE ModelGivesUp(q)
      <3>1. CASE mode.fallback
        <4> DEFINE Mock(cites) == [length |-> 120, cites |-> cites, repeats |-> FALSE]
        <4>1. PICK cites \in SUBSET Sources(chunks[q]) : Written(q, "mock", Mock(cites))
          BY <2>13, <3>1 DEF ModelGivesUp
        <4>2. Mock(cites).length \in Nat /\ Mock(cites).repeats \in BOOLEAN
          OBVIOUS
        <4>3. draft' \in [Queries -> Draft] /\ Before(q, "reflect") /\ Release(q)
          BY <1>1, <4>1, <4>2, WrittenType
        <4>4. busy' \in [Stages -> Nat]
          BY <1>1, <4>3, ReleaseType
        <4>5. place' \in [Queries -> Place] /\ stage' \in [Queries -> Stages] /\ Sent'
          BY <1>1, <1>2, <1>3, <4>3, BeforeType DEF Stages
        <4>6. QED
          BY <1>1, <1>3, <1>5, <2>13, <3>1, <4>3, <4>4, <4>5 DEF ModelGivesUp, DataTypes
      <3>2. CASE ~mode.fallback
        <4>1. /\ Release(q) /\ RefuseWith(q, "saturated")
              /\ UNCHANGED <<draft, stage, attempts, chunks, issues>>
          BY <2>13, <3>2 DEF ModelGivesUp
        <4>2. busy' \in [Stages -> Nat]
          BY <1>1, <4>1, ReleaseType
        <4>3. QED
          BY <1>1, <1>2, <1>3, <1>5, <4>1, <4>2, RefuseType DEF Refusals, DataTypes
      <3>3. QED
        BY <3>1, <3>2
    <2>14. CASE Reflect(q)
      <3>1. busy' \in [Stages -> Nat]
        BY <1>1, <2>14, ReleaseType DEF Reflect
      <3>2. Issues(draft[q]) \in SUBSET Trouble
        BY DEF Issues, Trouble
      <3>3. place' \in [Queries -> Place] /\ stage' \in [Queries -> Stages] /\ Sent'
        <4>1. CASE Before(q, "heal")
          BY <1>1, <1>2, <1>3, <4>1, BeforeType DEF Stages
        <4>2. CASE Move(q, "respond") /\ UNCHANGED stage
          BY <1>1, <1>2, <1>3, <4>2, MoveType DEF Place, DataTypes
        <4>3. QED
          BY <2>14, <4>1, <4>2 DEF Reflect
      <3>4. QED
        BY <1>1, <1>3, <1>5, <2>14, <3>1, <3>2, <3>3 DEF Reflect, DataTypes
    <2>15. CASE Heal(q)
      <3>1. busy' \in [Stages -> Nat]
        BY <1>1, <2>15, ReleaseType DEF Heal
      <3>2. Healed(q) \in Draft
        BY <1>1, RepairType DEF Healed, DataTypes
      <3>3. place' \in [Queries -> Place] /\ Sent'
        BY <1>1, <1>2, <1>3, <2>15, MoveType DEF Heal, Place
      <3>4. QED
        BY <1>1, <1>3, <1>5, <2>15, <3>1, <3>2, <3>3 DEF Heal, DataTypes
    <2>16. CASE Respond(q)
      <3>1. Confidence(q, Abstained(q)) \in 0 .. 1000 /\ Abstained(q) \in BOOLEAN
        <4>1. Abstained(q) \in BOOLEAN
          BY DEF Abstained
        <4>2. QED
          BY <1>1, <4>1, ConfidenceType
      <3>2. [status |-> "answered", from |-> draft[q].from, cites |-> draft[q].cites,
             abstained |-> Abstained(q), confidence |-> Confidence(q, Abstained(q))] \in Response
        BY <1>1, <3>1 DEF DataTypes, Draft, Response
      <3>3. place' \in [Queries -> Place] /\ Sent'
        BY <1>1, <1>2, <1>3, <2>16, MoveType DEF Respond, Place
      <3>4. QED
        BY <1>1, <1>3, <1>5, <2>16, <3>2, <3>3 DEF Respond, Reply, DataTypes
    <2>17. CASE QueryLeave(q)
      BY <1>1, <1>2, <1>3, <1>5, <2>17, MoveType DEF QueryLeave, Place, DataTypes
    <2>18. QED
      BY <2>1, <2>2, <2>3, <2>4, <2>5, <2>6, <2>7, <2>8, <2>9, <2>10, <2>11, <2>12, <2>13,
         <2>14, <2>15, <2>16, <2>17 DEF PostQuery
  <1>7. QED
    BY <1>4, <1>6 DEF ServerTypes

-----------------------------------------------------------------------------
(* The steps POST /docs takes in the server are those DocsApi allows.      *)
LEMMA DocsStepIsNext == DocsStep \/ ServerCrash => Next
  BY DEF DocsStep, ServerCrash, Next

LEMMA FixedKept ==
    /\ [Next]_vars => UNCHANGED <<limits, body>>
    /\ [ServerNext]_serverVars => UNCHANGED <<limits, body, mode, stageLimit, ask>>
  <1>1. [Next]_vars => UNCHANGED <<limits, body>>
    BY DEF Next, vars, fixed, Enter, EnterRefused, PostDocs, LimitRefuses, LimitAllows, Seen,
           Mark, DecodeRaises, TableRaises, Create, AlreadyCreated, EnterIngest, IngestRefused, Ingest,
           SkipDoc, BeginDoc, Upsert, EndIngest, IngestRaises, Complete, CompleteRaises,
           Leave, Crash
  <1>2. ASSUME NEW q \in Queries, QueryEnter(q) \/ QueryEnterRefused(q) \/ PostQuery(q)
        PROVE  UNCHANGED <<docsVars, queryFixed>>
    BY <1>2 DEF QueryEnter, QueryEnterRefused, PostQuery, QueryLimited, QueryAllowed,
           PolicyRefuses, PolicyAllows, EnterStage, StageRefused, Retrieve, RetrieveRaises,
           Grade, NoEvidence, ModelAnswers, ModelRetry, ModelGivesUp, Reflect, Heal, Respond,
           QueryLeave
  <1>3. QED
    BY <1>1, <1>2, DocsStepIsNext
       DEF ServerNext, serverVars, vars, docsVars, fixed, queryFixed, DocsStep, ServerCrash

LEMMA StepServer == ServerTypes /\ [ServerNext]_serverVars => ServerTypes'
  <1> SUFFICES ASSUME ServerTypes, [ServerNext]_serverVars PROVE ServerTypes'
    OBVIOUS
  <1> USE DEF queryFixed, dataVars
  <1>1. TypeInv /\ DataTypes /\ Sent
    BY DEF ServerTypes
  <1>2. UNCHANGED <<body, mode, stageLimit, ask>>
    BY FixedKept
  <1>3. CASE UNCHANGED serverVars
    <2>1. TypeInv'
      BY <1>1, <1>3, StepType DEF serverVars
    <2>2. QED
      BY <1>1, <1>2, <1>3, <2>1 DEF serverVars, ServerTypes, DataTypes, Sent
  <1>4. CASE DocsStep
    <2>1. TypeInv'
      BY <1>1, <1>4, StepType, DocsStepIsNext
    <2>2. QED
      BY <1>1, <1>2, <1>4, <2>1 DEF DocsStep, ServerTypes, DataTypes, Sent
  <1>5. CASE ServerCrash
    <2>1. TypeInv'
      BY <1>1, <1>5, StepType, DocsStepIsNext
    <2>2. place' \in [Queries -> Place] /\ Sent'
      BY <1>1, <1>2, <1>5 DEF ServerCrash, DataTypes, Sent, Place, Underway
    <2>3. reply' \in [Queries -> Response]
      <3>1. [NoReply EXCEPT !.status = "lost"] \in Response
        BY RefusalType
      <3>2. QED
        BY <1>1, <1>5, <3>1 DEF ServerCrash, DataTypes
    <2>4. QED
      BY <1>1, <1>2, <1>5, <2>1, <2>2, <2>3 DEF ServerCrash, ServerTypes, DataTypes
  <1>6. QED
    BY <1>3, <1>4, <1>5, QueryTypes DEF ServerNext

(* Whatever is posted, asked and written by the model, in any order: what  *)
(* each stage hands on is what the next one takes, a citation is an id of  *)
(* the index or the web's, and a confidence is between 0 and 1.            *)
THEOREM ServerTypeCorrect == ServerSpec => []ServerTypeOK
  <1>1. ServerSpec => []ServerTypes
    BY InitServer, StepServer, PTL DEF ServerSpec
  <1>2. ServerTypes => ServerTypeOK
    <2> SUFFICES ASSUME ServerTypes PROVE ServerTypeOK
      OBVIOUS
    <2>1. DataTypes
      BY DEF ServerTypes
    <2>2. ASSUME NEW q \in Queries
          PROVE  /\ Sources(chunks[q]) \subseteq Ids \union {Web}
                 /\ draft[q].cites \subseteq Ids \union {Web}
                 /\ issues[q] \subseteq {"abstain", "refine_answer", "retrieve_more"}
                 /\ reply[q].confidence \in 0 .. 1000
      <3>1. /\ chunks[q] \in SUBSET Evidence /\ draft[q] \in Draft
            /\ issues[q] \in SUBSET Trouble /\ reply[q] \in Response
        BY <2>1 DEF DataTypes
      <3>2. Sources(chunks[q]) \subseteq Ids \union {Web}
        BY <3>1, SourcesType
      <3>3. reply[q].confidence \in 0 .. 1000
        BY <3>1 DEF Response
      <3>4. QED
        BY <3>1, <3>2, <3>3 DEF Draft, Trouble
    <2>3. QED
      BY <2>1, <2>2 DEF ServerTypeOK, DataTypes
  <1>3. QED
    BY <1>1, <1>2, PTL

-----------------------------------------------------------------------------
(* The guards again, with the queries that hold a slot of them.            *)
Insiders == {q \in Queries : Underway(q)}

ServerSlotsInv ==
    /\ inflight = Cardinality(Holders) + Cardinality(Insiders)
    /\ ingesting = Cardinality(Readers)
    /\ inflight <= limits.inflight /\ ingesting <= limits.ingest
    /\ \A s \in Stages : busy[s] = Cardinality(InStage(s)) /\ busy[s] <= stageLimit[s]

LEMMA QueryCounting ==
    ASSUME NEW S \in SUBSET Queries, NEW q \in Queries
    PROVE  /\ Cardinality(S) \in Nat
           /\ q \notin S => Cardinality(S \union {q}) = Cardinality(S) + 1
           /\ q \in S => /\ Cardinality(S) > 0
                         /\ Cardinality(S \ {q}) = Cardinality(S) - 1
  <1>1. IsFiniteSet(S)
    BY FS_Subset, QueryAssumption
  <1>2. Cardinality(S) \in Nat
    BY <1>1, FS_CardinalityType
  <1>3. q \notin S => Cardinality(S \union {q}) = Cardinality(S) + 1
    BY <1>1, FS_AddElement
  <1>4. q \in S => Cardinality(S \ {q}) = Cardinality(S) - 1
    BY <1>1, FS_RemoveElement
  <1>5. q \in S => Cardinality(S) # 0
    BY <1>1, FS_EmptySet
  <1>6. QED
    BY <1>2, <1>3, <1>4, <1>5

(* The query enters the stage it is before, leaves the one it is in, or    *)
(* stays where it is with respect to all of them.                          *)
TakesStage(q) ==
    /\ busy' = [busy EXCEPT ![stage[q]] = @ + 1] /\ busy[stage[q]] < stageLimit[stage[q]]
    /\ place[q] # "in" /\ place'[q] = "in" /\ stage'[q] = stage[q]
GivesStage(q) ==
    /\ Release(q)
    /\ place[q] = "in" /\ place'[q] # "in"
KeepsStage(q) ==
    /\ busy' = busy
    /\ \/ place[q] # "in" /\ place'[q] # "in"
       \/ place'[q] = place[q] /\ stage'[q] = stage[q]

TakesQuery(q) == /\ inflight' = inflight + 1 /\ inflight < limits.inflight
                 /\ ~Underway(q) /\ place'[q] \notin {"start", "answered"}
GivesQuery(q) == /\ inflight' = Exit(inflight)
                 /\ Underway(q) /\ place'[q] = "answered"
KeepsQuery(q) == /\ inflight' = inflight
                 /\ Underway(q) <=> place'[q] \notin {"start", "answered"}

OthersStay(q) == \A p \in Queries \ {q} : place'[p] = place[p] /\ stage'[p] = stage[p]

LEMMA QueryMoves ==
    ASSUME DataTypes, NEW q \in Queries, QueryEnter(q) \/ QueryEnterRefused(q) \/ PostQuery(q)
    PROVE  OthersStay(q)
  <1>1. /\ place \in [Queries -> Place] /\ stage \in [Queries -> Stages]
    BY DEF DataTypes
  <1>2. /\ place' = place \/ \E p : Move(q, p)
        /\ stage' = stage \/ \E s : stage' = [stage EXCEPT ![q] = s]
    <2>1. CASE ModelGivesUp(q)
      BY <2>1 DEF ModelGivesUp, Written, Before, RefuseWith
    <2>2. CASE Retrieve(q)
      BY <2>2 DEF Retrieve, Before, RefuseWith
    <2>3. CASE Reflect(q)
      BY <2>3 DEF Reflect, Before
    <2>4. CASE \/ QueryEnter(q) \/ QueryEnterRefused(q) \/ QueryLimited(q) \/ QueryAllowed(q)
               \/ PolicyRefuses(q) \/ PolicyAllows(q) \/ EnterStage(q) \/ StageRefused(q)
               \/ RetrieveRaises(q) \/ Grade(q) \/ NoEvidence(q) \/ ModelAnswers(q)
               \/ ModelRetry(q) \/ Heal(q) \/ Respond(q) \/ QueryLeave(q)
      BY <2>4 DEF QueryEnter, QueryEnterRefused, QueryLimited, QueryAllowed, PolicyRefuses,
                  PolicyAllows, EnterStage, StageRefused, RetrieveRaises, Grade, NoEvidence,
                  ModelAnswers, ModelRetry, Heal, Respond, QueryLeave, Written, Before, RefuseWith
    <2>5. QED
      BY <2>1, <2>2, <2>3, <2>4 DEF PostQuery
  <1>3. QED
    BY <1>1, <1>2 DEF OthersStay, Move

LEMMA QuerySlots ==
    ASSUME DataTypes, NEW q \in Queries, QueryEnter(q) \/ QueryEnterRefused(q) \/ PostQuery(q)
    PROVE  /\ TakesQuery(q) \/ GivesQuery(q) \/ KeepsQuery(q)
           /\ TakesStage(q) \/ GivesStage(q) \/ KeepsStage(q)
  <1>1. place \in [Queries -> Place] /\ \A p : Move(q, p) => place'[q] = p
    BY DEF DataTypes, Move
  <1>2. CASE QueryEnter(q)
    BY <1>1, <1>2 DEF QueryEnter, TakesQuery, KeepsStage, Underway
  <1>3. CASE QueryEnterRefused(q)
    BY <1>1, <1>3 DEF QueryEnterRefused, KeepsQuery, KeepsStage, Underway
  <1>4. CASE QueryLeave(q)
    BY <1>1, <1>4 DEF QueryLeave, GivesQuery, KeepsStage, Underway
  <1>5. CASE EnterStage(q)
    BY <1>1, <1>5 DEF EnterStage, KeepsQuery, TakesStage, Underway
  <1>6. CASE \/ QueryLimited(q) \/ QueryAllowed(q) \/ PolicyRefuses(q) \/ PolicyAllows(q)
             \/ StageRefused(q) \/ Respond(q)
    <2>1. /\ place[q] \notin {"start", "answered", "in"} /\ UNCHANGED <<inflight, busy>>
          /\ place'[q] \in {"leave", "policy", "before"}
      BY <1>1, <1>6 DEF QueryLimited, QueryAllowed, PolicyRefuses, PolicyAllows, StageRefused,
                        Respond, RefuseWith, Before
    <2>2. QED
      BY <2>1 DEF KeepsQuery, KeepsStage, Underway
  <1>7. CASE \/ Retrieve(q) \/ RetrieveRaises(q) \/ Grade(q) \/ NoEvidence(q) \/ ModelAnswers(q)
             \/ ModelGivesUp(q) \/ Reflect(q) \/ Heal(q)
    <2>1. /\ place[q] = "in" /\ UNCHANGED inflight /\ Release(q)
          /\ place'[q] \in {"leave", "before", "respond"}
      <3>1. CASE Retrieve(q)
        BY <1>1, <3>1 DEF Retrieve, In, RefuseWith, Before
      <3>2. CASE ModelGivesUp(q)
        BY <1>1, <3>2 DEF ModelGivesUp, In, Written, RefuseWith, Before
      <3>3. CASE Reflect(q)
        BY <1>1, <3>3 DEF Reflect, In, Before
      <3>4. CASE RetrieveRaises(q) \/ Grade(q) \/ NoEvidence(q) \/ ModelAnswers(q) \/ Heal(q)
        BY <1>1, <3>4 DEF RetrieveRaises, Grade, NoEvidence, ModelAnswers, Heal, In, Written,
                          RefuseWith, Before
      <3>5. QED
        BY <1>7, <3>1, <3>2, <3>3, <3>4
    <2>2. QED
      BY <2>1 DEF KeepsQuery, GivesStage, Underway
  <1>8. CASE ModelRetry(q)
    BY <1>8 DEF ModelRetry, KeepsQuery, KeepsStage, Underway
  <1>9. QED
    BY <1>2, <1>3, <1>4, <1>5, <1>6, <1>7, <1>8 DEF PostQuery

LEMMA StageTypes ==
    ASSUME DataTypes
    PROVE  /\ stageLimit \in [Stages -> Nat]
           /\ Insiders \in SUBSET Queries /\ \A s : InStage(s) \in SUBSET Queries
  BY QueryAssumption DEF DataTypes, Insiders, InStage

LEMMA StageStep ==
    ASSUME DataTypes, NEW q \in Queries, OthersStay(q),
           TakesStage(q) \/ GivesStage(q) \/ KeepsStage(q), NEW s \in Stages,
           busy[s] = Cardinality(InStage(s)), busy[s] <= stageLimit[s]
    PROVE  busy'[s] = Cardinality(InStage(s)') /\ busy'[s] <= stageLimit[s]
  <1>1. stage[q] \in Stages /\ busy \in [Stages -> Nat] /\ stageLimit[s] \in Nat
    BY StageTypes DEF DataTypes
  <1>2. CASE TakesStage(q)
    <2>1. CASE s = stage[q]
      <3>1. q \notin InStage(s) /\ InStage(s)' = InStage(s) \union {q}
        BY <1>2, <2>1 DEF TakesStage, OthersStay, InStage, In
      <3>2. Cardinality(InStage(s)') = Cardinality(InStage(s)) + 1
        BY <3>1, QueryCounting, StageTypes
      <3>3. QED
        BY <1>1, <1>2, <2>1, <3>2 DEF TakesStage
    <2>2. CASE s # stage[q]
      <3>1. InStage(s)' = InStage(s)
        BY <1>2, <2>2 DEF TakesStage, OthersStay, InStage, In
      <3>2. QED
        BY <1>1, <1>2, <2>2, <3>1 DEF TakesStage
    <2>3. QED
      BY <2>1, <2>2
  <1>3. CASE GivesStage(q)
    <2>1. CASE s = stage[q]
      <3>1. q \in InStage(s) /\ InStage(s)' = InStage(s) \ {q}
        BY <1>3, <2>1 DEF GivesStage, OthersStay, InStage, In
      <3>2. /\ Cardinality(InStage(s)') = Cardinality(InStage(s)) - 1
            /\ Cardinality(InStage(s)) > 0
        BY <3>1, QueryCounting, StageTypes
      <3>3. QED
        BY <1>1, <1>3, <2>1, <3>2 DEF GivesStage, Release, Exit
    <2>2. CASE s # stage[q]
      <3>1. InStage(s)' = InStage(s)
        BY <1>3, <2>2 DEF GivesStage, OthersStay, InStage, In
      <3>2. QED
        BY <1>1, <1>3, <2>2, <3>1 DEF GivesStage, Release
    <2>3. QED
      BY <2>1, <2>2
  <1>4. CASE KeepsStage(q)
    <2>1. InStage(s)' = InStage(s)
      BY <1>4 DEF KeepsStage, OthersStay, InStage, In
    <2>2. QED
      BY <1>4, <2>1 DEF KeepsStage
  <1>5. QED
    BY <1>2, <1>3, <1>4

LEMMA InsiderStep ==
    ASSUME DataTypes, TypeOK, NEW q \in Queries, OthersStay(q), UNCHANGED <<pc, limits>>,
           TakesQuery(q) \/ GivesQuery(q) \/ KeepsQuery(q),
           inflight = Cardinality(Holders) + Cardinality(Insiders),
           inflight <= limits.inflight
    PROVE  /\ inflight' = Cardinality(Holders') + Cardinality(Insiders')
           /\ inflight' <= limits.inflight'
  <1>1. Holders' = Holders
    BY DEF Holders, Inside
  <1>2. /\ Cardinality(Holders) \in Nat /\ limits.inflight \in Nat
    <2>1. IsFiniteSet(Holders)
      BY FS_Subset, SlotTypes, DocsAssumption
    <2>2. QED
      BY <2>1, FS_CardinalityType, SlotTypes
  <1>3. CASE TakesQuery(q)
    <2>1. q \notin Insiders /\ Insiders' = Insiders \union {q}
      BY <1>3 DEF TakesQuery, OthersStay, Insiders, Underway
    <2>2. Cardinality(Insiders') = Cardinality(Insiders) + 1 /\ Cardinality(Insiders) \in Nat
      BY <2>1, QueryCounting, StageTypes
    <2>3. QED
      BY <1>1, <1>2, <1>3, <2>2 DEF TakesQuery
  <1>4. CASE GivesQuery(q)
    <2>1. q \in Insiders /\ Insiders' = Insiders \ {q}
      BY <1>4 DEF GivesQuery, OthersStay, Insiders, Underway
    <2>2. /\ Cardinality(Insiders') = Cardinality(Insiders) - 1
          /\ Cardinality(Insiders) \in Nat /\ Cardinality(Insiders) > 0
      BY <2>1, QueryCounting, StageTypes
    <2>3. QED
      BY <1>1, <1>2, <1>4, <2>2 DEF GivesQuery, Exit
  <1>5. CASE KeepsQuery(q)
    <2>1. Insiders' = Insiders
      BY <1>5 DEF KeepsQuery, OthersStay, Insiders, Underway
    <2>2. QED
      BY <1>1, <1>5, <2>1 DEF KeepsQuery
  <1>6. QED
    BY <1>3, <1>4, <1>5

LEMMA StepServerSlots == ServerTypes /\ ServerSlotsInv /\ [ServerNext]_serverVars => ServerSlotsInv'
  <1> SUFFICES ASSUME ServerTypes, ServerSlotsInv, [ServerNext]_serverVars PROVE ServerSlotsInv'
    OBVIOUS
  <1>1. DataTypes /\ TypeOK /\ UNCHANGED <<limits, stageLimit>>
    BY FixedKept DEF ServerTypes, TypeInv
  <1>2. CASE UNCHANGED serverVars
    BY <1>2 DEF serverVars, vars, fixed, requestVars, guardVars, queryFixed, ServerSlotsInv,
                Holders, Readers, Inside, InIngest, Insiders, Underway, InStage, In
  <1>3. CASE DocsStep
    <2>1. PICK r \in Requests : Enter(r) \/ EnterRefused(r) \/ PostDocs(r)
      BY <1>3 DEF DocsStep
    <2>2. /\ TakesInflight(r) \/ GivesInflight(r) \/ KeepsInflight
          /\ TakesIngest(r) \/ GivesIngest(r) \/ KeepsIngest
      BY <1>1, <2>1, RequestSlots
    <2>3. Insiders' = Insiders /\ \A s : InStage(s)' = InStage(s)
      BY <1>3 DEF DocsStep, Insiders, Underway, InStage, In
    <2>4. /\ Cardinality(Insiders) \in Nat /\ Cardinality(Holders) \in Nat
          /\ limits.inflight \in Nat /\ limits.ingest \in Nat
      <3>1. IsFiniteSet(Insiders) /\ IsFiniteSet(Holders)
        BY <1>1, FS_Subset, StageTypes, SlotTypes, QueryAssumption, DocsAssumption
      <3>2. QED
        BY <1>1, <3>1, FS_CardinalityType, SlotTypes
    <2>5. /\ inflight' = Cardinality(Holders') + Cardinality(Insiders')
          /\ inflight' <= limits.inflight
      <3>1. CASE TakesInflight(r)
        <4>1. Cardinality(Holders') = Cardinality(Holders) + 1
          BY <1>1, <3>1, Counting, SlotTypes DEF TakesInflight
        <4>2. QED
          BY <2>3, <2>4, <3>1, <4>1 DEF TakesInflight, ServerSlotsInv
      <3>2. CASE GivesInflight(r)
        <4>1. Cardinality(Holders') = Cardinality(Holders) - 1 /\ Cardinality(Holders) > 0
          BY <1>1, <3>2, Counting, SlotTypes DEF GivesInflight
        <4>2. QED
          BY <2>3, <2>4, <3>2, <4>1 DEF GivesInflight, ServerSlotsInv, Exit
      <3>3. CASE KeepsInflight
        BY <2>3, <3>3 DEF KeepsInflight, ServerSlotsInv
      <3>4. QED
        BY <2>2, <3>1, <3>2, <3>3
    <2>6. ingesting' = Cardinality(Readers') /\ ingesting' <= limits.ingest
      <3>1. CASE TakesIngest(r)
        <4>1. Cardinality(Readers') = Cardinality(Readers) + 1 /\ Cardinality(Readers) \in Nat
          BY <1>1, <3>1, SlotTypes, Counting DEF TakesIngest
        <4>2. QED
          BY <2>4, <3>1, <4>1 DEF TakesIngest, ServerSlotsInv
      <3>2. CASE GivesIngest(r)
        <4>1. /\ Cardinality(Readers') = Cardinality(Readers) - 1
              /\ Cardinality(Readers) \in Nat /\ Cardinality(Readers) > 0
          BY <1>1, <3>2, SlotTypes, Counting DEF GivesIngest
        <4>2. QED
          BY <2>4, <3>2, <4>1 DEF GivesIngest, ServerSlotsInv, Exit
      <3>3. CASE KeepsIngest
        BY <3>3 DEF KeepsIngest, ServerSlotsInv
      <3>4. QED
        BY <2>2, <3>1, <3>2, <3>3
    <2>7. QED
      BY <1>1, <1>3, <2>3, <2>5, <2>6 DEF ServerSlotsInv, DocsStep
  <1>4. ASSUME NEW q \in Queries, QueryEnter(q) \/ QueryEnterRefused(q) \/ PostQuery(q)
        PROVE  ServerSlotsInv'
    <2>1. UNCHANGED <<pc, ingesting>>
      BY <1>4 DEF docsVars, requestVars, QueryEnter, QueryEnterRefused, PostQuery, QueryLimited,
           QueryAllowed, PolicyRefuses, PolicyAllows, EnterStage, StageRefused, Retrieve,
           RetrieveRaises, Grade, NoEvidence, ModelAnswers, ModelRetry, ModelGivesUp, Reflect,
           Heal, Respond, QueryLeave
    <2>2. OthersStay(q)
      BY <1>1, <1>4, QueryMoves
    <2>3. /\ TakesQuery(q) \/ GivesQuery(q) \/ KeepsQuery(q)
          /\ TakesStage(q) \/ GivesStage(q) \/ KeepsStage(q)
      BY <1>1, <1>4, QuerySlots
    <2>4. /\ inflight' = Cardinality(Holders') + Cardinality(Insiders')
          /\ inflight' <= limits.inflight'
      BY <1>1, <2>1, <2>2, <2>3, InsiderStep DEF ServerSlotsInv
    <2>5. \A s \in Stages : busy'[s] = Cardinality(InStage(s)') /\ busy'[s] <= stageLimit[s]
      BY <1>1, <2>2, <2>3, StageStep DEF ServerSlotsInv
    <2>6. Readers' = Readers
      BY <2>1 DEF Readers, InIngest
    <2>7. QED
      BY <1>1, <2>1, <2>4, <2>5, <2>6 DEF ServerSlotsInv
  <1>5. CASE ServerCrash
    <2>1. Insiders' = {} /\ \A s : InStage(s)' = {}
      <3>1. \A q \in Queries : place'[q] \in {"start", "answered"}
        BY <1>5 DEF ServerCrash, Underway
      <3>2. QED
        BY <3>1 DEF Insiders, Underway, InStage, In
    <2>2. Holders' = {} /\ Readers' = {} /\ inflight' = 0 /\ ingesting' = 0
      BY <1>1, <1>5, CrashSlots DEF ServerCrash
    <2>3. /\ limits.inflight \in Nat /\ limits.ingest \in Nat
          /\ \A s \in Stages : busy'[s] = 0 /\ stageLimit[s] \in Nat
      BY <1>1, <1>5, SlotTypes, StageTypes DEF ServerCrash
    <2>4. Cardinality({}) = 0
      BY FS_EmptySet
    <2>5. /\ inflight' = Cardinality(Holders') + Cardinality(Insiders')
          /\ ingesting' = Cardinality(Readers')
          /\ \A s \in Stages : busy'[s] = Cardinality(InStage(s)')
      <3>1. Cardinality(Holders') = 0 /\ Cardinality(Readers') = 0 /\ Cardinality(Insiders') = 0
        BY <2>1, <2>2, <2>4
      <3>2. \A s \in Stages : Cardinality(InStage(s)') = 0
        BY <2>1, <2>4, Zenon
      <3>3. QED
        BY <2>2, <2>3, <3>1, <3>2
    <2>6. QED
      BY <1>1, <2>2, <2>3, <2>5 DEF ServerSlotsInv
  <1>6. QED
    BY <1>2, <1>3, <1>4, <1>5 DEF ServerNext

(* The inflight guard is shared by the threads of both endpoints and each  *)
(* stage has a bulkhead of its own: no way out of docs(), query() or a     *)
(* stage leaks a slot, or gives back another request's.                    *)
THEOREM ServerSlotsCorrect == ServerSpec => []ServerSlotsMatch
  <1>1. ServerInit => ServerTypes /\ ServerSlotsInv
    <2> SUFFICES ASSUME ServerInit PROVE ServerSlotsInv
      BY InitServer
    <2>1. ServerTypes
      BY InitServer
    <2>2. Holders = {} /\ Readers = {} /\ Insiders = {} /\ \A s : InStage(s) = {}
      BY DEF ServerInit, Init, Holders, Readers, Inside, InIngest, Insiders, Underway,
             InStage, In
    <2>3. /\ limits.inflight \in Nat /\ limits.ingest \in Nat
          /\ stageLimit \in [Stages -> Nat]
      BY <2>1, SlotTypes, StageTypes DEF ServerTypes, TypeInv
    <2>4. Cardinality({}) = 0
      BY FS_EmptySet
    <2>5. /\ inflight = Cardinality(Holders) + Cardinality(Insiders)
          /\ ingesting = Cardinality(Readers)
          /\ \A s \in Stages : busy[s] = Cardinality(InStage(s))
      <3>1. Cardinality(Holders) = 0 /\ Cardinality(Readers) = 0 /\ Cardinality(Insiders) = 0
        BY <2>2, <2>4
      <3>2. \A s \in Stages : Cardinality(InStage(s)) = 0
        BY <2>2, <2>4, Zenon
      <3>3. QED
        BY <3>1, <3>2 DEF ServerInit, Init
    <2>6. QED
      BY <2>3, <2>5 DEF ServerInit, Init, ServerSlotsInv
  <1>2. ServerTypes /\ ServerSlotsInv /\ [ServerNext]_serverVars
           => (ServerTypes /\ ServerSlotsInv)'
    BY StepServer, StepServerSlots
  <1>3. ServerSlotsInv => ServerSlotsMatch
    BY DEF ServerSlotsInv, ServerSlotsMatch, Holders, Insiders
  <1>4. QED
    BY <1>1, <1>2, <1>3, PTL DEF ServerSpec

-----------------------------------------------------------------------------
(* The tables of POST /docs beside the queries: a query reads the chunk    *)
(* store and writes none of them.                                          *)
LastSent == \A id \in Ids : last[id] # Nobody => last[id] \in DOMAIN body

TablesInv == CreatorInv /\ StoreInv /\ LastSent

LEMMA QueryKeepsDocs ==
    ASSUME NEW q \in Queries, QueryEnter(q) \/ QueryEnterRefused(q) \/ PostQuery(q)
    PROVE  UNCHANGED docsVars
  BY DEF QueryEnter, QueryEnterRefused, PostQuery, QueryLimited, QueryAllowed, PolicyRefuses,
         PolicyAllows, EnterStage, StageRefused, Retrieve, RetrieveRaises, Grade, NoEvidence,
         ModelAnswers, ModelRetry, ModelGivesUp, Reflect, Heal, Respond, QueryLeave

(* Only BeginDoc says who deleted last, and a document that two requests   *)
(* were writing at once stays marked.                                      *)
LEMMA HistoryStep ==
    ASSUME TypeInv, LastSent, [Next]_vars
    PROVE  LastSent' /\ mixed \subseteq mixed'
  <1> USE DEF fixed, requestVars, guardVars, tableVars, history
  <1>1. UNCHANGED body
    BY FixedKept
  <1>2. CASE \E r \in Requests : BeginDoc(r)
    <2>1. PICK r \in Requests : BeginDoc(r)
      BY <1>2
    <2>2. r \in DOMAIN body /\ last' = [last EXCEPT ![Doc(r).id] = r] /\ mixed \subseteq mixed'
      BY <2>1 DEF BeginDoc, NoteOverlap, TypeInv, PlaceOK
    <2>3. QED
      BY <1>1, <2>2 DEF LastSent, TypeInv, TypeOK
  <1>3. CASE UNCHANGED last /\ mixed \subseteq mixed'
    BY <1>1, <1>3 DEF LastSent
  <1>4. QED
    BY <1>2, <1>3 DEF Next, vars, Enter, EnterRefused, PostDocs, LimitRefuses, LimitAllows, Seen,
           Mark, DecodeRaises, TableRaises, Create, AlreadyCreated, EnterIngest, IngestRefused, Ingest,
           SkipDoc, Upsert, NoteOverlap, EndIngest, IngestRaises, Complete, CompleteRaises,
           Leave, Crash

LEMMA StepTables ==
    ServerTypes /\ TablesInv /\ [ServerNext]_serverVars => TablesInv' /\ mixed \subseteq mixed'
  <1> SUFFICES ASSUME ServerTypes, TablesInv, [ServerNext]_serverVars
               PROVE  TablesInv' /\ mixed \subseteq mixed'
    OBVIOUS
  <1>1. TypeInv /\ CreatorInv /\ StoreInv /\ LastSent
    BY DEF ServerTypes, TablesInv
  <1>2. CASE [Next]_vars
    BY <1>1, <1>2, StepCreator, StepStore, HistoryStep DEF TablesInv
  <1>3. ASSUME NEW q \in Queries, QueryEnter(q) \/ QueryEnterRefused(q) \/ PostQuery(q)
        PROVE  TablesInv' /\ mixed \subseteq mixed'
    <2>1. UNCHANGED <<body, pc, created, answer, at, jobs, store, last, mixed>>
      BY <1>3, QueryKeepsDocs DEF docsVars, fixed, requestVars, tableVars, history
    <2>2. CreatorInv'
      BY <1>1, <2>1, KeyKept DEF CreatorInv, CreatedOK, OneEach, Somebody, AnswersTruthful
    <2>3. StoreInv'
      BY <1>1, <2>1, KeyKept, QuietStore DEF Done
    <2>4. QED
      BY <1>1, <2>1, <2>2, <2>3 DEF TablesInv, LastSent
  <1>4. QED
    BY <1>2, <1>3, DocsStepIsNext DEF ServerNext, serverVars

LEMMA TablesCorrect == ServerSpec => [](ServerTypes /\ TablesInv)
  <1>1. ServerInit => ServerTypes /\ TablesInv
    BY InitServer, InitCreator, InitStore DEF ServerInit, Init, TablesInv, LastSent
  <1>2. ServerTypes /\ TablesInv /\ [ServerNext]_serverVars => (ServerTypes /\ TablesInv)'
    BY StepServer, StepTables
  <1>3. QED
    BY <1>1, <1>2, PTL DEF ServerSpec

(* What POST /docs promises of jobs, answers and chunks it keeps with      *)
(* queries running beside it, reading its store and taking its slots.      *)
THEOREM DocsPromisesKept ==
    ServerSpec => [](OneCreator /\ AnswersTruthful /\ NoStaleChunks /\ CompletedIsStored)
  <1>1. ServerTypes /\ TablesInv
           => OneCreator /\ AnswersTruthful /\ NoStaleChunks /\ CompletedIsStored
    BY CreatorImplies, StoreImplies DEF ServerTypes, TablesInv, CreatorInv, StoreInv
  <1>2. QED
    BY <1>1, TablesCorrect, PTL

-----------------------------------------------------------------------------
(* The evidence of a query.                                                *)
LEMMA SameVersion ==
    ASSUME ServerTypes, TablesInv, NEW c \in store, NEW d \in store,
           c.source = d.source, c.source \notin mixed
    PROVE  c.text = d.text /\ c.tenant = d.tenant
  <1>1. PICK id \in Ids : id = c.source /\ c \in StoredOf(id) /\ d \in StoredOf(id)
    BY DEF ServerTypes, TypeInv, TypeOK, StoredOf
  <1>2. PICK r : r = last[id]
    OBVIOUS
  <1>3. /\ r # Nobody
        /\ \E i \in Indexed(body[r]) : c \in PiecesOf(r, body[r].docs[i])
        /\ \E i \in Indexed(body[r]) : d \in PiecesOf(r, body[r].docs[i])
    BY <1>1, <1>2 DEF TablesInv, StoreInv, NoStaleChunks
  <1>4. PICK i \in Indexed(body[r]) : c \in PiecesOf(r, body[r].docs[i])
    BY <1>3
  <1>5. PICK j \in Indexed(body[r]) : d \in PiecesOf(r, body[r].docs[j])
    BY <1>3
  <1>6. /\ c.source = body[r].docs[i].id /\ c.text = body[r].docs[i].text
        /\ c.tenant = body[r].tenant
    BY <1>4 DEF PiecesOf, PieceOf
  <1>7. /\ d.source = body[r].docs[j].id /\ d.text = body[r].docs[j].text
        /\ d.tenant = body[r].tenant
    BY <1>5 DEF PiecesOf, PieceOf
  <1>8. body[r] \in Body
    BY <1>1, <1>2, <1>3, BodyFacts DEF ServerTypes, TypeInv, TypeOK, TablesInv, LastSent
  <1>9. i = j
    <2>1. body[r].docs[i].id = body[r].docs[j].id
      BY <1>6, <1>7
    <2>2. QED
      BY <1>8, <2>1, DistinctIds
  <1>10. QED
    BY <1>6, <1>7, <1>9

(* Retrieval reads all of its chunks in one critical section, the grader   *)
(* drops some of them, and nobody adds any.                                *)
LEMMA ChunkSteps ==
    ASSUME ServerTypes, [ServerNext]_serverVars
    PROVE  \/ UNCHANGED chunks
           \/ \E q \in Queries : Retrieve(q)
           \/ \E q \in Queries : \E s \in SUBSET chunks[q] : chunks' = [chunks EXCEPT ![q] = s]
  <1> USE DEF dataVars
  <1>1. ASSUME NEW q \in Queries, Grade(q)
        PROVE  \E s \in SUBSET chunks[q] : chunks' = [chunks EXCEPT ![q] = s]
    BY <1>1 DEF Grade, Selected, First
  <1>2. QED
    BY <1>1 DEF ServerNext, serverVars, DocsStep, ServerCrash, QueryEnter, QueryEnterRefused,
         PostQuery, QueryLimited, QueryAllowed, PolicyRefuses, PolicyAllows, EnterStage,
         StageRefused, RetrieveRaises, NoEvidence, ModelAnswers, ModelRetry,
         ModelGivesUp, Reflect, Heal, Respond, QueryLeave

LEMMA StepEvidence ==
    ServerTypes /\ TablesInv /\ EvidenceOneVersion /\ [ServerNext]_serverVars
       => EvidenceOneVersion'
  <1> SUFFICES ASSUME ServerTypes, TablesInv, EvidenceOneVersion, [ServerNext]_serverVars,
                      NEW p \in Queries, NEW c \in chunks'[p], NEW d \in chunks'[p],
                      c.source = d.source, c.source \notin mixed' \union {Web}
               PROVE  c.text = d.text /\ c.tenant = d.tenant
    BY DEF EvidenceOneVersion
  <1>1. c.source \notin mixed \union {Web} /\ chunks \in [Queries -> SUBSET Evidence] /\ TypeOK
    BY StepTables DEF ServerTypes, DataTypes, TypeInv
  <1>2. CASE c \in chunks[p] /\ d \in chunks[p]
    BY <1>1, <1>2 DEF EvidenceOneVersion
  <1>3. ASSUME NEW q \in Queries, Retrieve(q)
        PROVE  c.text = d.text /\ c.tenant = d.tenant
    <2>1. CASE p # q
      <3>1. chunks'[p] = chunks[p]
        BY <1>1, <1>3, <2>1, RetrievedFacts
      <3>2. QED
        BY <1>2, <3>1
    <2>2. CASE p = q
      <3>1. \A e \in chunks'[q] : e = WebChunk \/ \E f \in store :
               e.source = f.source /\ e.text = f.text /\ e.tenant = f.tenant
        BY <1>1, <1>3, RetrievedFacts
      <3>2. WebChunk.source = Web
        BY DEF WebChunk
      <3>3. /\ \E f \in store : c.source = f.source /\ c.text = f.text /\ c.tenant = f.tenant
            /\ \E f \in store : d.source = f.source /\ d.text = f.text /\ d.tenant = f.tenant
        BY <1>1, <2>2, <3>1, <3>2
      <3>4. QED
        BY <1>1, <3>3, SameVersion
    <2>3. QED
      BY <2>1, <2>2
  <1>4. QED
    BY <1>1, <1>2, <1>3, ChunkSteps

(* One read of the table, and each document rewritten behind one delete: a *)
(* query never mixes two versions of a document, or two tenants' documents *)
(* of one id, unless two posts were writing it at once.                    *)
THEOREM EvidenceCorrect == ServerSpec => []EvidenceOneVersion
  <1>1. ServerInit => EvidenceOneVersion
    BY DEF ServerInit, EvidenceOneVersion
  <1>2. ServerTypes /\ TablesInv /\ EvidenceOneVersion /\ [ServerNext]_serverVars
           => EvidenceOneVersion'
    BY StepEvidence
  <1>3. QED
    BY <1>1, <1>2, TablesCorrect, PTL DEF ServerSpec

-----------------------------------------------------------------------------
(* What a query has on its way to its answer: evidence of its tenant, no   *)
(* citation before there is a text, and none that the evidence lacks.  A   *)
(* text that was reflected on has an issue, so it was healed.              *)
Repaired(d) == d.from \in {"noted", "abstain"} /\ (d.from = "abstain" => d.cites = {})

UnderwayOK(q) ==
    /\ place[q] \in {"start", "limit", "policy"} => stage[q] = "retrieve"
    /\ stage[q] \in {"retrieve", "grade", "generate"} => draft[q].cites = {}
    /\ stage[q] = "heal" => "abstain" \in issues[q]
    /\ place[q] = "respond" => stage[q] = "heal" /\ Repaired(draft[q])

GroundedOK(q) ==
    /\ draft[q].cites \subseteq Sources(chunks[q])
    /\ \A c \in chunks[q] : c.tenant \in {ask[q].tenant, Public}

AnsweredOK(q) ==
    Answered(q) =>
        /\ place[q] \in {"leave", "answered"} /\ stage[q] = "heal"
        /\ Repaired(draft[q])
        /\ reply[q].from = draft[q].from /\ reply[q].cites = draft[q].cites
        /\ reply[q].abstained /\ reply[q].confidence = 0

AnswerOK(q) == UnderwayOK(q) /\ GroundedOK(q) /\ AnsweredOK(q)

AnswerInv == \A q \in Queries : AnswerOK(q)

LEMMA InitAnswer == ServerInit => AnswerInv
  BY DEF ServerInit, AnswerInv, AnswerOK, UnderwayOK, GroundedOK, AnsweredOK, Answered, NoText,
         NoReply

LEMMA AnswerKept ==
    ASSUME NEW p \in Queries, AnswerOK(p), UNCHANGED ask,
           place'[p] = place[p], stage'[p] = stage[p], chunks'[p] = chunks[p],
           draft'[p] = draft[p], issues'[p] = issues[p], reply'[p] = reply[p]
    PROVE  AnswerOK(p)'
  BY DEF AnswerOK, UnderwayOK, GroundedOK, AnsweredOK, Answered, Sources

(* A query that is refused or lost says nothing about its evidence.        *)
LEMMA Refused ==
    ASSUME ServerTypes, NEW q \in Queries, AnswerOK(q), NEW status \in Refusals,
           RefuseWith(q, status), UNCHANGED <<ask, stage, chunks, draft, issues>>
    PROVE  AnswerOK(q)'
  <1>1. /\ place \in [Queries -> Place] /\ reply \in [Queries -> Response]
    BY DEF ServerTypes, DataTypes
  <1>2. place'[q] = "leave" /\ reply'[q].status = status
    BY <1>1 DEF RefuseWith, Move, Reply, NoReply
  <1>3. ~Answered(q)'
    BY <1>2 DEF Answered, Refusals
  <1>4. UnderwayOK(q)' /\ GroundedOK(q)'
    BY <1>2 DEF AnswerOK, UnderwayOK, GroundedOK, Sources
  <1>5. QED
    BY <1>3, <1>4 DEF AnswerOK, AnsweredOK

LEMMA RetrieveAnswer ==
    ASSUME ServerTypes, NEW q \in Queries, AnswerOK(q), Retrieve(q)
    PROVE  AnswerOK(q)'
  <1>1. /\ place \in [Queries -> Place] /\ stage \in [Queries -> Stages] /\ TypeOK
        /\ reply \in [Queries -> Response] /\ chunks \in [Queries -> SUBSET Evidence]
    BY DEF ServerTypes, DataTypes, TypeInv
  <1>2. place[q] = "in" /\ stage[q] = "retrieve" /\ UNCHANGED <<ask, draft, issues>>
    BY DEF Retrieve, In, queryFixed
  <1>3. PICK found \in SUBSET Evidence :
           /\ chunks' = [chunks EXCEPT ![q] = found]
           /\ \/ RefuseWith(q, "forbidden") /\ UNCHANGED stage
              \/ Before(q, "grade") /\ UNCHANGED reply
           /\ \A c \in found :
                 \/ c = WebChunk
                 \/ \E d \in store : /\ d.tenant \in {ask[q].tenant, Public}
                                   /\ c.source = d.source /\ c.text = d.text
                                   /\ c.tenant = d.tenant
    BY <1>1, RetrievedFacts
  <1>4. chunks'[q] = found
    BY <1>1, <1>3
  <1>5. \A c \in found : c.tenant \in {ask[q].tenant, Public}
    BY <1>3 DEF WebChunk
  <1>6. draft[q].cites = {} /\ ~Answered(q)
    BY <1>2 DEF AnswerOK, UnderwayOK, AnsweredOK
  <1>7. GroundedOK(q)'
    BY <1>2, <1>4, <1>5, <1>6 DEF GroundedOK
  <1>8. /\ place'[q] \in {"leave", "before"} /\ stage'[q] \in {"retrieve", "grade"}
        /\ ~Answered(q)'
    <2>1. CASE RefuseWith(q, "forbidden") /\ UNCHANGED stage
      BY <1>1, <1>2, <2>1 DEF RefuseWith, Move, Reply, NoReply, Answered
    <2>2. CASE Before(q, "grade") /\ UNCHANGED reply
      BY <1>1, <1>6, <2>2 DEF Before, Move, Answered
    <2>3. QED
      BY <1>3, <2>1, <2>2
  <1>9. QED
    BY <1>2, <1>6, <1>7, <1>8 DEF AnswerOK, UnderwayOK, AnsweredOK

LEMMA GradeAnswer ==
    ASSUME ServerTypes, NEW q \in Queries, AnswerOK(q), Grade(q)
    PROVE  AnswerOK(q)'
  <1>1. /\ place \in [Queries -> Place] /\ stage \in [Queries -> Stages]
        /\ chunks \in [Queries -> SUBSET Evidence]
    BY DEF ServerTypes, DataTypes
  <1>2. /\ place[q] = "in" /\ stage[q] = "grade" /\ UNCHANGED <<ask, draft, issues, reply>>
        /\ place'[q] = "before" /\ stage'[q] = "generate"
    BY <1>1 DEF Grade, In, queryFixed, Before, Move
  <1>3. chunks'[q] \subseteq chunks[q]
    <2>1. PICK s \in Selected(chunks[q]) : chunks' = [chunks EXCEPT ![q] = s]
      BY DEF Grade
    <2>2. s \subseteq chunks[q]
      BY DEF Selected, First
    <2>3. QED
      BY <1>1, <2>1, <2>2
  <1>4. draft[q].cites = {} /\ ~Answered(q)
    BY <1>2 DEF AnswerOK, UnderwayOK, AnsweredOK
  <1>5. GroundedOK(q)'
    BY <1>2, <1>3, <1>4 DEF AnswerOK, GroundedOK
  <1>6. QED
    BY <1>2, <1>4, <1>5 DEF AnswerOK, UnderwayOK, AnsweredOK, Answered

(* Generation: what is cited is a source of the evidence.                  *)
LEMMA GeneratedAnswer ==
    ASSUME ServerTypes, NEW q \in Queries, AnswerOK(q), In(q, "generate"),
           Before(q, "reflect"), UNCHANGED <<ask, chunks, issues, reply>>,
           NEW d, d.cites \subseteq Sources(chunks[q]), draft' = [draft EXCEPT ![q] = d]
    PROVE  AnswerOK(q)'
  <1>1. /\ place \in [Queries -> Place] /\ stage \in [Queries -> Stages]
        /\ draft \in [Queries -> Draft]
    BY DEF ServerTypes, DataTypes
  <1>2. place'[q] = "before" /\ stage'[q] = "reflect" /\ draft'[q] = d /\ ~Answered(q)
    BY <1>1 DEF Before, Move, In, AnswerOK, AnsweredOK
  <1>3. GroundedOK(q)'
    BY <1>2 DEF AnswerOK, GroundedOK, Sources
  <1>4. QED
    BY <1>2, <1>3 DEF AnswerOK, UnderwayOK, AnsweredOK, Answered

LEMMA ModelAnswer ==
    ASSUME ServerTypes, NEW q \in Queries, AnswerOK(q),
           NoEvidence(q) \/ ModelAnswers(q) \/ ModelGivesUp(q)
    PROVE  AnswerOK(q)'
  <1> USE DEF queryFixed
  <1>1. DataTypes
    BY DEF ServerTypes
  <1>2. CASE NoEvidence(q)
    <2>1. Insufficient.cites \subseteq Sources(chunks[q])
      BY DEF Insufficient, NoText
    <2>2. QED
      BY <1>2, <2>1, GeneratedAnswer DEF NoEvidence
  <1>3. ASSUME NEW from \in {"model", "mock"}, NEW c, c.length \in Nat, c.repeats \in BOOLEAN,
               In(q, "generate"), Written(q, from, c), UNCHANGED <<ask, chunks, issues, reply>>
        PROVE  AnswerOK(q)'
    <2>1. PICK cites \in SUBSET Sources(chunks[q]) :
             draft' = [draft EXCEPT ![q] = [from |-> from, length |-> c.length,
                                            cites |-> cites, repeats |-> c.repeats]]
      BY <1>1, <1>3, WrittenType
    <2>2. Before(q, "reflect")
      BY <1>3 DEF Written
    <2>3. QED
      BY <1>3, <2>1, <2>2, GeneratedAnswer
  <1>4. CASE ModelAnswers(q)
    <2>1. PICK c \in Completions : Written(q, "model", c)
      BY <1>4 DEF ModelAnswers
    <2>2. QED
      BY <1>3, <1>4, <2>1, QueryAssumption DEF ModelAnswers
  <1>5. CASE ModelGivesUp(q) /\ mode.fallback
    <2> DEFINE Mock(cites) == [length |-> 120, cites |-> cites, repeats |-> FALSE]
    <2>1. PICK cites \in SUBSET Sources(chunks[q]) : Written(q, "mock", Mock(cites))
      BY <1>5 DEF ModelGivesUp
    <2>2. Mock(cites).length \in Nat /\ Mock(cites).repeats \in BOOLEAN
      OBVIOUS
    <2>3. QED
      BY <1>3, <1>5, <2>1, <2>2 DEF ModelGivesUp
  <1>6. CASE ModelGivesUp(q) /\ ~mode.fallback
    BY <1>6, Refused DEF ModelGivesUp, Refusals
  <1>7. QED
    BY <1>2, <1>4, <1>5, <1>6

(* Reflection finds an issue with every text, and healing leaves none as   *)
(* it was.                                                                 *)
LEMMA HealAnswer ==
    ASSUME ServerTypes, NEW q \in Queries, AnswerOK(q), Reflect(q) \/ Heal(q)
    PROVE  AnswerOK(q)'
  <1>1. /\ place \in [Queries -> Place] /\ stage \in [Queries -> Stages]
        /\ draft \in [Queries -> Draft] /\ issues \in [Queries -> SUBSET Trouble]
    BY DEF ServerTypes, DataTypes
  <1>2. ~Answered(q) /\ UNCHANGED <<ask, chunks, reply>>
    BY DEF Reflect, Heal, In, AnswerOK, AnsweredOK, queryFixed
  <1>3. CASE Reflect(q)
    <2>1. "abstain" \in Issues(draft[q])
      BY <1>1, EveryTextAbstains
    <2>2. place'[q] = "before" /\ stage'[q] = "heal" /\ "abstain" \in issues'[q]
      BY <1>1, <1>3, <2>1 DEF Reflect, Before, Move
    <2>3. draft' = draft
      BY <1>3 DEF Reflect
    <2>4. QED
      BY <1>2, <2>2, <2>3 DEF AnswerOK, UnderwayOK, GroundedOK, AnsweredOK, Answered, Sources
  <1>4. CASE Heal(q)
    <2>1. "abstain" \in issues[q] /\ stage[q] = "heal"
      BY <1>4 DEF Heal, In, AnswerOK, UnderwayOK
    <2>2. Healed(q) = Repair(draft[q])
      BY <2>1 DEF Healed, CircuitOpen
    <2>3. Repaired(Repair(draft[q])) /\ Repair(draft[q]).cites \subseteq draft[q].cites
      BY <1>1 DEF Repaired, Repair, Noted, Exhausted, Draft
    <2>4. draft'[q] = Repair(draft[q]) /\ place'[q] = "respond" /\ stage' = stage /\ issues' = issues
      BY <1>1, <1>4, <2>2 DEF Heal, Move
    <2>5. GroundedOK(q)'
      BY <1>2, <2>3, <2>4 DEF AnswerOK, GroundedOK, Sources
    <2>6. QED
      BY <1>2, <2>1, <2>3, <2>4, <2>5 DEF AnswerOK, UnderwayOK, AnsweredOK, Answered
  <1>5. QED
    BY <1>3, <1>4

LEMMA RespondAnswer ==
    ASSUME ServerTypes, NEW q \in Queries, AnswerOK(q), Respond(q)
    PROVE  AnswerOK(q)'
  <1>1. place \in [Queries -> Place] /\ reply \in [Queries -> Response]
    BY DEF ServerTypes, DataTypes
  <1>2. place[q] = "respond" /\ place'[q] = "leave"
    BY <1>1 DEF Respond, Move
  <1>3. UNCHANGED <<ask, stage, chunks, draft, issues>>
    BY DEF Respond, queryFixed, dataVars
  <1>4. stage[q] = "heal" /\ "abstain" \in issues[q] /\ Repaired(draft[q])
    BY <1>2 DEF AnswerOK, UnderwayOK
  <1>5. Abstained(q) = TRUE /\ Confidence(q, Abstained(q)) = 0
    BY <1>4 DEF Abstained, Confidence
  <1>6. reply'[q] = [status |-> "answered", from |-> draft[q].from, cites |-> draft[q].cites,
                     abstained |-> TRUE, confidence |-> 0]
    BY <1>1, <1>5 DEF Respond, Reply
  <1>7. UnderwayOK(q)' /\ GroundedOK(q)'
    BY <1>2, <1>3, <1>4 DEF AnswerOK, UnderwayOK, GroundedOK, Sources
  <1>8. AnsweredOK(q)'
    BY <1>2, <1>3, <1>4, <1>6 DEF AnsweredOK
  <1>9. QED
    BY <1>7, <1>8 DEF AnswerOK

LEMMA QueryData ==
    ASSUME ServerTypes, NEW q \in Queries, QueryEnter(q) \/ QueryEnterRefused(q) \/ PostQuery(q)
    PROVE  \A p \in Queries \ {q} :
              /\ place'[p] = place[p] /\ stage'[p] = stage[p] /\ chunks'[p] = chunks[p]
              /\ draft'[p] = draft[p] /\ issues'[p] = issues[p] /\ reply'[p] = reply[p]
  <1>1. DataTypes /\ TypeOK
    BY DEF ServerTypes, TypeInv
  <1>2. OthersStay(q)
    BY <1>1, QueryMoves
  <1> USE DEF dataVars
  <1>3. chunks' = chunks \/ \E s : chunks' = [chunks EXCEPT ![q] = s]
    <2>1. CASE Retrieve(q)
      BY <1>1, <2>1, RetrievedFacts
    <2>2. QED
      BY <2>1 DEF QueryEnter, QueryEnterRefused, PostQuery, QueryLimited, QueryAllowed,
         PolicyRefuses, PolicyAllows, EnterStage, StageRefused, RetrieveRaises, Grade,
         NoEvidence, ModelAnswers, ModelRetry, ModelGivesUp, Reflect, Heal, Respond, QueryLeave
  <1>4. draft' = draft \/ \E d : draft' = [draft EXCEPT ![q] = d]
    BY DEF QueryEnter, QueryEnterRefused, PostQuery, QueryLimited, QueryAllowed, PolicyRefuses,
         PolicyAllows, EnterStage, StageRefused, Retrieve, RetrieveRaises, Grade, NoEvidence,
         ModelAnswers, ModelRetry, ModelGivesUp, Written, Reflect, Heal, Respond, QueryLeave
  <1>5. issues' = issues \/ \E i : issues' = [issues EXCEPT ![q] = i]
    BY DEF QueryEnter, QueryEnterRefused, PostQuery, QueryLimited, QueryAllowed, PolicyRefuses,
         PolicyAllows, EnterStage, StageRefused, Retrieve, RetrieveRaises, Grade, NoEvidence,
         ModelAnswers, ModelRetry, ModelGivesUp, Reflect, Heal, Respond, QueryLeave
  <1>6. reply' = reply \/ \E r : Reply(q, r)
    <2>1. CASE Retrieve(q)
      BY <1>1, <2>1, RetrievedFacts DEF RefuseWith
    <2>2. QED
      BY <2>1 DEF QueryEnter, QueryEnterRefused, PostQuery, QueryLimited, QueryAllowed,
         PolicyRefuses, PolicyAllows, EnterStage, StageRefused, RetrieveRaises, Grade,
         NoEvidence, ModelAnswers, ModelRetry, ModelGivesUp, Reflect, Heal, Respond, QueryLeave,
         RefuseWith
  <1>7. QED
    BY <1>1, <1>2, <1>3, <1>4, <1>5, <1>6 DEF OthersStay, DataTypes, Reply

LEMMA StepAnswer == ServerTypes /\ AnswerInv /\ [ServerNext]_serverVars => AnswerInv'
  <1> SUFFICES ASSUME ServerTypes, AnswerInv, [ServerNext]_serverVars PROVE AnswerInv'
    OBVIOUS
  <1> USE DEF queryFixed, dataVars
  <1>1. /\ place \in [Queries -> Place] /\ stage \in [Queries -> Stages]
        /\ reply \in [Queries -> Response] /\ UNCHANGED ask
    BY FixedKept DEF ServerTypes, DataTypes
  <1>2. CASE UNCHANGED serverVars \/ DocsStep
    BY <1>1, <1>2, AnswerKept DEF serverVars, DocsStep, AnswerInv
  <1>3. ASSUME NEW q \in Queries, QueryEnter(q) \/ QueryEnterRefused(q) \/ PostQuery(q)
        PROVE  AnswerInv'
    <2>1. AnswerOK(q)
      BY DEF AnswerInv
    <2>2. AnswerOK(q)'
      <3>1. CASE Retrieve(q)
        BY <2>1, <3>1, RetrieveAnswer
      <3>2. CASE Grade(q)
        BY <2>1, <3>2, GradeAnswer
      <3>3. CASE NoEvidence(q) \/ ModelAnswers(q) \/ ModelGivesUp(q)
        BY <2>1, <3>3, ModelAnswer
      <3>4. CASE Reflect(q) \/ Heal(q)
        BY <2>1, <3>4, HealAnswer
      <3>5. CASE Respond(q)
        BY <2>1, <3>5, RespondAnswer
      <3>6. CASE QueryLimited(q) \/ PolicyRefuses(q) \/ StageRefused(q) \/ RetrieveRaises(q)
        BY <1>1, <2>1, <3>6, Refused
           DEF QueryLimited, PolicyRefuses, StageRefused, RetrieveRaises, Refusals
      <3>7. CASE QueryEnter(q) \/ QueryAllowed(q) \/ PolicyAllows(q) \/ EnterStage(q)
        <4>1. /\ UNCHANGED <<ask, chunks, draft, issues, reply>>
              /\ place[q] \in {"start", "limit", "policy", "before"}
              /\ place'[q] \in {"limit", "policy", "before", "in"}
              /\ place[q] \in {"start", "limit", "policy"} => stage'[q] = "retrieve"
              /\ stage'[q] = stage[q]
          BY <1>1, <2>1, <3>7 DEF QueryEnter, QueryAllowed, PolicyAllows, EnterStage, Before,
                                  Move, AnswerOK, UnderwayOK
        <4>2. place'[q] \in {"limit", "policy"} => stage[q] = "retrieve"
          BY <1>1, <2>1, <3>7 DEF QueryEnter, QueryAllowed, PolicyAllows, EnterStage, Before,
                                  Move, AnswerOK, UnderwayOK
        <4>3. UnderwayOK(q)' /\ GroundedOK(q)'
          BY <2>1, <4>1, <4>2 DEF AnswerOK, UnderwayOK, GroundedOK, Sources
        <4>4. ~Answered(q)'
          BY <2>1, <4>1 DEF AnswerOK, AnsweredOK, Answered
        <4>5. QED
          BY <4>3, <4>4 DEF AnswerOK, AnsweredOK
      <3>8. CASE QueryEnterRefused(q)
        <4>1. /\ UNCHANGED <<ask, stage, chunks, draft, issues>>
              /\ place'[q] = "answered" /\ reply'[q].status = "saturated"
          BY <1>1, <3>8 DEF QueryEnterRefused, Move, Reply, NoReply
        <4>2. UnderwayOK(q)' /\ GroundedOK(q)' /\ ~Answered(q)'
          BY <2>1, <4>1 DEF AnswerOK, UnderwayOK, GroundedOK, Sources, Answered
        <4>3. QED
          BY <4>2 DEF AnswerOK, AnsweredOK
      <3>9. CASE ModelRetry(q)
        BY <1>1, <2>1, <3>9, AnswerKept DEF ModelRetry
      <3>10. CASE QueryLeave(q)
        <4>1. /\ UNCHANGED <<ask, stage, chunks, draft, issues, reply>>
              /\ place'[q] = "answered"
          BY <1>1, <3>10 DEF QueryLeave, Move
        <4>2. QED
          BY <2>1, <4>1 DEF AnswerOK, UnderwayOK, GroundedOK, AnsweredOK, Sources, Answered
      <3>11. QED
        BY <1>3, <3>1, <3>2, <3>3, <3>4, <3>5, <3>6, <3>7, <3>8, <3>9, <3>10 DEF PostQuery
    <2>3. \A p \in Queries \ {q} : AnswerOK(p)'
      BY <1>1, <1>3, QueryData, AnswerKept DEF AnswerInv
    <2>4. QED
      BY <2>2, <2>3 DEF AnswerInv
  <1>4. CASE ServerCrash
    <2> SUFFICES ASSUME NEW p \in Queries PROVE AnswerOK(p)'
      BY DEF AnswerInv
    <2>1. AnswerOK(p)
      BY DEF AnswerInv
    <2>2. CASE Underway(p)
      <3>1. /\ UNCHANGED <<ask, stage, chunks, draft, issues>>
            /\ place'[p] = "answered" /\ reply'[p].status = "lost"
        BY <1>4, <2>2 DEF ServerCrash, NoReply
      <3>2. UnderwayOK(p)' /\ GroundedOK(p)' /\ ~Answered(p)'
        BY <2>1, <3>1 DEF AnswerOK, UnderwayOK, GroundedOK, Sources, Answered
      <3>3. QED
        BY <3>2 DEF AnswerOK, AnsweredOK
    <2>3. CASE ~Underway(p)
      BY <1>1, <1>4, <2>1, <2>3, AnswerKept DEF ServerCrash
    <2>4. QED
      BY <2>2, <2>3
  <1>5. QED
    BY <1>2, <1>3, <1>4 DEF ServerNext

LEMMA AnswerCorrect == ServerSpec => [](ServerTypes /\ AnswerInv)
  <1>1. ServerTypes /\ AnswerInv /\ [ServerNext]_serverVars => (ServerTypes /\ AnswerInv)'
    BY StepServer, StepAnswer
  <1>2. QED
    BY <1>1, InitServer, InitAnswer, PTL DEF ServerSpec

(* Whatever the model writes, and whichever repair strategy is set, what a *)
(* client is told the answer rests on is evidence of its own tenant.       *)
THEOREM AnswersAreGrounded == ServerSpec => []AnswersGrounded
  <1>1. AnswerInv => AnswersGrounded
    BY DEF AnswerInv, AnswerOK, GroundedOK, AnsweredOK, AnswersGrounded
  <1>2. QED
    BY <1>1, AnswerCorrect, PTL

(* A text with an issue does not leave the server as it was written.       *)
THEOREM IssuesAreHealed == ServerSpec => []IssuesHealed
  <1>1. AnswerInv => IssuesHealed
    BY DEF AnswerInv, AnswerOK, AnsweredOK, Repaired, IssuesHealed
  <1>2. QED
    BY <1>1, AnswerCorrect, PTL

(* Every 200 of POST /query says that the server abstained, with           *)
(* confidence 0 and a text that was repaired, whatever the documents and   *)
(* the model say: should_abstain takes the error rate for a score, and an  *)
(* error rate of 0 for a bad one.                                          *)
EveryAnswerAbstains ==
    \A q \in Queries : Answered(q) => /\ reply[q].abstained /\ reply[q].confidence = 0
                                      /\ reply[q].from \in {"noted", "abstain"}

THEOREM NoTextSurvives == ServerSpec => []EveryAnswerAbstains
  <1>1. AnswerInv => EveryAnswerAbstains
    BY DEF AnswerInv, AnswerOK, AnsweredOK, Repaired, EveryAnswerAbstains
  <1>2. QED
    BY <1>1, AnswerCorrect, PTL
=============================================================================
