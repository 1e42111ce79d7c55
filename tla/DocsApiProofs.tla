--------------------------- MODULE DocsApiProofs ---------------------------
(***************************************************************************)
(* Theorems about DocsApi, for every set of requests, every workload,      *)
(* every limit and every number of faults and crashes.                     *)
(***************************************************************************)
EXTENDS DocsApi, FiniteSetTheorems, TLAPS

-----------------------------------------------------------------------------
(* What a request asks, and what the documents of a body are.              *)
LEMMA BodyFacts ==
    ASSUME body \in Workloads
    PROVE  /\ DOMAIN body \subseteq Requests
           /\ \A r \in DOMAIN body : body[r] \in Body
  <1>1. PICK w \in Workloads : body = w
    OBVIOUS
  <1>2. DOMAIN body \subseteq Requests /\ body \in [DOMAIN body -> Body]
    BY <1>1, DocsAssumption
  <1>3. QED
    BY <1>2

LEMMA DocsFacts ==
    ASSUME NEW b \in Body
    PROVE  /\ b.tenant \in Tenants /\ b.key \in KeyNames
           /\ Len(b.docs) \in Nat /\ DOMAIN b.docs = 1 .. Len(b.docs)
           /\ \A i \in 1 .. Len(b.docs) : b.docs[i] \in Document
           /\ Indexed(b) \subseteq 1 .. Len(b.docs)
  BY DEF Body, Indexed

LEMMA DocumentFacts ==
    ASSUME NEW d \in Document
    PROVE  d.id \in Ids /\ d.text \in Texts /\ d.pieces \in Nat
  BY DEF Document

LEMMA KeyFacts ==
    ASSUME body \in Workloads, NEW r \in DOMAIN body
    PROVE  Key(r) \in Keys
  BY BodyFacts, DocsFacts DEF Key, Keys

-----------------------------------------------------------------------------
(* Type correctness, with where an ingest is: a request that has begun is  *)
(* one that was sent, and one that is between the pieces of a document is  *)
(* at a piece of a document that is indexed.                               *)
PlaceOK ==
    \A r \in Requests :
        /\ pc[r] # "start" => r \in DOMAIN body
        /\ at[r].doc > 0
        /\ pc[r] = "piece" => /\ at[r].doc \in Indexed(body[r])
                              /\ at[r].piece \in 1 .. Doc(r).pieces

TypeInv == TypeOK /\ PlaceOK

LEMMA InitType == Init => TypeInv
  <1> SUFFICES ASSUME Init PROVE TypeInv
    OBVIOUS
  <1>1. TypeOK
    BY DEF Init, TypeOK, PC, Answers, Status
  <1>2. PlaceOK
    BY DEF Init, PlaceOK
  <1>3. QED
    BY <1>1, <1>2 DEF TypeInv

Places == [Requests -> [doc : Nat, piece : Nat]]

(* A step from a place to another one, in a request's own time.            *)
LEMMA GotoType ==
    ASSUME TypeInv, NEW r \in Requests, NEW place \in PC \ {"piece"}, r \in DOMAIN body,
           Goto(r, place), UNCHANGED <<body, at>>
    PROVE  pc' \in [Requests -> PC] /\ PlaceOK'
  <1> pc \in [Requests -> PC] /\ PlaceOK
    BY DEF TypeInv, TypeOK
  <1>1. pc' \in [Requests -> PC]
    BY DEF Goto
  <1>2. ASSUME NEW s \in Requests
        PROVE  /\ pc'[s] # "start" => s \in DOMAIN body'
               /\ at'[s].doc > 0
               /\ pc'[s] = "piece" => /\ at'[s].doc \in Indexed(body'[s])
                                      /\ at'[s].piece \in 1 .. Doc(s)'.pieces
    BY DEF Goto, PlaceOK, Doc
  <1>3. QED
    BY <1>1, <1>2 DEF PlaceOK

LEMMA AnswerType ==
    ASSUME TypeOK, NEW r \in Requests, NEW a \in Answers, Answer(r, a)
    PROVE  answer' \in [Requests -> Answers]
  BY DEF TypeOK, Answer

(* The piece an ingest is about to write is a row of the chunks table.     *)
LEMMA AtDoc ==
    ASSUME TypeInv, NEW r \in Requests, r \in DOMAIN body, MoreDocs(r)
    PROVE  Doc(r) \in Document /\ at[r].doc \in 1 .. Len(body[r].docs)
  BY BodyFacts, DocsFacts DEF TypeInv, TypeOK, PlaceOK, MoreDocs, Doc

LEMMA AtPiece ==
    ASSUME TypeInv, NEW r \in Requests, pc[r] = "piece"
    PROVE  /\ Doc(r) \in Document /\ at[r].doc \in Indexed(body[r])
           /\ at[r].piece \in 1 .. Doc(r).pieces
           /\ Chunk(r) \in [source : Ids, piece : Nat, text : Texts, tenant : Tenants]
  <1>1. /\ body[r] \in Body /\ at[r].doc \in Indexed(body[r])
        /\ at[r].piece \in 1 .. Doc(r).pieces
    BY BodyFacts DEF TypeInv, TypeOK, PlaceOK
  <1>2. Doc(r) \in Document /\ body[r].tenant \in Tenants
    BY <1>1, DocsFacts DEF Doc
  <1>3. QED
    BY <1>1, <1>2, DocumentFacts DEF Chunk

LEMMA AtIndexed ==
    ASSUME TypeInv, NEW r \in Requests, r \in DOMAIN body, MoreDocs(r)
    PROVE  at[r].doc \in Indexed(body[r]) <=> ~Repeated(r) /\ Doc(r).pieces > 0
  <1>1. DOMAIN body[r].docs = 1 .. Len(body[r].docs) /\ at[r].doc \in 1 .. Len(body[r].docs)
    BY AtDoc, BodyFacts, DocsFacts DEF TypeInv, TypeOK
  <1>2. QED
    BY <1>1 DEF Indexed, Repeated, Doc

(* A request that takes a step of docs() has been sent.                    *)
LEMMA PostBegun == ASSUME NEW r \in Requests, PostDocs(r) PROVE pc[r] # "start"
  BY DEF PostDocs, LimitRefuses, LimitAllows, Seen, Mark, DecodeRaises, TableRaises,
         Create, AlreadyCreated, EnterIngest, IngestRefused, Ingest, SkipDoc, BeginDoc,
         Upsert, EndIngest, IngestRaises, Complete, CompleteRaises, Leave

(* Every step keeps the types.                                             *)
LEMMA StepType == TypeInv /\ [Next]_vars => TypeInv'
  <1> SUFFICES ASSUME TypeInv, [Next]_vars PROVE TypeInv'
    OBVIOUS
  <1> USE DEF TypeInv
  <1> USE DEF fixed, requestVars, guardVars, tableVars, history
  <1>1. CASE UNCHANGED vars
    BY <1>1 DEF vars, TypeOK, PlaceOK, Doc
  <1>2. ASSUME NEW r \in Requests, Enter(r) \/ EnterRefused(r) \/ PostDocs(r)
        PROVE  TypeInv'
    <2>1. r \in DOMAIN body /\ Key(r) \in Keys
      BY <1>2, PostBegun, KeyFacts DEF PlaceOK, TypeOK, Enter, EnterRefused
    <2>2. CASE Enter(r)
      BY <2>1, <2>2, GotoType DEF Enter, TypeOK, PC
    <2>3. CASE EnterRefused(r)
      BY <2>1, <2>3, GotoType, AnswerType DEF EnterRefused, TypeOK, PC, Answers
    <2>4. CASE LimitRefuses(r)
      BY <2>1, <2>4, GotoType, AnswerType DEF LimitRefuses, LeaveWith, TypeOK, PC, Answers
    <2>5. CASE LimitAllows(r)
      BY <2>1, <2>5, GotoType DEF LimitAllows, TypeOK, PC
    <2>6. CASE Seen(r)
      BY <2>1, <2>6, GotoType DEF Seen, TypeOK, PC
    <2>7. CASE Mark(r)
      BY <2>1, <2>7, GotoType DEF Mark, TypeOK, PC
    <2>8. CASE DecodeRaises(r)
      BY <2>1, <2>8, GotoType, AnswerType DEF DecodeRaises, LeaveWith, TypeOK, PC, Answers
    <2>9. CASE Create(r)
      BY <2>1, <2>9, GotoType DEF Create, TypeOK, PC, Status
    <2>10. CASE AlreadyCreated(r)
      <3>1. (IF previously[r] THEN "duplicate" ELSE jobs[Key(r)]) \in Answers
        BY <2>1, <2>10 DEF AlreadyCreated, TypeOK, Status, Answers
      <3>2. QED
        BY <2>1, <2>10, <3>1, GotoType, AnswerType DEF AlreadyCreated, LeaveWith, TypeOK, PC
    <2>11. CASE EnterIngest(r)
      BY <2>1, <2>11, GotoType DEF EnterIngest, TypeOK, PC
    <2>12. CASE IngestRefused(r)
      BY <2>1, <2>12, GotoType, AnswerType DEF IngestRefused, LeaveWith, TypeOK, PC, Answers
    <2>13. CASE SkipDoc(r)
      BY <2>1, <2>13 DEF SkipDoc, TypeOK, PlaceOK, Doc
    <2>14. CASE BeginDoc(r)
      <3>1. /\ Doc(r) \in Document /\ Doc(r).id \in Ids /\ Doc(r).pieces \in Nat
            /\ at[r].doc \in Indexed(body[r]) /\ Doc(r).pieces > 0
        BY <2>1, <2>14, AtDoc, AtIndexed, DocumentFacts DEF BeginDoc
      <3>2. at' \in Places /\ at'[r].doc = at[r].doc /\ at'[r].piece = 1
        BY <2>14 DEF BeginDoc, TypeOK, Places
      <3>3. pc' \in [Requests -> PC]
        BY <2>14 DEF BeginDoc, Goto, TypeOK, PC
      <3>4. TypeOK'
        BY <2>14, <3>1, <3>2, <3>3 DEF BeginDoc, DeleteBySource, NoteOverlap, TypeOK, Places
      <3>5. \A s \in Requests \ {r} : at'[s] = at[s] /\ pc'[s] = pc[s]
        BY <2>14 DEF BeginDoc, Goto, TypeOK
      <3>6. PlaceOK'
        BY <2>1, <2>14, <3>1, <3>2, <3>5 DEF BeginDoc, PlaceOK, Doc, TypeOK
      <3>7. QED
        BY <3>4, <3>6
    <2>15. CASE Upsert(r)
      <3>1. /\ Doc(r) \in Document /\ Doc(r).id \in Ids /\ Doc(r).pieces \in Nat
            /\ at[r].doc \in Indexed(body[r]) /\ at[r].piece \in 1 .. Doc(r).pieces
            /\ Chunk(r) \in [source : Ids, piece : Nat, text : Texts, tenant : Tenants]
        BY <2>15, AtPiece, DocumentFacts DEF Upsert
      <3>2. /\ at' \in Places /\ pc' \in [Requests -> PC]
            /\ \A s \in Requests \ {r} : at'[s] = at[s] /\ pc'[s] = pc[s]
            /\ at'[r].doc > 0
            /\ pc'[r] = "piece" => /\ at'[r].doc = at[r].doc
                                   /\ at'[r].piece = at[r].piece + 1
                                   /\ ~LastPiece(r)
        <4>1. at \in Places /\ pc \in [Requests -> PC] /\ at[r].doc > 0 /\ at[r].piece \in Nat
          BY <3>1 DEF TypeOK, Places, PlaceOK
        <4>2. CASE LastPiece(r)
          <5>1. at' = [at EXCEPT ![r].doc = @ + 1] /\ pc' = [pc EXCEPT ![r] = "doc"]
            BY <2>15, <4>2 DEF Upsert, Goto
          <5>2. QED
            BY <4>1, <5>1 DEF Places, PC
        <4>3. CASE ~LastPiece(r)
          <5>1. at' = [at EXCEPT ![r].piece = @ + 1] /\ pc' = pc
            BY <2>15, <4>3 DEF Upsert
          <5>2. QED
            BY <4>1, <4>3, <5>1 DEF Places
        <4>4. QED
          BY <4>2, <4>3
      <3>3. TypeOK'
        BY <2>15, <3>1, <3>2 DEF Upsert, NoteOverlap, TypeOK, Places
      <3>4. PlaceOK'
        BY <2>1, <2>15, <3>1, <3>2 DEF Upsert, PlaceOK, Doc, TypeOK, LastPiece
      <3>5. QED
        BY <3>3, <3>4
    <2>16. CASE EndIngest(r)
      BY <2>1, <2>16, GotoType DEF EndIngest, Exit, TypeOK, PC
    <2>17. CASE IngestRaises(r)
      BY <2>1, <2>17, GotoType, AnswerType DEF IngestRaises, Raises, Exit, LeaveWith, TypeOK, PC, Answers
    <2>18. CASE Complete(r)
      BY <2>1, <2>18, GotoType, AnswerType DEF Complete, LeaveWith, TypeOK, PC, Answers, Status
    <2>19. CASE CompleteRaises(r)
      BY <2>1, <2>19, GotoType, AnswerType DEF CompleteRaises, Raises, LeaveWith, TypeOK, PC, Answers, Status
    <2>20. CASE Leave(r)
      BY <2>1, <2>20, GotoType DEF Leave, Exit, TypeOK, PC
    <2>21. CASE TableRaises(r)
      BY <2>1, <2>21, GotoType, AnswerType DEF TableRaises, Raises, LeaveWith, TypeOK, PC, Answers
    <2>22. QED
      BY <1>2, <2>2, <2>3, <2>4, <2>5, <2>6, <2>7, <2>8, <2>9, <2>10, <2>11, <2>12,
         <2>13, <2>14, <2>15, <2>16, <2>17, <2>18, <2>19, <2>20, <2>21 DEF PostDocs, Ingest
  <1>3. CASE Crash
    BY <1>3 DEF Crash, TypeOK, PlaceOK, Busy, PC, Answers, Doc
  <1>4. QED
    BY <1>1, <1>2, <1>3 DEF Next

(* Whatever the requests ask and in whichever order their threads run, the *)
(* guards never go below zero, a response is one the endpoint gives, and   *)
(* every row of the three tables is one its columns allow.                 *)
THEOREM TypeCorrect == Spec => []TypeOK
  <1>1. Spec => []TypeInv
    BY InitType, StepType, PTL DEF Spec
  <1>2. TypeInv => TypeOK
    BY DEF TypeInv
  <1>3. QED
    BY <1>1, <1>2, PTL

-----------------------------------------------------------------------------
(* One creator for each key, and what the answers rest on: a request that  *)
(* has not reached create_deterministic created nothing, one that ingests  *)
(* created its job, a job that exists was created by somebody.             *)
Early  == {"start", "limit", "seen", "mark", "create"}
Making == {"bulkhead", "doc", "piece", "complete"}

CreatedOK ==
    \A r \in Requests :
        /\ pc[r] \in Early => ~created[r]
        /\ pc[r] \in Making => created[r] /\ jobs[Key(r)] = "accepted"
        /\ created[r] => r \in DOMAIN body /\ jobs[Key(r)] # "none"

OneEach ==
    \A r, s \in Requests : created[r] /\ created[s] /\ Key(r) = Key(s) => r = s

Somebody ==
    \A k \in Keys : jobs[k] # "none" => \E s \in Requests : created[s] /\ Key(s) = k

CreatorInv == CreatedOK /\ OneEach /\ Somebody /\ AnswersTruthful

LEMMA InitCreator == Init => CreatorInv
  BY DEF Init, CreatorInv, CreatedOK, OneEach, Somebody, AnswersTruthful, Making

LEMMA KeyKept ==
    ASSUME UNCHANGED body, NEW r \in Requests PROVE Key(r)' = Key(r)
  BY DEF Key

(* An answer is true if it was, or if it is one that claims nothing.       *)
LEMMA QuietAnswer ==
    ASSUME TypeInv, CreatorInv, NEW r \in Requests, UNCHANGED <<body, created, jobs>>,
           NEW a \in {"none", "limited", "saturated", "failed", "lost"},
           Answer(r, a) \/ UNCHANGED answer
    PROVE  AnswersTruthful'
  <1>1. \A s \in Requests : answer'[s] = answer[s] \/ answer'[s] = a
    BY DEF Answer, TypeInv, TypeOK
  <1>2. QED
    BY <1>1, KeyKept DEF CreatorInv, AnswersTruthful

(* A step that creates nothing and completes nothing.                      *)
LEMMA QuietStep ==
    ASSUME TypeInv, CreatorInv, NEW r \in Requests, NEW place \in PC,
           place \in Early => pc[r] \in Early,
           place \in Making => pc[r] \in Making,
           Goto(r, place) \/ UNCHANGED pc,
           UNCHANGED <<body, created, jobs>>, AnswersTruthful'
    PROVE  CreatorInv'
  <1>1. \A s \in Requests : pc'[s] = pc[s] \/ (s = r /\ pc'[s] = place)
    BY DEF Goto, TypeInv, TypeOK
  <1>2. CreatedOK'
    BY <1>1, KeyKept DEF CreatorInv, CreatedOK
  <1>3. OneEach' /\ Somebody'
    BY KeyKept DEF CreatorInv, OneEach, Somebody
  <1>4. QED
    BY <1>2, <1>3 DEF CreatorInv

LEMMA CreateStep ==
    ASSUME TypeInv, CreatorInv, NEW r \in Requests, Create(r)
    PROVE  CreatorInv'
  <1>1. /\ r \in DOMAIN body /\ Key(r) \in Keys /\ jobs[Key(r)] = "none"
        /\ jobs \in [Keys -> Status] /\ created \in [Requests -> BOOLEAN]
        /\ pc \in [Requests -> PC]
    BY KeyFacts DEF Create, TypeInv, TypeOK, PlaceOK
  <1>2. \A s \in Requests : created[s] => Key(s) \in Keys /\ Key(s) # Key(r)
    BY <1>1, KeyFacts DEF CreatorInv, CreatedOK, TypeInv, TypeOK
  <1>3. /\ UNCHANGED <<body, answer>>
        /\ jobs' = [jobs EXCEPT ![Key(r)] = "accepted"]
        /\ created' = [created EXCEPT ![r] = TRUE]
        /\ pc' = [pc EXCEPT ![r] = "bulkhead"]
    BY DEF Create, fixed, Goto
  <1>4. CreatedOK'
    BY <1>1, <1>2, <1>3, KeyKept DEF CreatorInv, CreatedOK, Early, Making
  <1>5. OneEach'
    BY <1>1, <1>2, <1>3, KeyKept DEF CreatorInv, OneEach
  <1>6. Somebody'
    BY <1>1, <1>3, KeyKept DEF CreatorInv, Somebody
  <1>7. AnswersTruthful'
    BY <1>1, <1>3, KeyKept DEF CreatorInv, AnswersTruthful
  <1>8. QED
    BY <1>4, <1>5, <1>6, <1>7 DEF CreatorInv

(* The row of the job is completed, whatever its client is told.           *)
Finishes(r) ==
    /\ pc[r] = "complete"
    /\ jobs' = [jobs EXCEPT ![Key(r)] = "completed"]
    /\ \E what \in {"completed", "failed"} : LeaveWith(r, what)
    /\ UNCHANGED <<body, created, at, store, last, mixed>>

LEMMA CompleteFinishes == ASSUME NEW r, Complete(r) PROVE Finishes(r)
  BY DEF Complete, Finishes, fixed, history

LEMMA RaisesOrFinishes ==
    ASSUME NEW r, CompleteRaises(r)
    PROVE  (CompleteRaises(r) /\ jobs' = jobs) \/ Finishes(r)
  BY DEF CompleteRaises, Finishes, fixed, history

LEMMA CompleteStep ==
    ASSUME TypeInv, CreatorInv, NEW r \in Requests, Finishes(r)
    PROVE  CreatorInv'
  <1>1. /\ r \in DOMAIN body /\ Key(r) \in Keys /\ created[r]
        /\ jobs \in [Keys -> Status] /\ pc \in [Requests -> PC]
        /\ answer \in [Requests -> Answers]
    BY KeyFacts DEF Finishes, TypeInv, TypeOK, PlaceOK, CreatorInv, CreatedOK, Making
  <1>2. /\ UNCHANGED <<body, created>>
        /\ jobs' = [jobs EXCEPT ![Key(r)] = "completed"]
        /\ \E what \in {"completed", "failed"} : answer' = [answer EXCEPT ![r] = what]
        /\ pc' = [pc EXCEPT ![r] = "leave"]
    BY DEF Finishes, LeaveWith, Goto, Answer
  <1>3. \A s \in Requests : created[s] => Key(s) \in Keys
    BY KeyFacts DEF CreatorInv, CreatedOK, TypeInv, TypeOK
  <1>4. \A s \in Requests \ {r} : created[s] => Key(s) # Key(r)
    BY <1>1 DEF CreatorInv, OneEach
  <1>5. CreatedOK'
    BY <1>1, <1>2, <1>3, <1>4, KeyKept DEF CreatorInv, CreatedOK, Early, Making
  <1>6. OneEach' /\ Somebody'
    BY <1>1, <1>2, KeyKept DEF CreatorInv, OneEach, Somebody
  <1>7. AnswersTruthful'
    BY <1>1, <1>2, KeyKept DEF CreatorInv, AnswersTruthful
  <1>8. QED
    BY <1>5, <1>6, <1>7 DEF CreatorInv

(* "duplicate" and "accepted" are answers about somebody else's job.       *)
LEMMA AlreadyStep ==
    ASSUME TypeInv, CreatorInv, NEW r \in Requests, AlreadyCreated(r)
    PROVE  CreatorInv'
  <1> DEFINE what == IF previously[r] THEN "duplicate" ELSE jobs[Key(r)]
  <1>1. /\ r \in DOMAIN body /\ Key(r) \in Keys /\ ~created[r]
        /\ jobs[Key(r)] \in {"accepted", "completed"}
        /\ answer \in [Requests -> Answers]
    BY KeyFacts DEF AlreadyCreated, TypeInv, TypeOK, PlaceOK, CreatorInv, CreatedOK, Early, Status
  <1>2. PICK s \in Requests : created[s] /\ Key(s) = Key(r)
    BY <1>1 DEF CreatorInv, Somebody
  <1>3. /\ UNCHANGED <<body, created, jobs>>
        /\ answer' = [answer EXCEPT ![r] = what]
        /\ Goto(r, "leave")
    BY DEF AlreadyCreated, fixed, tableVars, LeaveWith, Answer
  <1>4. AnswersTruthful'
    BY <1>1, <1>2, <1>3, KeyKept DEF CreatorInv, AnswersTruthful
  <1>5. QED
    BY <1>3, <1>4, QuietStep DEF PC, Early, Making

LEMMA StepCreator == TypeInv /\ CreatorInv /\ [Next]_vars => CreatorInv'
  <1> SUFFICES ASSUME TypeInv, CreatorInv, [Next]_vars PROVE CreatorInv'
    OBVIOUS
  <1> USE DEF fixed, requestVars, guardVars, tableVars, history
  <1>1. CASE UNCHANGED vars
    BY <1>1, KeyKept DEF vars, CreatorInv, CreatedOK, OneEach, Somebody, AnswersTruthful
  <1>2. ASSUME NEW r \in Requests, Enter(r) \/ EnterRefused(r) \/ PostDocs(r)
        PROVE  CreatorInv'
    <2>1. CASE Create(r)
      BY <2>1, CreateStep
    <2>2. CASE Finishes(r)
      BY <2>2, CompleteStep
    <2>3. CASE AlreadyCreated(r)
      BY <2>3, AlreadyStep
    <2>4. CASE \/ Enter(r) \/ EnterRefused(r) \/ LimitRefuses(r) \/ LimitAllows(r)
               \/ Seen(r) \/ Mark(r)
      <3>1. /\ UNCHANGED <<body, created, jobs>>
            /\ \E a \in {"limited", "saturated"} : Answer(r, a) \/ UNCHANGED answer
            /\ \E place \in PC \ Making : Goto(r, place)
            /\ pc[r] \in Early
        BY <2>4 DEF Enter, EnterRefused, LimitRefuses, LimitAllows, Seen, Mark,
                    LeaveWith, PC, Early, Making
      <3>2. AnswersTruthful'
        BY <3>1, QuietAnswer
      <3>3. QED
        BY <3>1, <3>2, QuietStep
    <2>5. CASE \/ EnterIngest(r) \/ SkipDoc(r) \/ BeginDoc(r) \/ Upsert(r) \/ EndIngest(r)
      <3>1. /\ UNCHANGED <<body, created, jobs, answer>>
            /\ \E place \in Making : Goto(r, place) \/ UNCHANGED pc
            /\ pc[r] \in Making
        BY <2>5 DEF EnterIngest, SkipDoc, BeginDoc, Upsert, EndIngest, Making
      <3>2. AnswersTruthful'
        BY <3>1, QuietAnswer
      <3>3. QED
        BY <3>1, <3>2, QuietStep DEF Making, Early, PC
    <2>6. CASE \/ DecodeRaises(r) \/ TableRaises(r) \/ IngestRefused(r)
               \/ IngestRaises(r) \/ (CompleteRaises(r) /\ jobs' = jobs) \/ Leave(r)
      <3>1. /\ UNCHANGED <<body, created, jobs>>
            /\ \E a \in {"failed", "saturated"} : Answer(r, a) \/ UNCHANGED answer
            /\ \E place \in {"leave", "answered"} : Goto(r, place)
        BY <2>6 DEF DecodeRaises, TableRaises, IngestRefused, IngestRaises,
                    CompleteRaises, Leave, LeaveWith
      <3>2. AnswersTruthful'
        BY <3>1, QuietAnswer
      <3>3. QED
        BY <3>1, <3>2, QuietStep DEF Making, Early, PC
    <2>7. QED
      BY <1>2, <2>1, <2>2, <2>3, <2>4, <2>5, <2>6, CompleteFinishes, RaisesOrFinishes
         DEF PostDocs, Ingest
  <1>3. CASE Crash
    <2>1. /\ UNCHANGED <<body, created, jobs>>
          /\ \A s \in Requests : /\ pc'[s] \in {pc[s], "answered"}
                                 /\ answer'[s] \in {answer[s], "lost"}
      BY <1>3 DEF Crash, TypeInv, TypeOK
    <2>2. QED
      BY <2>1, KeyKept DEF CreatorInv, CreatedOK, OneEach, Somebody, AnswersTruthful,
                           Early, Making
  <1>4. QED
    BY <1>1, <1>2, <1>3 DEF Next

LEMMA CreatorImplies ==
    ASSUME CreatorInv PROVE OneCreator /\ AnswersTruthful
  BY DEF CreatorInv, CreatedOK, OneEach, OneCreator, InIngest, Making

(* However often and however concurrently a key is sent, one request at    *)
(* most creates the job of the key and ingests for it.                     *)
THEOREM CreatorUnique == Spec => []OneCreator
  <1>1. Init => TypeInv /\ CreatorInv
    BY InitType, InitCreator
  <1>2. TypeInv /\ CreatorInv /\ [Next]_vars => (TypeInv /\ CreatorInv)'
    BY StepType, StepCreator
  <1>3. CreatorInv => OneCreator
    BY CreatorImplies
  <1>4. QED
    BY <1>1, <1>2, <1>3, PTL DEF Spec

(* What a 202 of POST /docs says about its job is true, for ever.          *)
THEOREM TruthfulAnswers == Spec => []AnswersTruthful
  <1>1. Init => TypeInv /\ CreatorInv
    BY InitType, InitCreator
  <1>2. TypeInv /\ CreatorInv /\ [Next]_vars => (TypeInv /\ CreatorInv)'
    BY StepType, StepCreator
  <1>3. CreatorInv => AnswersTruthful
    BY CreatorImplies
  <1>4. QED
    BY <1>1, <1>2, <1>3, PTL DEF Spec

-----------------------------------------------------------------------------
(* The two guards count the requests that hold a slot of them.             *)
Holders == {r \in Requests : Inside(r)}
Readers == {r \in Requests : InIngest(r)}

(* A slot taken, a slot given back.                                        *)
LEMMA Counting ==
    ASSUME NEW S \in SUBSET Requests, NEW r \in Requests
    PROVE  /\ Cardinality(S) \in Nat
           /\ r \notin S => Cardinality(S \union {r}) = Cardinality(S) + 1
           /\ r \in S => /\ Cardinality(S) > 0
                         /\ Cardinality(S \ {r}) = Cardinality(S) - 1
  <1>1. IsFiniteSet(S)
    BY FS_Subset, DocsAssumption
  <1>2. Cardinality(S) \in Nat
    BY <1>1, FS_CardinalityType
  <1>3. r \notin S => Cardinality(S \union {r}) = Cardinality(S) + 1
    BY <1>1, FS_AddElement
  <1>4. r \in S => Cardinality(S \ {r}) = Cardinality(S) - 1
    BY <1>1, FS_RemoveElement
  <1>5. r \in S => Cardinality(S) # 0
    BY <1>1, FS_EmptySet
  <1>6. QED
    BY <1>2, <1>3, <1>4, <1>5

LEMMA Moving ==
    ASSUME TypeOK, NEW r \in Requests, NEW place \in PC, Goto(r, place)
    PROVE  /\ Holders' = IF place \in {"start", "answered"} THEN Holders \ {r}
                         ELSE Holders \union {r}
           /\ Readers' = IF place \in {"doc", "piece"} THEN Readers \union {r}
                         ELSE Readers \ {r}
  BY DEF TypeOK, Goto, Holders, Readers, Inside, InIngest, PC

LEMMA Matching ==
    /\ SlotsMatch <=> /\ inflight = Cardinality(Holders)
                      /\ ingesting = Cardinality(Readers)
                      /\ inflight <= limits.inflight /\ ingesting <= limits.ingest
    /\ SlotsMatch' <=> /\ inflight' = Cardinality(Holders')
                       /\ ingesting' = Cardinality(Readers')
                       /\ inflight' <= limits.inflight' /\ ingesting' <= limits.ingest'
  BY DEF SlotsMatch, Holders, Readers

(* What a step of a request does to the two guards and to the sets of the  *)
(* requests behind them: it takes a free slot, gives its own one back, or  *)
(* leaves both alone.                                                      *)
TakesInflight(r) == /\ inflight' = inflight + 1 /\ inflight < limits.inflight
                    /\ r \notin Holders /\ Holders' = Holders \union {r}
GivesInflight(r) == /\ inflight' = Exit(inflight)
                    /\ r \in Holders /\ Holders' = Holders \ {r}
KeepsInflight    == inflight' = inflight /\ Holders' = Holders
TakesIngest(r)   == /\ ingesting' = ingesting + 1 /\ ingesting < limits.ingest
                    /\ r \notin Readers /\ Readers' = Readers \union {r}
GivesIngest(r)   == /\ ingesting' = Exit(ingesting)
                    /\ r \in Readers /\ Readers' = Readers \ {r}
KeepsIngest      == ingesting' = ingesting /\ Readers' = Readers

LEMMA RequestSlots ==
    ASSUME TypeOK, NEW r \in Requests, Enter(r) \/ EnterRefused(r) \/ PostDocs(r)
    PROVE  /\ TakesInflight(r) \/ GivesInflight(r) \/ KeepsInflight
           /\ TakesIngest(r) \/ GivesIngest(r) \/ KeepsIngest
           /\ UNCHANGED limits
  <1> USE DEF fixed, guardVars
  <1>1. CASE Enter(r)
    <2>1. r \notin Holders /\ Holders' = Holders \union {r} /\ Readers' = Readers
      BY <1>1, Moving DEF Enter, PC, Holders, Readers, Inside, InIngest
    <2>2. QED
      BY <1>1, <2>1 DEF Enter, TakesInflight, KeepsIngest
  <1>2. CASE EnterIngest(r)
    <2>1. r \notin Readers /\ Readers' = Readers \union {r} /\ Holders' = Holders
      BY <1>2, Moving DEF EnterIngest, PC, Holders, Readers, Inside, InIngest
    <2>2. QED
      BY <1>2, <2>1 DEF EnterIngest, TakesIngest, KeepsInflight
  <1>3. CASE EndIngest(r) \/ IngestRaises(r)
    <2>1. \E place \in {"complete", "leave"} : Goto(r, place)
      BY <1>3 DEF EndIngest, IngestRaises, LeaveWith
    <2>2. r \in Readers /\ Readers' = Readers \ {r} /\ Holders' = Holders
      BY <1>3, <2>1, Moving DEF EndIngest, IngestRaises, PC, Holders, Readers, Inside, InIngest
    <2>3. QED
      BY <1>3, <2>2 DEF EndIngest, IngestRaises, GivesIngest, KeepsInflight
  <1>4. CASE Leave(r)
    <2>1. r \in Holders /\ Holders' = Holders \ {r} /\ Readers' = Readers
      BY <1>4, Moving DEF Leave, PC, Holders, Readers, Inside, InIngest
    <2>2. QED
      BY <1>4, <2>1 DEF Leave, GivesInflight, KeepsIngest
  <1>5. CASE \/ LimitRefuses(r) \/ LimitAllows(r) \/ Seen(r) \/ Mark(r)
             \/ DecodeRaises(r) \/ TableRaises(r) \/ Create(r) \/ AlreadyCreated(r)
             \/ IngestRefused(r) \/ Complete(r) \/ CompleteRaises(r)
    <2>1. /\ r \in Holders /\ r \notin Readers
          /\ UNCHANGED <<limits, inflight, ingesting>>
          /\ \E place \in {"seen", "mark", "create", "bulkhead", "leave"} : Goto(r, place)
      BY <1>5 DEF LimitRefuses, LimitAllows, Seen, Mark, DecodeRaises, TableRaises,
                  Create, AlreadyCreated, IngestRefused, Complete, CompleteRaises,
                  LeaveWith, Holders, Readers, Inside, InIngest, PC
    <2>2. Holders' = Holders /\ Readers' = Readers
      BY <2>1, Moving DEF PC
    <2>3. QED
      BY <2>1, <2>2 DEF KeepsInflight, KeepsIngest
  <1>6. CASE EnterRefused(r)
    <2>1. r \notin Holders /\ r \notin Readers /\ Goto(r, "answered")
      BY <1>6 DEF EnterRefused, Holders, Readers, Inside, InIngest
    <2>2. Holders' = Holders /\ Readers' = Readers
      BY <2>1, Moving DEF PC
    <2>3. QED
      BY <1>6, <2>2 DEF EnterRefused, KeepsInflight, KeepsIngest
  <1>7. CASE SkipDoc(r) \/ BeginDoc(r) \/ Upsert(r)
    <2>1. /\ r \in Holders /\ r \in Readers
          /\ UNCHANGED <<limits, inflight, ingesting>>
          /\ UNCHANGED pc \/ \E place \in {"doc", "piece"} : Goto(r, place)
      BY <1>7 DEF SkipDoc, BeginDoc, Upsert, Holders, Readers, Inside, InIngest, PC
    <2>2. Holders' = Holders /\ Readers' = Readers
      <3>1. CASE UNCHANGED pc
        BY <3>1 DEF Holders, Readers, Inside, InIngest
      <3>2. QED
        BY <2>1, <3>1, Moving DEF PC
    <2>3. QED
      BY <2>1, <2>2 DEF KeepsInflight, KeepsIngest
  <1>8. QED
    BY <1>1, <1>2, <1>3, <1>4, <1>5, <1>6, <1>7 DEF PostDocs, Ingest

(* A crash empties both.                                                   *)
LEMMA CrashSlots ==
    ASSUME TypeOK, Crash
    PROVE  Holders' = {} /\ Readers' = {} /\ inflight' = 0 /\ ingesting' = 0 /\ UNCHANGED limits
  <1>1. \A r \in Requests : pc'[r] \in {"start", "answered"}
    BY DEF Crash, Busy, TypeOK
  <1>2. QED
    BY <1>1 DEF Crash, Holders, Readers, Inside, InIngest, fixed

LEMMA SlotTypes ==
    ASSUME TypeOK
    PROVE  /\ limits.inflight \in Nat /\ limits.ingest \in Nat
           /\ Holders \in SUBSET Requests /\ Readers \in SUBSET Requests
  BY DocsAssumption DEF TypeOK, Holders, Readers

LEMMA StepSlots == TypeInv /\ SlotsMatch /\ [Next]_vars => SlotsMatch'
  <1> SUFFICES ASSUME TypeInv, SlotsMatch, [Next]_vars PROVE SlotsMatch'
    OBVIOUS
  <1>1. /\ TypeOK /\ inflight = Cardinality(Holders) /\ ingesting = Cardinality(Readers)
        /\ inflight <= limits.inflight /\ ingesting <= limits.ingest
    BY Matching DEF TypeInv
  <1>2. CASE UNCHANGED vars
    BY <1>2 DEF vars, fixed, requestVars, guardVars, SlotsMatch, Inside, InIngest
  <1>3. ASSUME NEW r \in Requests, Enter(r) \/ EnterRefused(r) \/ PostDocs(r)
        PROVE  SlotsMatch'
    <2>1. /\ TakesInflight(r) \/ GivesInflight(r) \/ KeepsInflight
          /\ TakesIngest(r) \/ GivesIngest(r) \/ KeepsIngest
          /\ UNCHANGED limits
      BY <1>1, <1>3, RequestSlots
    <2>2. inflight' = Cardinality(Holders') /\ inflight' <= limits.inflight
      BY <1>1, <2>1, SlotTypes, Counting DEF TakesInflight, GivesInflight, KeepsInflight, Exit
    <2>3. ingesting' = Cardinality(Readers') /\ ingesting' <= limits.ingest
      <3>1. CASE TakesIngest(r)
        <4>1. Cardinality(Readers') = Cardinality(Readers) + 1 /\ Cardinality(Readers) \in Nat
          BY <1>1, <3>1, SlotTypes, Counting DEF TakesIngest
        <4>2. QED
          BY <1>1, <3>1, <4>1, SlotTypes DEF TakesIngest
      <3>2. CASE GivesIngest(r)
        BY <1>1, <3>2, SlotTypes, Counting DEF GivesIngest, Exit
      <3>3. CASE KeepsIngest
        BY <1>1, <3>3 DEF KeepsIngest
      <3>4. QED
        BY <2>1, <3>1, <3>2, <3>3
    <2>4. QED
      BY <2>1, <2>2, <2>3, Matching
  <1>4. CASE Crash
    BY <1>1, <1>4, CrashSlots, SlotTypes, FS_EmptySet, Matching
  <1>5. QED
    BY <1>2, <1>3, <1>4 DEF Next

(* No way out of docs() leaks a slot of the inflight guard or of the       *)
(* ingest bulkhead or gives one back twice, whatever their limits.         *)
THEOREM SlotsCorrect == Spec => []SlotsMatch
  <1>1. Init => TypeInv /\ SlotsMatch
    <2> SUFFICES ASSUME Init PROVE SlotsMatch
      BY InitType
    <2>1. limits.inflight \in Nat /\ limits.ingest \in Nat
      BY DocsAssumption DEF Init
    <2>2. Holders = {} /\ Readers = {}
      BY DEF Init, Holders, Readers, Inside, InIngest
    <2>3. QED
      BY <2>1, <2>2, FS_EmptySet, Matching DEF Init
  <1>2. TypeInv /\ SlotsMatch /\ [Next]_vars => (TypeInv /\ SlotsMatch)'
    BY StepType, StepSlots
  <1>3. QED
    BY <1>1, <1>2, PTL DEF Spec

-----------------------------------------------------------------------------
(* What the chunk store holds.  A request that is between the pieces of a  *)
(* document, and was alone there, has written the pieces before this one;  *)
(* the documents it has passed are complete until somebody begins them     *)
(* again; and a request whose job is completed has passed all of them.     *)
WriterOK ==
    \A r \in Requests : pc[r] = "piece" =>
        /\ last[Doc(r).id] # Nobody
        /\ Doc(r).id \notin mixed =>
              /\ last[Doc(r).id] = r
              /\ StoredOf(Doc(r).id) = {PieceOf(r, Doc(r), n) : n \in 1 .. at[r].piece - 1}

PiecesKept(r, i) ==
    LET d == body[r].docs[i]
    IN  /\ last[d.id] # Nobody
        /\ last[d.id] = r /\ d.id \notin mixed => StoredOf(d.id) = PiecesOf(r, d)

PassedOK ==
    \A r \in DOMAIN body : \A i \in Indexed(body[r]) : i < at[r].doc => PiecesKept(r, i)

Done(r) == pc[r] = "complete" \/ (created[r] /\ jobs[Key(r)] = "completed")

DoneOK == \A r \in Requests : Done(r) => ~MoreDocs(r)

StoreInv == WriterOK /\ NoStaleChunks /\ PassedOK /\ DoneOK

LEMMA InitStore == Init => StoreInv
  <1> SUFFICES ASSUME Init PROVE StoreInv
    OBVIOUS
  <1>1. WriterOK /\ DoneOK
    BY DEF Init, WriterOK, DoneOK, Done
  <1>2. NoStaleChunks
    BY DEF Init, NoStaleChunks, StoredOf
  <1>3. PassedOK
    <2> SUFFICES ASSUME NEW r \in DOMAIN body, NEW i \in Indexed(body[r]), i < at[r].doc
                 PROVE  FALSE
      BY DEF PassedOK
    <2>1. i \in 1 .. Len(body[r].docs) /\ at[r].doc = 1
      BY BodyFacts, DocsFacts DEF Init
    <2>2. QED
      BY <2>1
  <1>4. QED
    BY <1>1, <1>2, <1>3 DEF StoreInv

(* Two indexed documents of a body have different ids.                     *)
LEMMA DistinctIds ==
    ASSUME NEW b \in Body, NEW i \in Indexed(b), NEW j \in Indexed(b),
           b.docs[i].id = b.docs[j].id
    PROVE  i = j
  <1>1. i \in 1 .. Len(b.docs) /\ j \in 1 .. Len(b.docs) /\ Len(b.docs) \in Nat
    BY DocsFacts
  <1>2. ~(i < j) /\ ~(j < i)
    BY <1>1 DEF Indexed
  <1>3. QED
    BY <1>1, <1>2

(* What the two writes do to the chunks of a document.                     *)
LEMMA AfterDelete ==
    ASSUME NEW r \in Requests, BeginDoc(r), NEW id
    PROVE  StoredOf(id)' = IF id = Doc(r).id THEN {} ELSE StoredOf(id)
  BY DEF BeginDoc, DeleteBySource, StoredOf

LEMMA AfterUpsert ==
    ASSUME NEW r \in Requests, Upsert(r), NEW id
    PROVE  StoredOf(id)' = IF id = Doc(r).id
                           THEN {c \in StoredOf(id) : c.piece # at[r].piece} \union {Chunk(r)}
                           ELSE StoredOf(id)
  <1>1. store' = {c \in store : ~SameId(c, Chunk(r))} \union {Chunk(r)}
    BY DEF Upsert
  <1>2. Chunk(r).source = Doc(r).id /\ Chunk(r).piece = at[r].piece
    BY DEF Chunk
  <1>3. QED
    BY <1>1, <1>2 DEF StoredOf, SameId

LEMMA ChunkIsPiece == ASSUME NEW r PROVE Chunk(r) = PieceOf(r, Doc(r), at[r].piece)
  BY DEF Chunk, PieceOf

(* A step that writes no chunk and moves no ingest forward.                *)
LEMMA QuietStore ==
    ASSUME StoreInv, UNCHANGED <<body, at, store, last, mixed>>,
           \A r \in Requests : /\ pc'[r] = "piece" => pc[r] = "piece"
                               /\ Done(r)' => Done(r) \/ ~MoreDocs(r)
    PROVE  StoreInv'
  <1>1. WriterOK'
    BY DEF StoreInv, WriterOK, Doc, StoredOf, PieceOf
  <1>2. NoStaleChunks'
    BY DEF StoreInv, NoStaleChunks, StoredOf, PiecesOf, PieceOf, Indexed
  <1>3. PassedOK'
    BY DEF StoreInv, PassedOK, PiecesKept, StoredOf, PiecesOf, PieceOf, Indexed
  <1>4. DoneOK'
    BY DEF StoreInv, DoneOK, MoreDocs
  <1>5. QED
    BY <1>1, <1>2, <1>3, <1>4 DEF StoreInv

(* The places and the jobs of the other requests when r takes a step of    *)
(* its ingest.                                                             *)
LEMMA IngestDone ==
    ASSUME TypeInv, CreatorInv, StoreInv, NEW r \in Requests,
           pc[r] \in {"doc", "piece"}, UNCHANGED <<body, jobs, created>>,
           \A s \in Requests \ {r} : at'[s] = at[s] /\ pc'[s] = pc[s],
           pc'[r] # "complete"
    PROVE  DoneOK'
  <1>1. created[r] /\ jobs[Key(r)] = "accepted"
    BY DEF CreatorInv, CreatedOK, Making
  <1>2. QED
    BY <1>1, KeyKept DEF StoreInv, DoneOK, Done, MoreDocs

LEMMA SkipStore ==
    ASSUME TypeInv, CreatorInv, StoreInv, NEW r \in Requests, SkipDoc(r)
    PROVE  StoreInv'
  <1>1. /\ r \in DOMAIN body /\ MoreDocs(r) /\ at[r].doc \notin Indexed(body[r])
        /\ at[r].doc \in Nat /\ body[r] \in Body
    BY AtIndexed, BodyFacts DEF SkipDoc, TypeInv, TypeOK, PlaceOK
  <1>2. /\ UNCHANGED <<body, jobs, created, pc, store, last, mixed>>
        /\ pc[r] = "doc" /\ at'[r].doc = at[r].doc + 1
        /\ \A s \in Requests \ {r} : at'[s] = at[s]
    BY DEF SkipDoc, fixed, tableVars, history, TypeInv, TypeOK
  <1>3. WriterOK'
    BY <1>2 DEF StoreInv, WriterOK, Doc, StoredOf, PieceOf
  <1>4. NoStaleChunks'
    BY <1>2 DEF StoreInv, NoStaleChunks, StoredOf, PiecesOf, PieceOf, Indexed
  <1>5. PassedOK'
    <2> SUFFICES ASSUME NEW s \in DOMAIN body, NEW i \in Indexed(body[s]), i < at'[s].doc
                 PROVE  PiecesKept(s, i)'
      BY <1>2 DEF PassedOK, Indexed
    <2>1. s \in Requests /\ i \in Nat
      BY BodyFacts, DocsFacts DEF TypeInv, TypeOK
    <2>2. i < at[s].doc
      BY <1>1, <1>2, <2>1
    <2>3. PiecesKept(s, i)
      BY <2>2 DEF StoreInv, PassedOK
    <2>4. QED
      BY <1>2, <2>3 DEF PiecesKept, StoredOf, PiecesOf, PieceOf
  <1>6. DoneOK'
    BY <1>2, IngestDone
  <1>7. QED
    BY <1>3, <1>4, <1>5, <1>6 DEF StoreInv

(* The old chunks of the document are gone and r is the last who begins it. *)
LEMMA BeginStore ==
    ASSUME TypeInv, CreatorInv, StoreInv, NEW r \in Requests, BeginDoc(r)
    PROVE  StoreInv'
  <1> DEFINE id == Doc(r).id
  <1>1. /\ r \in DOMAIN body /\ body[r] \in Body /\ r # Nobody /\ id \in Ids
        /\ at[r].doc \in Indexed(body[r])
    BY AtDoc, AtIndexed, BodyFacts, DocumentFacts, DocsAssumption
       DEF BeginDoc, TypeInv, TypeOK, PlaceOK
  <1>2. /\ UNCHANGED <<body, jobs, created>>
        /\ pc[r] = "doc" /\ pc'[r] = "piece"
        /\ at'[r].doc = at[r].doc /\ at'[r].piece = 1
        /\ \A s \in Requests \ {r} : at'[s] = at[s] /\ pc'[s] = pc[s]
        /\ last'[id] = r /\ \A x \in Ids \ {id} : last'[x] = last[x]
        /\ mixed \subseteq mixed'
        /\ \A s \in Requests \ {r} : pc[s] = "piece" /\ Doc(s).id = id => id \in mixed'
    BY <1>1 DEF BeginDoc, Goto, NoteOverlap, Overlaps, fixed, TypeInv, TypeOK
  <1>3. \A s \in Requests : Doc(s)' = Doc(s)
    BY <1>2 DEF Doc
  <1>4. WriterOK'
    <2> SUFFICES ASSUME NEW s \in Requests, pc'[s] = "piece",
                        NEW x, x = Doc(s).id
                 PROVE  /\ last'[x] # Nobody
                        /\ x \notin mixed' =>
                             /\ last'[x] = s
                             /\ StoredOf(x)' = {PieceOf(s, Doc(s), n) : n \in 1 .. at'[s].piece - 1}
      BY <1>2, <1>3 DEF WriterOK, PieceOf, StoredOf
    <2>1. CASE s = r
      <3>1. StoredOf(x)' = {}
        BY <2>1, AfterDelete
      <3>2. 1 .. at'[s].piece - 1 = {}
        BY <1>2, <2>1
      <3>3. QED
        BY <1>1, <1>2, <2>1, <3>1, <3>2
    <2>2. CASE s # r
      <3>1. pc[s] = "piece" /\ at'[s] = at[s] /\ (x = id => x \in mixed')
        BY <1>2, <2>2
      <3>2. x \in Ids
        BY <3>1, AtPiece, DocumentFacts
      <3>3. /\ last[x] # Nobody
            /\ x \notin mixed =>
                 /\ last[x] = s
                 /\ StoredOf(x) = {PieceOf(s, Doc(s), n) : n \in 1 .. at[s].piece - 1}
        BY <3>1 DEF StoreInv, WriterOK
      <3>4. x # id => StoredOf(x)' = StoredOf(x)
        BY AfterDelete
      <3>5. QED
        BY <1>1, <1>2, <3>1, <3>2, <3>3, <3>4
    <2>3. QED
      BY <2>1, <2>2
  <1>5. NoStaleChunks'
    <2> SUFFICES ASSUME NEW x \in Ids, x \notin mixed', NEW c \in StoredOf(x)'
                 PROVE  /\ last'[x] # Nobody
                        /\ \E i \in Indexed(body[last'[x]]) :
                               c \in PiecesOf(last'[x], body[last'[x]].docs[i])
      BY <1>2 DEF NoStaleChunks, PiecesOf, PieceOf, Indexed
    <2>1. x # id /\ c \in StoredOf(x)
      BY AfterDelete
    <2>2. QED
      BY <1>2, <2>1 DEF StoreInv, NoStaleChunks
  <1>6. PassedOK'
    <2> SUFFICES ASSUME NEW s \in DOMAIN body, NEW i \in Indexed(body[s]), i < at'[s].doc
                 PROVE  PiecesKept(s, i)'
      BY <1>2 DEF PassedOK, Indexed
    <2> DEFINE d == body[s].docs[i]
    <2>1. /\ s \in Requests /\ body[s] \in Body /\ i \in 1 .. Len(body[s].docs)
          /\ d.id \in Ids /\ i < at[s].doc /\ PiecesKept(s, i)
      BY <1>2, BodyFacts, DocsFacts, DocumentFacts DEF TypeInv, TypeOK, StoreInv, PassedOK
    <2>2. last'[d.id] # Nobody
      BY <1>1, <1>2, <2>1 DEF PiecesKept
    <2>3. last'[d.id] = s => d.id # id
      <3>1. CASE s = r
        <4>1. id = body[s].docs[at[r].doc].id /\ at[r].doc \in Indexed(body[s])
          BY <1>1, <3>1 DEF Doc
        <4>2. d.id = id => i = at[r].doc
          BY <2>1, <4>1, DistinctIds
        <4>3. QED
          BY <2>1, <3>1, <4>2
      <3>2. CASE s # r
        BY <1>2, <3>2
      <3>3. QED
        BY <3>1, <3>2
    <2>4. last'[d.id] = s /\ d.id \notin mixed' => StoredOf(d.id)' = PiecesOf(s, d)
      BY <1>2, <2>1, <2>3, AfterDelete DEF PiecesKept
    <2>5. QED
      BY <1>2, <2>2, <2>4 DEF PiecesKept, PiecesOf, PieceOf, StoredOf
  <1>7. DoneOK'
    BY <1>2, IngestDone
  <1>8. QED
    BY <1>4, <1>5, <1>6, <1>7 DEF StoreInv

(* One piece more; after the last one the document is complete.            *)
LEMMA UpsertStore ==
    ASSUME TypeInv, CreatorInv, StoreInv, NEW r \in Requests, Upsert(r)
    PROVE  StoreInv'
  <1> DEFINE id == Doc(r).id
  <1>1. /\ pc[r] = "piece" /\ r \in DOMAIN body /\ body[r] \in Body /\ r # Nobody
        /\ id \in Ids /\ Doc(r).pieces \in Nat
        /\ at[r].doc \in Indexed(body[r]) /\ at[r].doc \in Nat
        /\ at[r].piece \in 1 .. Doc(r).pieces
    BY AtPiece, BodyFacts, DocumentFacts, DocsAssumption DEF Upsert, TypeInv, TypeOK, PlaceOK
  <1>10. last[id] # Nobody
    BY <1>1 DEF StoreInv, WriterOK
  <1>2. /\ UNCHANGED <<body, jobs, created, last>>
        /\ \A s \in Requests \ {r} : at'[s] = at[s] /\ pc'[s] = pc[s]
        /\ mixed \subseteq mixed' /\ mixed' \subseteq mixed \union {id}
        /\ \A s \in Requests \ {r} : pc[s] = "piece" /\ Doc(s).id = id => id \in mixed'
    BY DEF Upsert, Goto, NoteOverlap, Overlaps, fixed, TypeInv, TypeOK
  <1>3. \/ /\ at[r].piece = Doc(r).pieces
           /\ pc'[r] = "doc" /\ at'[r].doc = at[r].doc + 1
        \/ /\ pc'[r] = "piece" /\ at'[r].doc = at[r].doc
           /\ at'[r].piece = at[r].piece + 1
    <2>1. at \in Places /\ pc \in [Requests -> PC]
      BY DEF TypeInv, TypeOK, Places
    <2>2. CASE LastPiece(r)
      <3>1. at' = [at EXCEPT ![r].doc = @ + 1] /\ pc' = [pc EXCEPT ![r] = "doc"]
        BY <2>2 DEF Upsert, Goto
      <3>2. at[r].piece = Doc(r).pieces
        BY <1>1, <2>2 DEF LastPiece
      <3>3. QED
        BY <2>1, <3>1, <3>2 DEF Places
    <2>3. CASE ~LastPiece(r)
      <3>1. at' = [at EXCEPT ![r].piece = @ + 1] /\ pc' = pc
        BY <2>3 DEF Upsert
      <3>2. QED
        BY <1>1, <2>1, <3>1 DEF Places
    <2>4. QED
      BY <2>2, <2>3
  <1>4. ASSUME id \notin mixed'
        PROVE  /\ last[id] = r
               /\ \A x : x = id => StoredOf(x)' = {PieceOf(r, Doc(r), n) : n \in 1 .. at[r].piece}
    <2>1. /\ last[id] = r
          /\ StoredOf(id) = {PieceOf(r, Doc(r), n) : n \in 1 .. at[r].piece - 1}
      BY <1>1, <1>2, <1>4 DEF StoreInv, WriterOK
    <2> SUFFICES ASSUME NEW x, x = id
                 PROVE  StoredOf(x)' = {PieceOf(r, Doc(r), n) : n \in 1 .. at[r].piece}
      BY <2>1
    <2>2. StoredOf(x)' = {c \in StoredOf(x) : c.piece # at[r].piece}
                            \union {PieceOf(r, Doc(r), at[r].piece)}
      BY AfterUpsert, ChunkIsPiece
    <2>3. \A n : PieceOf(r, Doc(r), n).piece = n
      BY DEF PieceOf
    <2>4. {c \in StoredOf(x) : c.piece # at[r].piece} = StoredOf(x)
      BY <1>1, <2>1, <2>3
    <2>5. QED
      BY <1>1, <2>1, <2>2, <2>4
  <1>5. WriterOK'
    <2> SUFFICES ASSUME NEW s \in Requests, pc'[s] = "piece",
                        NEW x, x = Doc(s)'.id
                 PROVE  /\ last'[x] # Nobody
                        /\ x \notin mixed' =>
                             /\ last'[x] = s
                             /\ StoredOf(x)' = {PieceOf(s, Doc(s), n)' : n \in 1 .. at'[s].piece - 1}
      BY DEF WriterOK
    <2>1. Doc(s)' = Doc(s) /\ \A n : PieceOf(s, Doc(s), n)' = PieceOf(s, Doc(s), n)
      BY <1>2, <1>3 DEF Doc, PieceOf
    <2>2. CASE s = r
      <3>1. at'[s].piece - 1 = at[s].piece
        BY <1>1, <1>3, <2>2
      <3>2. x = id
        BY <2>1, <2>2
      <3>3. QED
        BY <1>1, <1>2, <1>4, <1>10, <2>1, <2>2, <3>1, <3>2
    <2>3. CASE s # r
      <3>1. pc[s] = "piece" /\ x = Doc(s).id /\ at'[s] = at[s] /\ (x = id => x \in mixed')
        BY <1>2, <2>1, <2>3
      <3>2. /\ last[x] # Nobody
            /\ x \notin mixed =>
                 /\ last[x] = s
                 /\ StoredOf(x) = {PieceOf(s, Doc(s), n) : n \in 1 .. at[s].piece - 1}
        BY <3>1 DEF StoreInv, WriterOK
      <3>3. x # id => StoredOf(x)' = StoredOf(x)
        BY AfterUpsert
      <3>4. QED
        BY <1>2, <2>1, <3>1, <3>2, <3>3
    <2>4. QED
      BY <2>2, <2>3
  <1>6. NoStaleChunks'
    <2> SUFFICES ASSUME NEW x \in Ids, x \notin mixed', NEW c \in StoredOf(x)'
                 PROVE  /\ last[x] # Nobody
                        /\ \E i \in Indexed(body[last[x]]) :
                               c \in PiecesOf(last[x], body[last[x]].docs[i])
      BY <1>2 DEF NoStaleChunks, PiecesOf, PieceOf, Indexed
    <2>1. CASE x = id
      <3>1. last[x] = r /\ c \in {PieceOf(r, Doc(r), n) : n \in 1 .. at[r].piece}
        BY <1>4, <2>1
      <3>2. c \in PiecesOf(r, body[r].docs[at[r].doc])
        BY <1>1, <3>1 DEF PiecesOf, Doc
      <3>3. QED
        BY <1>1, <3>1, <3>2
    <2>2. CASE x # id
      BY <1>2, <2>2, AfterUpsert DEF StoreInv, NoStaleChunks
    <2>3. QED
      BY <2>1, <2>2
  <1>7. PassedOK'
    <2> SUFFICES ASSUME NEW s \in DOMAIN body, NEW i \in Indexed(body[s]), i < at'[s].doc
                 PROVE  PiecesKept(s, i)'
      BY <1>2 DEF PassedOK, Indexed
    <2> DEFINE d == body[s].docs[i]
    <2>1. /\ s \in Requests /\ body[s] \in Body /\ i \in 1 .. Len(body[s].docs)
          /\ d.id \in Ids
      BY <1>2, BodyFacts, DocsFacts, DocumentFacts DEF TypeInv, TypeOK
    <2>2. CASE s = r /\ i = at[r].doc
      <3>1. d = Doc(r) /\ at[r].piece = Doc(r).pieces
        BY <1>1, <1>3, <2>2 DEF Doc
      <3>2. last[d.id] # Nobody
        BY <1>10, <3>1
      <3>3. d.id \notin mixed' => StoredOf(d.id)' = PiecesOf(s, d)
        BY <1>2, <1>4, <2>2, <3>1 DEF PiecesOf
      <3>4. QED
        BY <1>2, <3>2, <3>3 DEF PiecesKept, PiecesOf, PieceOf
    <2>3. CASE ~(s = r /\ i = at[r].doc)
      <3>1. PiecesKept(s, i)
        <4>1. i < at[s].doc
          BY <1>1, <1>2, <1>3, <2>1, <2>3
        <4>2. QED
          BY <4>1 DEF StoreInv, PassedOK
      <3>2. last[d.id] = s /\ d.id \notin mixed' => d.id # id
        <4>1. CASE s = r
          <5>1. id = body[s].docs[at[r].doc].id /\ at[r].doc \in Indexed(body[s])
            BY <1>1, <4>1 DEF Doc
          <5>2. d.id = id => i = at[r].doc
            BY <2>1, <5>1, DistinctIds
          <5>3. QED
            BY <2>3, <4>1, <5>2
        <4>2. CASE s # r
          BY <1>4, <4>2
        <4>3. QED
          BY <4>1, <4>2
      <3>3. last[d.id] = s /\ d.id \notin mixed' => StoredOf(d.id)' = PiecesOf(s, d)
        BY <1>2, <3>1, <3>2, AfterUpsert DEF PiecesKept
      <3>4. QED
        BY <1>2, <3>1, <3>3 DEF PiecesKept, PiecesOf, PieceOf
    <2>4. QED
      BY <2>2, <2>3
  <1>8. DoneOK'
    BY <1>1, <1>2, <1>3, IngestDone
  <1>9. QED
    BY <1>5, <1>6, <1>7, <1>8 DEF StoreInv

LEMMA StepStore == TypeInv /\ CreatorInv /\ StoreInv /\ [Next]_vars => StoreInv'
  <1> SUFFICES ASSUME TypeInv, CreatorInv, StoreInv, [Next]_vars PROVE StoreInv'
    OBVIOUS
  <1> USE DEF fixed, requestVars, guardVars, tableVars, history
  <1>1. CASE UNCHANGED vars
    BY <1>1, QuietStore DEF vars, Done, Key
  <1>2. ASSUME NEW r \in Requests, Enter(r) \/ EnterRefused(r) \/ PostDocs(r)
        PROVE  StoreInv'
    <2>1. CASE SkipDoc(r)
      BY <2>1, SkipStore
    <2>2. CASE BeginDoc(r)
      BY <2>2, BeginStore
    <2>3. CASE Upsert(r)
      BY <2>3, UpsertStore
    <2>4. CASE Create(r)
      <3>1. \A s \in Requests : Done(s)' => Done(s)
        <4>1. /\ r \in DOMAIN body /\ Key(r) \in Keys /\ jobs[Key(r)] = "none"
              /\ jobs \in [Keys -> Status] /\ created \in [Requests -> BOOLEAN]
              /\ pc \in [Requests -> PC]
          BY <2>4, KeyFacts DEF Create, TypeInv, TypeOK, PlaceOK
        <4>2. /\ UNCHANGED body /\ jobs' = [jobs EXCEPT ![Key(r)] = "accepted"]
              /\ created' = [created EXCEPT ![r] = TRUE]
              /\ pc' = [pc EXCEPT ![r] = "bulkhead"]
          BY <2>4 DEF Create, Goto
        <4>3. QED
          BY <4>1, <4>2, KeyKept DEF Done
      <3>2. QED
        BY <2>4, <3>1, QuietStore DEF Create, Goto, TypeInv, TypeOK
    <2>5. CASE Finishes(r)
      <3>1. \A s \in Requests : Done(s)' => Done(s)
        <4>1. /\ created[r] /\ created' = created /\ UNCHANGED body
              /\ jobs' = [jobs EXCEPT ![Key(r)] = "completed"]
              /\ pc' = [pc EXCEPT ![r] = "leave"] /\ pc \in [Requests -> PC]
              /\ jobs \in [Keys -> Status]
          BY <2>5 DEF Finishes, LeaveWith, Goto, TypeInv, TypeOK, CreatorInv, CreatedOK, Making
        <4>2. \A s \in Requests \ {r} : created[s] => Key(s) # Key(r)
          BY <4>1 DEF CreatorInv, OneEach
        <4>3. \A s \in Requests : created[s] => Key(s) \in Keys
          BY KeyFacts DEF CreatorInv, CreatedOK, TypeInv, TypeOK
        <4>4. pc[r] = "complete"
          BY <2>5 DEF Finishes
        <4>5. QED
          BY <4>1, <4>2, <4>3, <4>4, KeyKept DEF Done
      <3>2. QED
        BY <2>5, <3>1, QuietStore DEF Finishes, LeaveWith, Goto, TypeInv, TypeOK
    <2>6. CASE EndIngest(r)
      <3>1. \A s \in Requests : Done(s)' => Done(s) \/ ~MoreDocs(s)
        BY <2>6, KeyKept DEF EndIngest, Goto, Done, TypeInv, TypeOK
      <3>2. QED
        BY <2>6, <3>1, QuietStore DEF EndIngest, Goto, TypeInv, TypeOK
    <2>7. CASE \/ Enter(r) \/ EnterRefused(r) \/ LimitRefuses(r) \/ LimitAllows(r)
               \/ Seen(r) \/ Mark(r) \/ DecodeRaises(r) \/ TableRaises(r)
               \/ AlreadyCreated(r) \/ EnterIngest(r) \/ IngestRefused(r)
               \/ IngestRaises(r) \/ (CompleteRaises(r) /\ jobs' = jobs) \/ Leave(r)
      <3>1. /\ UNCHANGED <<body, at, store, last, mixed, jobs, created>>
            /\ \E place \in PC \ {"piece", "complete"} : Goto(r, place)
        BY <2>7 DEF Enter, EnterRefused, LimitRefuses, LimitAllows, Seen, Mark,
                    DecodeRaises, TableRaises, AlreadyCreated, EnterIngest,
                    IngestRefused, IngestRaises, CompleteRaises, Leave, LeaveWith, PC
      <3>2. \A s \in Requests : /\ pc'[s] = "piece" => pc[s] = "piece"
                                /\ pc'[s] = "complete" => pc[s] = "complete"
        BY <3>1 DEF Goto, TypeInv, TypeOK
      <3>3. QED
        BY <3>1, <3>2, KeyKept, QuietStore DEF Done
    <2>8. QED
      BY <1>2, <2>1, <2>2, <2>3, <2>4, <2>5, <2>6, <2>7, CompleteFinishes, RaisesOrFinishes
         DEF PostDocs, Ingest
  <1>3. CASE Crash
    <2>1. \A s \in Requests : pc'[s] \in {pc[s], "answered"}
      BY <1>3 DEF Crash, TypeInv, TypeOK
    <2>2. QED
      BY <1>3, <2>1, KeyKept, QuietStore DEF Crash, Done
  <1>4. QED
    BY <1>1, <1>2, <1>3 DEF Next

LEMMA StoreCorrect == Spec => [](TypeInv /\ CreatorInv /\ StoreInv)
  <1>1. Init => TypeInv /\ CreatorInv /\ StoreInv
    BY InitType, InitCreator, InitStore
  <1>2. TypeInv /\ CreatorInv /\ StoreInv /\ [Next]_vars
           => (TypeInv /\ CreatorInv /\ StoreInv)'
    BY StepType, StepCreator, StepStore
  <1>3. QED
    BY <1>1, <1>2, PTL DEF Spec

LEMMA StoreImplies ==
    ASSUME TypeInv, CreatorInv, StoreInv PROVE NoStaleChunks /\ CompletedIsStored
  <1>1. NoStaleChunks
    BY DEF StoreInv
  <1>2. CompletedIsStored
    <2> SUFFICES ASSUME NEW r \in Requests, created[r], jobs[Key(r)] = "completed",
                        NEW i \in Indexed(body[r])
                 PROVE  PiecesKept(r, i)
      BY DEF CompletedIsStored, PiecesKept
    <2>1. r \in DOMAIN body /\ body[r] \in Body /\ ~MoreDocs(r) /\ at[r].doc \in Nat
      BY BodyFacts DEF CreatorInv, CreatedOK, StoreInv, DoneOK, Done, TypeInv, TypeOK
    <2>2. i \in 1 .. Len(body[r].docs) /\ Len(body[r].docs) \in Nat
      BY <2>1, DocsFacts
    <2>3. i < at[r].doc
      BY <2>1, <2>2 DEF MoreDocs
    <2>4. QED
      BY <2>1, <2>3 DEF StoreInv, PassedOK
  <1>3. QED
    BY <1>1, <1>2

(* When a document is ingested again, whatever was lost, raised or crashed *)
(* in between, no chunk of its old text stays beside those of the new one. *)
THEOREM NothingStale == Spec => []NoStaleChunks
  BY StoreCorrect, StoreImplies, PTL

(* update_status(..., "completed") is reached only with every piece of the *)
(* request's documents in the chunk store.                                 *)
THEOREM CompletedStored == Spec => []CompletedIsStored
  BY StoreCorrect, StoreImplies, PTL
=============================================================================
