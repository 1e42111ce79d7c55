------------------------------ MODULE DocsApi ------------------------------
(***************************************************************************)
(* POST /docs of src/shrag/api/routes.py in one server process: admission  *)
(* (api/backpressure.py), idempotency keys (api/idempotency.py), the job   *)
(* registry (api/jobs.py) and the ingest stage with the chunk store        *)
(* (ingest/pipeline.py, ingest/store.py).  The endpoint is a plain `def`:  *)
(* each request runs in a thread of its own, and every call of a store is  *)
(* one critical section, so a request is a chain of atomic steps.  The     *)
(* keys, the jobs and the chunks are in SQLite and outlive a crash.        *)
(*                                                                         *)
(* A body stands for a tenant's request after normalisation: its effective *)
(* idempotency key (the header or the digest), whether its attachments     *)
(* decode, and its documents.  A document has an id, a text, and the       *)
(* number of pieces the chunkers make of the text and its attachments; a   *)
(* text of less than 20 characters is a document of 0 pieces.              *)
(***************************************************************************)
EXTENDS Naturals, FiniteSets, Sequences

CONSTANTS Requests,    \* the POSTs, each one sent at most once
          Tenants, KeyNames, Ids, Texts,
          Workloads,   \* what the requests may ask: functions from the ones
                       \* that are sent to their bodies
          Limits,      \* the settings a run looks at
          Nobody,      \* not a request
          MaxFaults,   \* bound: calls that raise
          MaxCrashes   \* bound: crashes of the process

Document == [id : Ids, text : Texts, pieces : Nat]
Body     == [tenant : Tenants, key : KeyNames, decodes : BOOLEAN,
             docs : Seq(Document)]

ASSUME DocsAssumption ==
    /\ Nobody \notin Requests
    /\ IsFiniteSet(Requests)
    /\ \A w \in Workloads : /\ DOMAIN w \subseteq Requests
                           /\ w \in [DOMAIN w -> Body]
    /\ Limits \subseteq [inflight : Nat, ingest : Nat]
    /\ MaxFaults \in Nat /\ MaxCrashes \in Nat

VARIABLES limits,     \* max_inflight_requests and max_ingest_inflight
          body,       \* what each request asks
          pc,         \* where each request is in docs()
          previously, \* its previously_seen
          created,    \* its created
          answer,     \* its response
          at,         \* the document and the piece its ingest is at
          inflight,   \* _inflight_guard
          ingesting,  \* _ingest_bulkhead
          seen,       \* the idempotency_keys table
          jobs,       \* the jobs table: the status of each composite key
          store,      \* the chunks table
          faults, crashes

VARIABLES last,       \* history: who deleted a document's chunks last
          mixed       \* history: documents two requests ingested at once

requestVars == <<pc, previously, created, answer, at>>
guardVars   == <<inflight, ingesting>>
tableVars   == <<seen, jobs, store>>
history     == <<last, mixed>>
fixed       == <<limits, body>>
vars == <<fixed, requestVars, guardVars, tableVars, faults, crashes, history>>

Answers == {"none", "completed", "accepted", "duplicate", "limited",
            "saturated", "failed", "lost"}
PC == {"start", "limit", "seen", "mark", "create", "bulkhead", "doc", "piece",
       "complete", "leave", "answered"}
Status == {"none", "accepted", "completed"}

(* The composite key f"{tenant}:{effective_key}"; no tenant's name goes on *)
(* with a colon and the beginning of another's key.                        *)
Keys   == Tenants \X KeyNames
Key(r) == <<body[r].tenant, body[r].key>>
Doc(r) == body[r].docs[at[r].doc]

Init ==
    /\ limits \in Limits
    /\ body \in Workloads
    /\ pc = [r \in Requests |-> "start"]
    /\ previously = [r \in Requests |-> FALSE]
    /\ created = [r \in Requests |-> FALSE]
    /\ answer = [r \in Requests |-> "none"]
    /\ at = [r \in Requests |-> [doc |-> 1, piece |-> 1]]
    /\ inflight = 0 /\ ingesting = 0
    /\ seen = {}
    /\ jobs = [k \in Keys |-> "none"]
    /\ store = {}
    /\ faults = 0 /\ crashes = 0
    /\ last = [d \in Ids |-> Nobody]
    /\ mixed = {}

-----------------------------------------------------------------------------
Goto(r, place) == pc' = [pc EXCEPT ![r] = place]
Answer(r, what) == answer' = [answer EXCEPT ![r] = what]

(* The response, or the HTTPException, on its way through the finally.     *)
LeaveWith(r, what) == Goto(r, "leave") /\ Answer(r, what)

(* InflightGuard.exit.                                                     *)
Exit(n) == IF n > 0 THEN n - 1 ELSE n

Raises == faults < MaxFaults /\ faults' = faults + 1

(* _enforce_capacity.                                                      *)
Enter(r) ==
    /\ pc[r] = "start" /\ r \in DOMAIN body
    /\ inflight < limits.inflight
    /\ inflight' = inflight + 1
    /\ Goto(r, "limit")
    /\ UNCHANGED <<fixed, previously, created, answer, at, ingesting, tableVars,
                   faults, crashes, history>>

EnterRefused(r) ==
    /\ pc[r] = "start" /\ r \in DOMAIN body
    /\ inflight >= limits.inflight
    /\ Goto(r, "answered") /\ Answer(r, "saturated")
    /\ UNCHANGED <<fixed, previously, created, at, guardVars, tableVars, faults,
                   crashes, history>>

(* Mutant: the 429 is raised before the try, so its slot is not given back. *)
LimitLeaks(r) ==
    /\ pc[r] = "limit"
    /\ Goto(r, "answered") /\ Answer(r, "limited")
    /\ UNCHANGED <<fixed, previously, created, at, guardVars, tableVars, faults,
                   crashes, history>>

(* _enforce_rate_limit: the clock and the other clients of the window      *)
(* decide.                                                                 *)
LimitRefuses(r) ==
    /\ pc[r] = "limit"
    /\ LeaveWith(r, "limited")
    /\ UNCHANGED <<fixed, previously, created, at, guardVars, tableVars, faults,
                   crashes, history>>

LimitAllows(r) ==
    /\ pc[r] = "limit"
    /\ Goto(r, "seen")
    /\ UNCHANGED <<fixed, previously, created, answer, at, guardVars, tableVars,
                   faults, crashes, history>>

(* _idempotency.seen and, in a critical section of its own, mark.          *)
Seen(r) ==
    /\ pc[r] = "seen"
    /\ previously' = [previously EXCEPT ![r] = Key(r) \in seen]
    /\ Goto(r, "mark")
    /\ UNCHANGED <<fixed, created, answer, at, guardVars, tableVars, faults,
                   crashes, history>>

Mark(r) ==
    /\ pc[r] = "mark"
    /\ seen' = seen \union {Key(r)}
    /\ Goto(r, "create")
    /\ UNCHANGED <<fixed, previously, created, answer, at, guardVars, jobs, store,
                   faults, crashes, history>>

(* base64.b64decode of an attachment raises: the key stays marked.         *)
DecodeRaises(r) ==
    /\ pc[r] = "create"
    /\ ~body[r].decodes
    /\ LeaveWith(r, "failed")
    /\ UNCHANGED <<fixed, previously, created, at, guardVars, tableVars, faults,
                   crashes, history>>

(* seen, mark or create_deterministic raises, before it has changed its    *)
(* table.                                                                  *)
TableRaises(r) ==
    /\ pc[r] \in {"seen", "mark"} \/ (pc[r] = "create" /\ body[r].decodes)
    /\ Raises
    /\ LeaveWith(r, "failed")
    /\ UNCHANGED <<fixed, previously, created, at, guardVars, tableVars, crashes,
                   history>>

-----------------------------------------------------------------------------
(* Mutant: the seen key decides, not the row of the job.                   *)
CreateUnlessSeen(r) ==
    /\ pc[r] = "create"
    /\ body[r].decodes
    /\ ~previously[r]
    /\ jobs' = [jobs EXCEPT ![Key(r)] = "accepted"]
    /\ created' = [created EXCEPT ![r] = TRUE]
    /\ Goto(r, "bulkhead")
    /\ UNCHANGED <<fixed, previously, answer, at, guardVars, seen, store, faults,
                   crashes, history>>

(* create_deterministic: SELECT and INSERT in one critical section.        *)
Create(r) ==
    /\ pc[r] = "create"
    /\ body[r].decodes
    /\ jobs[Key(r)] = "none"
    /\ jobs' = [jobs EXCEPT ![Key(r)] = "accepted"]
    /\ created' = [created EXCEPT ![r] = TRUE]
    /\ Goto(r, "bulkhead")
    /\ UNCHANGED <<fixed, previously, answer, at, guardVars, seen, store, faults,
                   crashes, history>>

AlreadyCreated(r) ==
    /\ pc[r] = "create"
    /\ body[r].decodes
    /\ jobs[Key(r)] # "none"
    /\ LeaveWith(r, IF previously[r] THEN "duplicate" ELSE jobs[Key(r)])
    /\ UNCHANGED <<fixed, previously, created, at, guardVars, tableVars, faults,
                   crashes, history>>

(* _stage_or_503(_ingest_bulkhead).                                        *)
EnterIngest(r) ==
    /\ pc[r] = "bulkhead"
    /\ ingesting < limits.ingest
    /\ ingesting' = ingesting + 1
    /\ Goto(r, "doc")
    /\ UNCHANGED <<fixed, previously, created, answer, at, inflight, tableVars,
                   faults, crashes, history>>

IngestRefused(r) ==
    /\ pc[r] = "bulkhead"
    /\ ingesting >= limits.ingest
    /\ LeaveWith(r, "saturated")
    /\ UNCHANGED <<fixed, previously, created, at, guardVars, tableVars, faults,
                   crashes, history>>

-----------------------------------------------------------------------------
(* BaselineIngestStage.ingest, one store call at a time.                   *)
Repeated(r) == \E i \in 1 .. at[r].doc - 1 : body[r].docs[i].id = Doc(r).id
MoreDocs(r) == at[r].doc <= Len(body[r].docs)
Indexed(b)  == {i \in DOMAIN b.docs :
                   /\ b.docs[i].pieces > 0
                   /\ \A n \in 1 .. i - 1 : b.docs[n].id # b.docs[i].id}

Chunk(r) == [source |-> Doc(r).id, piece |-> at[r].piece,
             text |-> Doc(r).text, tenant |-> body[r].tenant]
(* A chunk's id, "<document>:<n>" or "<document>:att:<name>:<n>", is taken *)
(* to be that of one piece of one document: no document is called like     *)
(* another's attachment.                                                   *)
SameId(c, d) == c.source = d.source /\ c.piece = d.piece

(* Somebody else is between the pieces of the same document.               *)
Overlaps(r) == \E s \in Requests \ {r} :
                   pc[s] = "piece" /\ Doc(s).id = Doc(r).id
NoteOverlap(r) == mixed' = IF Overlaps(r) THEN mixed \union {Doc(r).id} ELSE mixed

SkipDoc(r) ==
    /\ pc[r] = "doc"
    /\ MoreDocs(r)
    /\ Repeated(r) \/ Doc(r).pieces = 0
    /\ at' = [at EXCEPT ![r].doc = @ + 1]
    /\ UNCHANGED <<fixed, pc, previously, created, answer, guardVars, tableVars,
                   faults, crashes, history>>

(* Mutant: the old chunks stay.                                            *)
KeepSource(id) == UNCHANGED store

(* delete_by_source: the tenant plays no part.                             *)
DeleteBySource(id) == store' = {c \in store : c.source # id}

BeginDoc(r) ==
    /\ pc[r] = "doc"
    /\ MoreDocs(r)
    /\ ~Repeated(r) /\ Doc(r).pieces > 0
    /\ DeleteBySource(Doc(r).id)
    /\ at' = [at EXCEPT ![r].piece = 1]
    /\ Goto(r, "piece")
    /\ last' = [last EXCEPT ![Doc(r).id] = r]
    /\ NoteOverlap(r)
    /\ UNCHANGED <<fixed, previously, created, answer, guardVars, seen, jobs,
                   faults, crashes>>

(* Mutant: the range of the pieces ends one early.                         *)
LastPieceEarly(r) == at[r].piece + 1 >= Doc(r).pieces

LastPiece(r) == at[r].piece >= Doc(r).pieces

Upsert(r) ==
    /\ pc[r] = "piece"
    /\ store' = {c \in store : ~SameId(c, Chunk(r))} \union {Chunk(r)}
    /\ IF LastPiece(r)
       THEN at' = [at EXCEPT ![r].doc = @ + 1] /\ Goto(r, "doc")
       ELSE at' = [at EXCEPT ![r].piece = @ + 1] /\ UNCHANGED pc
    /\ NoteOverlap(r)
    /\ UNCHANGED <<fixed, previously, created, answer, guardVars, seen, jobs,
                   faults, crashes, last>>

EndIngest(r) ==
    /\ pc[r] = "doc"
    /\ ~MoreDocs(r)
    /\ ingesting' = Exit(ingesting)
    /\ Goto(r, "complete")
    /\ UNCHANGED <<fixed, previously, created, answer, at, inflight, tableVars,
                   faults, crashes, history>>

(* Chunking, embedding or a store call raises (a RuntimeError becomes a    *)
(* 503, anything else a 500): what was written stays written.              *)
IngestRaises(r) ==
    /\ pc[r] \in {"doc", "piece"}
    /\ Raises
    /\ ingesting' = Exit(ingesting)
    /\ LeaveWith(r, "failed")
    /\ UNCHANGED <<fixed, previously, created, at, inflight, tableVars, crashes,
                   history>>

(* Mutants: a status nobody knows; the update is forgotten; "duplicate"    *)
(* for every seen key.                                                     *)
CompleteAs(r, status, what) ==
    /\ pc[r] = "complete"
    /\ jobs' = [jobs EXCEPT ![Key(r)] = status]
    /\ LeaveWith(r, what)
    /\ UNCHANGED <<fixed, previously, created, at, guardVars, seen, store, faults,
                   crashes, history>>
CompleteAsDone(r)    == CompleteAs(r, "done", "completed")
CompleteForgotten(r) == CompleteAs(r, "accepted", "completed")
CompleteSeen(r)      == CompleteAs(r, "completed", IF previously[r] THEN "duplicate"
                                                   ELSE "completed")

(* update_status, get and the best-effort webhook.                         *)
Complete(r) ==
    /\ pc[r] = "complete"
    /\ jobs' = [jobs EXCEPT ![Key(r)] = "completed"]
    /\ LeaveWith(r, "completed")
    /\ UNCHANGED <<fixed, previously, created, at, guardVars, seen, store, faults,
                   crashes, history>>

(* update_status raises, or get does when the row is written already: a    *)
(* completed job whose client is told that it failed.                      *)
CompleteRaises(r) ==
    /\ pc[r] = "complete"
    /\ Raises
    /\ jobs' \in {jobs, [jobs EXCEPT ![Key(r)] = "completed"]}
    /\ LeaveWith(r, "failed")
    /\ UNCHANGED <<fixed, previously, created, at, guardVars, seen, store, crashes,
                   history>>

(* _finalize_capacity.                                                     *)
Leave(r) ==
    /\ pc[r] = "leave"
    /\ inflight' = Exit(inflight)
    /\ Goto(r, "answered")
    /\ UNCHANGED <<fixed, previously, created, answer, at, ingesting, tableVars,
                   faults, crashes, history>>

(* The process dies and starts again: its clients get no response.         *)
Busy(r) == pc[r] \notin {"start", "answered"}

Crash ==
    /\ crashes < MaxCrashes
    /\ crashes' = crashes + 1
    /\ inflight' = 0 /\ ingesting' = 0
    /\ pc' = [r \in Requests |-> IF Busy(r) THEN "answered" ELSE pc[r]]
    /\ answer' = [r \in Requests |-> IF Busy(r) THEN "lost" ELSE answer[r]]
    /\ UNCHANGED <<fixed, previously, created, at, tableVars, faults, history>>

-----------------------------------------------------------------------------
Ingest(r) == \/ SkipDoc(r) \/ BeginDoc(r) \/ Upsert(r) \/ EndIngest(r)
             \/ IngestRaises(r)

PostDocs(r) ==
    \/ LimitRefuses(r) \/ LimitAllows(r)
    \/ Seen(r) \/ Mark(r) \/ DecodeRaises(r) \/ TableRaises(r)
    \/ Create(r) \/ AlreadyCreated(r)
    \/ EnterIngest(r) \/ IngestRefused(r) \/ Ingest(r)
    \/ Complete(r) \/ CompleteRaises(r) \/ Leave(r)

Next ==
    \/ \E r \in Requests : Enter(r) \/ EnterRefused(r) \/ PostDocs(r)
    \/ Crash

Spec == Init /\ [][Next]_vars

(* A request that was admitted keeps running.                              *)
Fairness == \A r \in Requests : WF_vars(PostDocs(r))

FairSpec == Spec /\ Fairness
-----------------------------------------------------------------------------
Inside(r) == pc[r] \in PC \ {"start", "answered"}
InIngest(r) == pc[r] \in {"doc", "piece"}
PieceOf(r, d, n) == [source |-> d.id, piece |-> n, text |-> d.text,
                     tenant |-> body[r].tenant]
PiecesOf(r, d) == {PieceOf(r, d, n) : n \in 1 .. d.pieces}
StoredOf(id) == {c \in store : c.source = id}

(* The variables have the types the code gives them.                       *)
TypeOK ==
    /\ limits \in Limits
    /\ body \in Workloads
    /\ pc \in [Requests -> PC]
    /\ previously \in [Requests -> BOOLEAN] /\ created \in [Requests -> BOOLEAN]
    /\ answer \in [Requests -> Answers]
    /\ at \in [Requests -> [doc : Nat, piece : Nat]]
    /\ inflight \in Nat /\ ingesting \in Nat
    /\ seen \subseteq Keys
    /\ jobs \in [Keys -> Status]
    /\ store \subseteq [source : Ids, piece : Nat, text : Texts, tenant : Tenants]
    /\ faults \in Nat /\ crashes \in Nat
    /\ last \in [Ids -> Requests \union {Nobody}]
    /\ mixed \subseteq Ids

(* No response, exception, refusal or crash leaks a slot of the inflight   *)
(* guard or of the ingest bulkhead, or gives one back twice, and neither   *)
(* lets in more than its limit.                                            *)
SlotsMatch ==
    /\ inflight = Cardinality({r \in Requests : Inside(r)})
    /\ ingesting = Cardinality({r \in Requests : InIngest(r)})
    /\ inflight <= limits.inflight /\ ingesting <= limits.ingest

(* However the same key is sent, concurrently or again after a crash, one  *)
(* request at most ingests for it, and only for an existing job.           *)
OneCreator ==
    /\ \A r, s \in Requests : created[r] /\ created[s] /\ Key(r) = Key(s) => r = s
    /\ \A r \in Requests : InIngest(r) => created[r] /\ jobs[Key(r)] = "accepted"

(* What a 202 says is true: "completed" of a completed job, "duplicate"    *)
(* and "accepted" of a job another request created.                        *)
AnswersTruthful ==
    \A r \in Requests :
        /\ answer[r] = "completed" => jobs[Key(r)] = "completed"
        /\ answer[r] \in {"duplicate", "accepted"} =>
              /\ jobs[Key(r)] # "none"
              /\ \E s \in Requests \ {r} : created[s] /\ Key(s) = Key(r)

(* Unless two requests were between the pieces of a document at once, its  *)
(* chunks all come from the request that deleted its old ones last, so a   *)
(* shorter text leaves nothing stale behind.                               *)
NoStaleChunks ==
    \A id \in Ids \ mixed : \A c \in StoredOf(id) :
        LET r == last[id]
        IN  /\ r # Nobody
            /\ \E i \in Indexed(body[r]) : c \in PiecesOf(r, body[r].docs[i])

(* A completed job's documents are all there, every piece of them, until   *)
(* another request begins to ingest the same document id.                  *)
CompletedIsStored ==
    \A r \in Requests : created[r] /\ jobs[Key(r)] = "completed" =>
        \A i \in Indexed(body[r]) :
            LET d == body[r].docs[i]
            IN  /\ last[d.id] # Nobody
                /\ last[d.id] = r /\ d.id \notin mixed => StoredOf(d.id) = PiecesOf(r, d)

(* A job becomes completed unless the one request that may ingest for it   *)
(* failed, found the bulkhead full, or was lost.                           *)
AcceptedCompletes ==
    \A k \in Keys : jobs[k] = "accepted" ~>
        \/ jobs[k] = "completed"
        \/ \E r \in Requests : /\ created[r] /\ Key(r) = k
                               /\ answer[r] \in {"failed", "saturated", "lost"}

-----------------------------------------------------------------------------
(* What the documents promise beyond that.                                 *)

(* "Partition key: tenant_id + corpus_namespace": a tenant's document      *)
(* stays in the index whatever the other tenants ingest.                   *)
TenantsKeepDocuments ==
    \A r \in Requests : answer[r] = "completed" =>
        \A i \in Indexed(body[r]) :
            \E c \in StoredOf(body[r].docs[i].id) : c.tenant = body[r].tenant
=============================================================================
