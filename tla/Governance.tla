----------------------------- MODULE Governance -----------------------------
(***************************************************************************)
(* The fine-tuning and release jobs of src/ops: dataset preparation,       *)
(* training, rendering of the cluster job, promotion, the readiness check, *)
(* the evidence jobs, the release gate, the audits and the published       *)
(* bundle.  They are separate programs, started by make targets, that      *)
(* talk through the files of one directory (.state) and through the model  *)
(* registry, either a JSON file of that directory or an HTTP service.      *)
(* Nothing locks either of them.                                           *)
(*                                                                         *)
(* A lane runs one program at a time.  A report is written in one step: a  *)
(* reader of a half-written report raises and changes nothing, which is as *)
(* if it had not run.  The registry's file, which a job reads, changes and *)
(* writes back, is followed through its truncation.                        *)
(***************************************************************************)
EXTENDS Naturals, FiniteSets, Sequences

CONSTANTS Lanes,         \* where jobs run: a laptop, a CI runner
          Runs,          \* fine-tuning run ids, one training job each
          Models,        \* output model ids
          Checks,        \* the connectors an evidence job checks
          NoFile,        \* a file that does not exist, a row that is not there
          Torn,          \* a registry file truncated and not written yet
          Scripts        \* bound: a backend, and the jobs each lane starts in order

Backends == {"local_json", "http"}  \* SHRAG_MODEL_REGISTRY_BACKEND

VARIABLES backend,     \* the registry's backend
          registry,    \* model-registry.json, or the service's table
          dir,         \* the reports of .state, by file
          lane,        \* the job each lane runs and where it is
          verdict      \* what the last release gate said

VARIABLES stored,      \* history: every row written to the registry
          facts        \* history: what the jobs really did

vars == <<backend, registry, dir, lane, verdict, stored, facts>>

(* SHRAG_FINETUNE_PROVENANCE_MODE may say anything.  "production" stands   *)
(* for all its spellings; those of "simulated" are told apart.             *)
Modes  == {"production", "simulated", "Simulated", "other"}
Status == {"trained", "failed", "promoted"}

(* A ModelRecord: what the run fixed (base model, method, dataset, path)   *)
(* is the run; approver, ticket and rollback plan go with approved.        *)
Row   == [model : Models, run : Runs, status : Status, approved : BOOLEAN]
Table == [Models -> Row \union {NoFile}]

JobSpec   == [run : Runs, model : Models]
Training  == [run : Runs, passed : BOOLEAN, mode : Modes]
Dataset   == [valid : BOOLEAN, mode : Modes]
Promotion == [model : Models, mode : Modes]
Readiness == [passed : BOOLEAN, strict : BOOLEAN, exec : BOOLEAN, production : BOOLEAN]
Strict    == [passed : BOOLEAN, live : BOOLEAN]
(* What every release needs, in the order the gate reads it.               *)
BaseOrder   == <<"scale", "benchmark", "dr", "connector">>
BaseReports == {"scale", "benchmark", "dr", "connector"}
Files == [base : [BaseReports -> BOOLEAN \union {NoFile}],
          spec : JobSpec \union {NoFile}, yaml : JobSpec \union {NoFile},
          dataset : Dataset \union {NoFile},
          exec : Training \union {NoFile}, training : Training \union {NoFile},
          promotion : Promotion \union {NoFile},
          readiness : Readiness \union {NoFile}, strict : Strict \union {NoFile}]

PC == {"idle", "command", "report", "load", "truncate", "write", "put",
       "announce", "read_training", "read_promotion", "read_exec",
       "gate_base", "gate_readiness", "gate_yaml", "gate_exec", "gate_strict"}
Fact == [kind : {"train", "promote", "live", "overlap"}, run : Runs \union {NoFile},
         passed : BOOLEAN, mode : Modes]
(* A job: a make target and its arguments; strict is its real, or its      *)
(* demanding, form.                                                        *)
Asked(kinds, runs, models) ==
    [kind : kinds, run : runs, model : models, mode : Modes, strict : BOOLEAN]
Job == Asked({"train"}, Runs, Models) \union Asked({"promote"}, {NoFile}, Models)
       \union Asked({"dataset", "emit", "scale", "benchmark", "drill", "evidence",
                     "strict_evidence", "readiness", "gate"}, {NoFile}, {NoFile})
LaneState == [pc : PC, row : Row \union {NoFile}, table : Table \union {NoFile}, mode : Modes,
              present : BOOLEAN, ok : BOOLEAN, strict : BOOLEAN, behind : BOOLEAN,
              left : Seq(BaseReports), todo : Seq(Job)]
Verdict == [strict : BOOLEAN, live : BOOLEAN, passed : BOOLEAN]

ASSUME GovernanceAssumption ==
    /\ NoFile \notin Row /\ NoFile # Torn
    /\ \A s \in Scripts : s.backend \in Backends /\ s.jobs \in [Lanes -> Seq(Job)]

Idle == [pc |-> "idle", row |-> NoFile, table |-> NoFile, mode |-> "production",
         present |-> TRUE, ok |-> TRUE, strict |-> FALSE, behind |-> FALSE,
         left |-> <<>>, todo |-> <<>>]

Init ==
    /\ registry = [m \in Models |-> NoFile]
    /\ dir = [base |-> [b \in BaseReports |-> NoFile], spec |-> NoFile, yaml |-> NoFile,
              dataset |-> NoFile, exec |-> NoFile, training |-> NoFile,
              promotion |-> NoFile, readiness |-> NoFile, strict |-> NoFile]
    /\ \E s \in Scripts :
         /\ backend = s.backend
         /\ lane = [l \in Lanes |-> [Idle EXCEPT !.todo = s.jobs[l]]]
    /\ verdict = NoFile
    /\ stored = {} /\ facts = {}

-----------------------------------------------------------------------------
(* The next job of lane l; a job that raises at once is over as it starts. *)
Starts(l, kind) == lane[l].pc = "idle" /\ lane[l].todo # <<>> /\ Head(lane[l].todo).kind = kind
Args(l)         == Head(lane[l].todo)
Rest(l)         == [Idle EXCEPT !.todo = Tail(lane[l].todo)]
Over(l)         == [Idle EXCEPT !.todo = lane[l].todo]

Begin(l, job) == lane' = [lane EXCEPT ![l] = job]
Goto(l, pc)   == lane' = [lane EXCEPT ![l].pc = pc]
End(l)        == lane' = [lane EXCEPT ![l] = Over(l)]
Once(l, kind) == Starts(l, kind) /\ Begin(l, Rest(l))
Save(file, value) == dir' = [dir EXCEPT ![file] = value]
Note(fact)    == facts' = facts \union {fact}
Happened(kind) == [kind |-> kind, run |-> NoFile, passed |-> TRUE, mode |-> "production"]

RegistrySame == UNCHANGED <<backend, registry, stored>>
OnlyDir      == RegistrySame /\ UNCHANGED <<verdict, facts>>

-----------------------------------------------------------------------------
(* run_dataset_prep, and its simulated form: one report, whatever the      *)
(* environment says of the data.                                           *)
DatasetPrep(l, valid) ==
    /\ Once(l, "dataset")
    /\ Save("dataset", [valid |-> valid, mode |-> Args(l).mode])
    /\ OnlyDir

(* run_training and run_training_simulated: the job's spec first.  The     *)
(* simulated job runs no command and writes no exec report.                *)
StartTraining(l) ==
    LET job == Args(l)
        simulated == ~job.strict IN
    /\ Starts(l, "train")
    /\ Begin(l, [Rest(l) EXCEPT !.pc = IF simulated THEN "report" ELSE "command",
                                !.mode = job.mode,
                                !.row = [model |-> job.model, run |-> job.run,
                                         status |-> "trained", approved |-> FALSE]])
    /\ Save("spec", [run |-> job.run, model |-> job.model])
    /\ OnlyDir

(* The training command ends, well or not, and its exec report is written. *)
TrainCommand(l, success) ==
    /\ lane[l].pc = "command"
    /\ lane' = [lane EXCEPT ![l].pc = "report",
                            ![l].row.status = IF success THEN "trained" ELSE "failed"]
    /\ Save("exec", [run |-> lane[l].row.run, passed |-> success, mode |-> lane[l].mode])
    /\ Note([kind |-> "train", run |-> lane[l].row.run, passed |-> success,
             mode |-> lane[l].mode])
    /\ RegistrySame
    /\ UNCHANGED verdict

UpsertPC == IF backend = "http" THEN "put" ELSE "load"

TrainReport(l) ==
    /\ lane[l].pc = "report"
    /\ Goto(l, UpsertPC)
    /\ Save("training", [run |-> lane[l].row.run, passed |-> lane[l].row.status = "trained",
                         mode |-> lane[l].mode])
    /\ OnlyDir

(* emit_k8s_training_job renders whatever spec the directory holds; it     *)
(* raises when there is none.                                              *)
EmitJob(l) ==
    /\ Once(l, "emit")
    /\ Save("yaml", IF dir.spec = NoFile THEN dir.yaml ELSE dir.spec)
    /\ OnlyDir

-----------------------------------------------------------------------------
(* run_promotion: the record is read, and a new one made from it.  Nothing *)
(* looks at the record's status.                                           *)
(* Mutant: the approval is forgotten.                                      *)
PromotedUnapproved(row) == [row EXCEPT !.status = "promoted"]
(* Mutant: the run is taken from the directory's spec.                     *)
PromotedFromSpec(row) ==
    [row EXCEPT !.status = "promoted", !.approved = TRUE, !.run = dir.spec.run]
Promoted(row) == [row EXCEPT !.status = "promoted", !.approved = TRUE]

Found(m) == registry # Torn /\ registry[m] # NoFile

PromoteGet(l) ==
    LET m == Args(l).model IN
    /\ Starts(l, "promote")
    /\ Begin(l, IF Found(m)
                  THEN [Rest(l) EXCEPT !.pc = UpsertPC, !.mode = Args(l).mode,
                                       !.row = Promoted(registry[m])]
                  ELSE Rest(l))
    /\ UNCHANGED <<backend, registry, dir, verdict, stored, facts>>

(* upsert_model_record: the file is loaded (a torn file raises), truncated *)
(* by open("w") and written.                                               *)
(* Mutant: only the row at hand is written.                                *)
UpsertAlone(table, row) == [m \in Models |-> IF m = row.model THEN row ELSE NoFile]
Upsert(table, row) == [table EXCEPT ![row.model] = row]

RegistryLoad(l) ==
    /\ lane[l].pc = "load"
    /\ IF registry = Torn
         THEN End(l)
         ELSE lane' = [lane EXCEPT ![l].pc = "truncate", ![l].table = registry]
    /\ IF \E k \in Lanes \ {l} : lane[k].pc \in {"truncate", "write"}
         THEN Note(Happened("overlap"))
         ELSE UNCHANGED facts
    /\ UNCHANGED <<backend, registry, dir, verdict, stored>>

RegistryTruncate(l) ==
    /\ lane[l].pc = "truncate"
    /\ registry' = Torn
    /\ Goto(l, "write")
    /\ UNCHANGED <<backend, dir, verdict, stored, facts>>

(* A promotion goes on to write its report; a training job is done.        *)
AfterUpsert(l) == IF lane[l].row.approved THEN [lane[l] EXCEPT !.pc = "announce", !.table = NoFile] ELSE Over(l)

(* Two writers that truncated one after the other write from the start of  *)
(* the same file: the second may leave the tail of the first behind it.    *)
RegistryWrite(l) ==
    /\ lane[l].pc = "write"
    /\ registry' \in {Upsert(lane[l].table, lane[l].row)} \union (IF lane[l].behind THEN {Torn} ELSE {})
    /\ stored' = stored \union {lane[l].row}
    /\ lane' = [k \in Lanes |-> CASE k = l -> AfterUpsert(l)
                                  [] k # l /\ lane[k].pc = "write" -> [lane[k] EXCEPT !.behind = TRUE]
                                  [] OTHER -> lane[k]]
    /\ UNCHANGED <<backend, dir, verdict, facts>>

(* _http_upsert_record: one PUT, which may raise before or after it is     *)
(* carried out.                                                            *)
RegistryPut(l) ==
    /\ lane[l].pc = "put"
    /\ registry' = Upsert(registry, lane[l].row)
    /\ stored' = stored \union {lane[l].row}
    /\ lane' = [lane EXCEPT ![l] = AfterUpsert(l)]
    /\ UNCHANGED <<backend, dir, verdict, facts>>

(* The mode is compared as it is spelled: "Simulated" counts as production *)
(* here, and as simulated for every other reader.                          *)
PromotionReport(l) ==
    /\ lane[l].pc = "announce"
    /\ End(l)
    /\ Save("promotion", [model |-> lane[l].row.model,
                          mode |-> IF lane[l].mode = "simulated" THEN "simulated" ELSE "production"])
    /\ Note([kind |-> "promote", run |-> lane[l].row.run, passed |-> TRUE,
             mode |-> lane[l].mode])
    /\ RegistrySame
    /\ UNCHANGED verdict

(* A job is killed, or raises, between two of its steps.                   *)
Killed(l) ==
    /\ lane[l].pc # "idle"
    /\ End(l)
    /\ UNCHANGED <<backend, registry, dir, verdict, stored, facts>>

-----------------------------------------------------------------------------
(* The evidence every release needs.  The scale report judges numbers that *)
(* its script holds; the benchmark's are given to it.                      *)
BaseReport(l, b, passed) ==
    /\ b = "scale" => passed
    /\ Once(l, b)
    /\ dir' = [dir EXCEPT !.base[b] = passed]
    /\ OnlyDir

(* evaluate_drill: seconds stand for themselves, targets included.         *)
DrillPassed(d) ==
    /\ d.rollback /\ d.readyz
    /\ d.recovery <= d.rto
    /\ d.loss <= d.rpo

FailoverDrill(l, d) ==
    /\ Once(l, "drill")
    /\ dir' = [dir EXCEPT !.base["dr"] = DrillPassed(d)]
    /\ OnlyDir

(* run_connector_evidence: what became of the check of each connector.     *)
Skips    == {"not_enabled", "missing_base_url_or_token"}
Failures == {"auth_scope_failed", "discover_contract_failed", "exception"}
Outcomes == Skips \union Failures \union {"contract_verified"}
Having(out, os) == {c \in Checks : out[c] \in os}

(* Mutant: connectors nobody configured do not count.                      *)
EvidencePassedLax(out, requireNoSkips, minPassed) == Having(out, Failures) = {}
EvidencePassed(out, requireNoSkips, minPassed) ==
    /\ Having(out, Failures) = {}
    /\ Cardinality(Having(out, {"contract_verified"})) >= minPassed
    /\ requireNoSkips => Having(out, Skips) = {}

ConnectorEvidence(l, out) ==
    /\ Once(l, "evidence")
    /\ dir' = [dir EXCEPT !.base["connector"] = EvidencePassed(out, FALSE, 0)]
    /\ OnlyDir

(* make connector-evidence-strict, and its simulated form, whose one       *)
(* connector always passes.                                                *)
StrictEvidence(l, out) ==
    /\ Once(l, "strict_evidence")
    /\ Args(l).strict
    /\ Save("strict", [passed |-> EvidencePassed(out, TRUE, 1), live |-> TRUE])
    /\ IF Having(out, {"contract_verified"}) = {}
         THEN UNCHANGED facts
         ELSE Note(Happened("live"))
    /\ RegistrySame
    /\ UNCHANGED verdict

StrictSimulated(l) ==
    /\ Once(l, "strict_evidence")
    /\ ~Args(l).strict
    /\ Save("strict", [passed |-> TRUE, live |-> FALSE])
    /\ OnlyDir

-----------------------------------------------------------------------------
(* run_finetune_readiness reads the dataset report, the training report,   *)
(* the promotion report and, when it must not accept simulated evidence,   *)
(* the exec report, one after the other; other jobs write them in between. *)
(* What validate_artifact_bundle will say of each is noted as it is read   *)
(* (framework and hardware are ones it supports).                          *)
IsSimulated(mode)  == mode \in {"simulated", "Simulated"}
Real(mode, strict) == strict => ~IsSimulated(mode)

ReadDataset(l) ==
    LET strict == Args(l).strict
        there == dir.dataset # NoFile IN
    /\ Starts(l, "readiness")
    /\ Begin(l, [Rest(l) EXCEPT !.pc = "read_training", !.strict = strict, !.present = there,
                 !.ok = there /\ dir.dataset.valid /\ Real(dir.dataset.mode, strict)])
    /\ UNCHANGED <<backend, registry, dir, verdict, stored, facts>>

ReadTraining(l) ==
    /\ lane[l].pc = "read_training"
    /\ lane' = [lane EXCEPT ![l].pc = "read_promotion",
                            ![l].present = @ /\ dir.training # NoFile,
                            ![l].ok = /\ @ /\ dir.training # NoFile /\ dir.training.passed
                                      /\ Real(dir.training.mode, lane[l].strict)]
    /\ UNCHANGED <<backend, registry, dir, verdict, stored, facts>>

ReadPromotion(l) ==
    /\ lane[l].pc = "read_promotion"
    /\ lane' = [lane EXCEPT ![l].pc = "read_exec",
                            ![l].present = @ /\ dir.promotion # NoFile,
                            ![l].ok = /\ @ /\ dir.promotion # NoFile
                                      /\ Real(dir.promotion.mode, lane[l].strict)]
    /\ UNCHANGED <<backend, registry, dir, verdict, stored, facts>>

(* An exec report that is missing, failed or simulated is a failure.       *)
(* Mutant: the command's return code is not looked at.                     *)
ExecAcceptedAny(e) == e # NoFile /\ ~IsSimulated(e.mode)
ExecAccepted(e) == e # NoFile /\ e.passed /\ ~IsSimulated(e.mode)

ReadExec(l) ==
    LET strict == lane[l].present /\ lane[l].strict
        e == dir.exec IN
    /\ lane[l].pc = "read_exec"
    /\ End(l)
    /\ Save("readiness",
            [passed |-> lane[l].ok /\ (strict => ExecAccepted(e)), strict |-> strict,
             exec |-> strict /\ e # NoFile /\ e.passed,
             production |-> strict /\ e # NoFile /\ e.mode = "production"])
    /\ OnlyDir

-----------------------------------------------------------------------------
(* release_gate reads file by file and notes every failure.  With --strict *)
(* it demands the fine-tuning reports whatever the environment says.       *)
ReadinessAccepted(d, strict, require) ==
    (strict \/ require) =>
        /\ d.readiness # NoFile /\ d.readiness.passed
        /\ strict => d.readiness.strict

StrictAccepted(d, live) ==
    /\ d.strict # NoFile /\ d.strict.passed
    /\ live => d.strict.live

StartGate(l) ==
    /\ Starts(l, "gate")
    /\ Begin(l, [Rest(l) EXCEPT !.pc = "gate_base", !.strict = Args(l).strict, !.left = BaseOrder])
    /\ UNCHANGED <<backend, registry, dir, verdict, stored, facts>>

(* The gate goes on to pc; what it just read is accepted or not.           *)
Judge(l, pc, accepted) ==
    /\ lane' = [lane EXCEPT ![l].pc = pc, ![l].ok = @ /\ accepted]
    /\ UNCHANGED <<backend, registry, dir, verdict, stored, facts>>

GateBase(l) ==
    LET later == Tail(lane[l].left) IN
    /\ lane[l].pc = "gate_base"
    /\ lane' = [lane EXCEPT ![l].pc = IF later = <<>> THEN "gate_readiness" ELSE "gate_base",
                            ![l].ok = @ /\ dir.base[Head(lane[l].left)] = TRUE,
                            ![l].left = later]
    /\ UNCHANGED <<backend, registry, dir, verdict, stored, facts>>

Rule(l, live, accepted) ==
    /\ End(l)
    /\ verdict' = [strict |-> lane[l].strict, live |-> live, passed |-> lane[l].ok /\ accepted]
    /\ UNCHANGED <<dir, facts>> /\ RegistrySame

(* Without --strict the gate ends after the readiness report.              *)
GateRelaxed(l, require) ==
    /\ lane[l].pc = "gate_readiness" /\ ~lane[l].strict
    /\ Rule(l, FALSE, ReadinessAccepted(dir, FALSE, require))

GateReadiness(l) ==
    /\ lane[l].pc = "gate_readiness" /\ lane[l].strict
    /\ Judge(l, "gate_yaml", ReadinessAccepted(dir, TRUE, TRUE))

GateYaml(l) == lane[l].pc = "gate_yaml" /\ Judge(l, "gate_exec", dir.yaml # NoFile)
GateExec(l) == lane[l].pc = "gate_exec" /\ Judge(l, "gate_strict", dir.exec # NoFile)

GateStrict(l, live) ==
    /\ lane[l].pc = "gate_strict"
    /\ Rule(l, live, StrictAccepted(dir, live))

(* enterprise_readiness_audit: what it leaves unresolved.  A readiness     *)
(* report without details is not among the files: no job writes one.  The  *)
(* audit's other items only ask that files exist.                          *)
AuditUnresolved(d) ==
    (IF d.strict = NoFile THEN {"strict_connector_evidence_missing"}
     ELSE {u \in {"strict_connector_evidence_not_passed", "strict_connector_evidence_not_live"} :
             IF u = "strict_connector_evidence_not_live" THEN ~d.strict.live ELSE ~d.strict.passed})
    \union
    (IF d.readiness = NoFile THEN {"finetune_readiness_report_missing"}
     ELSE {u \in {"finetune_readiness_not_passed", "finetune_non_simulated_check_not_enforced",
                  "finetune_training_exec_not_successful", "finetune_training_exec_not_production"} :
             CASE u = "finetune_readiness_not_passed" -> ~d.readiness.passed
               [] u = "finetune_non_simulated_check_not_enforced" -> ~d.readiness.strict
               [] u = "finetune_training_exec_not_successful" -> ~d.readiness.exec
               [] u = "finetune_training_exec_not_production" -> ~d.readiness.production})

-----------------------------------------------------------------------------
Drills == [rollback : BOOLEAN, readyz : BOOLEAN, recovery : {1, 2}, rto : {1}, loss : {1, 2}, rpo : {1}]

Train(l) ==
    \/ StartTraining(l)
    \/ \E success \in BOOLEAN : TrainCommand(l, success)
    \/ TrainReport(l)
    \/ EmitJob(l)
Register(l) == RegistryLoad(l) \/ RegistryTruncate(l) \/ RegistryWrite(l) \/ RegistryPut(l)
Promote(l) ==
    \/ PromoteGet(l)
    \/ PromotionReport(l)
Evidence(l) ==
    \/ \E valid \in BOOLEAN : DatasetPrep(l, valid)
    \/ \E b \in {"scale", "benchmark"}, passed \in BOOLEAN : BaseReport(l, b, passed)
    \/ \E d \in Drills : FailoverDrill(l, d)
    \/ \E out \in [Checks -> Outcomes] : ConnectorEvidence(l, out)
    \/ \E out \in [Checks -> Outcomes] : StrictEvidence(l, out)
    \/ StrictSimulated(l)
Verify(l) ==
    \/ ReadDataset(l)
    \/ ReadTraining(l)
    \/ ReadPromotion(l)
    \/ ReadExec(l)
    \/ StartGate(l)
    \/ GateBase(l)
    \/ \E require \in BOOLEAN : GateRelaxed(l, require)
    \/ GateReadiness(l)
    \/ GateYaml(l)
    \/ GateExec(l)
    \/ \E live \in BOOLEAN : GateStrict(l, live)

Next == \E l \in Lanes :
    \/ Train(l) \/ Register(l) \/ Promote(l) \/ Evidence(l) \/ Verify(l)
    \/ Killed(l)

Spec == Init /\ [][Next]_vars

-----------------------------------------------------------------------------
(* Types.  A row is approved exactly when it says promoted.                *)
GovernanceTypeOK ==
    /\ backend \in Backends
    /\ registry \in Table \union {Torn}
    /\ dir \in Files
    /\ lane \in [Lanes -> LaneState]
    /\ verdict \in Verdict \union {NoFile}
    /\ stored \subseteq Row /\ facts \subseteq Fact
    /\ \A row \in stored : row.approved <=> row.status = "promoted"

(* A promoted row, and the promotion report, are about a model and a run   *)
(* that a training job had registered: promotion works from a record it    *)
(* read before, while training jobs replace it (run_promotion.py).         *)
PromotedDescends ==
    /\ \A row \in stored : row.status = "promoted" =>
         \E old \in stored : old.model = row.model /\ old.run = row.run /\ old.status # "promoted"
    /\ dir.promotion # NoFile =>
         \E row \in stored : row.model = dir.promotion.model /\ row.status = "promoted"

(* A model that was registered is missing from the registry only if two    *)
(* jobs were between reading and writing its file at the same time, or if  *)
(* the file is torn; the service never loses one (model_registry.py).      *)
LostOnlyByOverlap ==
    (registry # Torn /\ \A f \in facts : f.kind # "overlap") =>
        \A row \in stored : registry[row.model] # NoFile

(* A strict gate that passed rests on things that really happened: a       *)
(* training command that succeeded and was not simulated, a promotion      *)
(* whose mode was not spelled "simulated", and, unless the deployment      *)
(* waives it, a connector that answered, although every report it rests on *)
(* may be replaced while the readiness job and the gate read them one by   *)
(* one (release_gate.py, finetune_readiness.py).                           *)
ReleaseGrounded ==
    (verdict # NoFile /\ verdict.strict /\ verdict.passed) =>
        /\ \E f \in facts : f.kind = "train" /\ f.passed /\ ~IsSimulated(f.mode)
        /\ \E f \in facts : f.kind = "promote" /\ f.mode # "simulated"
        /\ verdict.live => \E f \in facts : f.kind = "live"

(* The gate and the enterprise audit judge the same files alike: what the  *)
(* audit accepts passes, and what passes the audit accepts unless the      *)
(* command ran in a mode that is neither simulated nor production,         *)
(* whatever the readiness job read while training and promotion went on    *)
(* (release_gate.py, enterprise_readiness_audit.py).                       *)
GateAgreesWithAudit ==
    LET complete == dir.yaml # NoFile /\ dir.exec # NoFile
        passes == ReadinessAccepted(dir, TRUE, TRUE) /\ complete /\ StrictAccepted(dir, TRUE) IN
    /\ complete /\ AuditUnresolved(dir) = {} => passes
    /\ passes => AuditUnresolved(dir) \subseteq {"finetune_training_exec_not_production"}
=============================================================================
