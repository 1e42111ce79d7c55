-------------------------- MODULE GovernanceProofs --------------------------
(***************************************************************************)
(* Theorems about Governance, for every set of lanes, runs, models, checks *)
(* and base reports, whatever jobs the lanes start and in whatever order   *)
(* their steps fall.                                                       *)
(***************************************************************************)
EXTENDS Governance, FiniteSetTheorems, TLAPS

-----------------------------------------------------------------------------
(* Types.  GovernanceTypeOK says that a lane's row may be NoFile; a lane   *)
(* that is on its way to the registry has one, and the table it read.      *)
Working == {"command", "report", "load", "truncate", "write", "put", "announce"}
Local   == {"load", "truncate", "write"}

RowOK(row) == row.approved <=> row.status = "promoted"

LaneOK(l) ==
    /\ lane[l].pc \in Working => lane[l].row \in Row /\ RowOK(lane[l].row)
    /\ lane[l].pc \in {"command", "report"} => ~lane[l].row.approved
    /\ lane[l].pc = "announce" => lane[l].row.approved
    /\ lane[l].pc \in {"truncate", "write"} => lane[l].table \in Table
    /\ lane[l].pc \in Local => backend = "local_json"
    /\ lane[l].pc = "put" => backend = "http"
    /\ lane[l].pc = "gate_base" => lane[l].left # <<>>

TypeInv ==
    /\ GovernanceTypeOK
    /\ \A l \in Lanes : LaneOK(l)
    /\ registry \notin Table => backend = "local_json"

LEMMA IdleType == Idle \in LaneState
  <1>1. <<>> \in Seq(Job) /\ <<>> \in Seq(BaseReports)
    OBVIOUS
  <1>2. QED
    BY <1>1 DEF Idle, LaneState, PC, Modes

LEMMA IdleWith ==
    ASSUME NEW todo \in Seq(Job)
    PROVE  /\ [Idle EXCEPT !.todo = todo] \in LaneState
           /\ [Idle EXCEPT !.todo = todo].pc = "idle"
  <1>1. [Idle EXCEPT !.todo = todo] \in LaneState
    BY IdleType DEF LaneState
  <1>2. QED
    BY <1>1 DEF Idle

LEMMA InitIdle ==
    ASSUME Init
    PROVE  lane \in [Lanes -> LaneState] /\ \A l \in Lanes : lane[l].pc = "idle"
  <1>1. PICK s \in Scripts : lane = [l \in Lanes |-> [Idle EXCEPT !.todo = s.jobs[l]]]
    BY DEF Init
  <1>2. \A l \in Lanes : s.jobs[l] \in Seq(Job)
    BY GovernanceAssumption
  <1>3. QED
    BY <1>1, <1>2, IdleWith

LEMMA InitGovernance == Init => TypeInv
  <1> SUFFICES ASSUME Init PROVE TypeInv
    OBVIOUS
  <1>1. PICK s \in Scripts : backend = s.backend
    BY DEF Init
  <1>2. s.backend \in Backends
    BY GovernanceAssumption
  <1>3. /\ lane \in [Lanes -> LaneState] /\ \A l \in Lanes : lane[l].pc = "idle"
    BY InitIdle
  <1>4. \A l \in Lanes : LaneOK(l)
    BY <1>3 DEF LaneOK, Working, Local
  <1>5. registry \in Table
    BY DEF Init, Table
  <1>6. dir \in Files
    BY DEF Init, Files
  <1>7. GovernanceTypeOK
    BY <1>1, <1>2, <1>3, <1>5, <1>6 DEF Init, GovernanceTypeOK
  <1>8. QED
    BY <1>4, <1>5, <1>7 DEF TypeInv

(* The job a lane starts, and what is left of the list.                    *)
LEMMA Starting ==
    ASSUME lane \in [Lanes -> LaneState], NEW l \in Lanes, NEW kind, Starts(l, kind)
    PROVE  /\ Args(l) \in Job /\ Args(l).kind = kind
           /\ Rest(l) \in LaneState /\ Rest(l).pc = "idle"
  <1>1. lane[l].todo \in Seq(Job) /\ lane[l].todo # <<>>
    BY DEF Starts, LaneState
  <1>2. Head(lane[l].todo) \in Job /\ Tail(lane[l].todo) \in Seq(Job)
    BY <1>1
  <1>3. QED
    BY <1>2, IdleWith DEF Starts, Args, Rest

LEMMA Ending ==
    ASSUME lane \in [Lanes -> LaneState], NEW l \in Lanes
    PROVE  Over(l) \in LaneState /\ Over(l).pc = "idle"
  <1>1. lane[l].todo \in Seq(Job)
    BY DEF LaneState
  <1>2. QED
    BY <1>1, IdleWith DEF Over

LEMMA JobFacts ==
    ASSUME NEW j \in Job
    PROVE  /\ j.mode \in Modes /\ j.strict \in BOOLEAN
           /\ j.kind = "train" => j.run \in Runs
           /\ j.kind \in {"train", "promote"} => j.model \in Models
  BY DEF Job, Asked

LEMMA RowFacts ==
    ASSUME NEW row \in Row
    PROVE  /\ row # NoFile /\ row.model \in Models /\ row.run \in Runs
           /\ row.status \in Status /\ row.approved \in BOOLEAN
           /\ Promoted(row) \in Row /\ RowOK(Promoted(row)) /\ Promoted(row).approved
           /\ Promoted(row).model = row.model /\ Promoted(row).run = row.run
  BY GovernanceAssumption DEF Row, Status, Promoted, RowOK

-----------------------------------------------------------------------------
(* What a step of lane l makes of the lanes: its own goes on, or ends; the *)
(* others at most learn that somebody wrote the file before them.          *)
OthersKept(l) ==
    \A k \in Lanes \ {l} : lane'[k] = lane[k] \/ lane'[k] = [lane[k] EXCEPT !.behind = TRUE]

Steps(l) == Train(l) \/ Register(l) \/ Promote(l) \/ Evidence(l) \/ Verify(l) \/ Killed(l)

(* The lane after the step is a state of a lane.                           *)
LaneTo(l, to) == /\ to \in LaneState /\ lane'[l] = to
                 /\ lane' \in [Lanes -> LaneState] /\ OthersKept(l)

LEMMA LaneBegin ==
    ASSUME lane \in [Lanes -> LaneState], NEW l \in Lanes, NEW to \in LaneState, Begin(l, to)
    PROVE  LaneTo(l, to)
  BY DEF Begin, LaneTo, OthersKept

LEMMA LaneEnds ==
    ASSUME lane \in [Lanes -> LaneState], NEW l \in Lanes, End(l)
    PROVE  LaneTo(l, Over(l)) /\ LaneOK(l)'
  <1>1. Over(l) \in LaneState /\ Over(l).pc = "idle"
    BY Ending
  <1>2. LaneTo(l, Over(l))
    BY <1>1 DEF End, LaneTo, OthersKept
  <1>3. LaneOK(l)'
    BY <1>1, <1>2 DEF LaneTo, LaneOK, Working, Local
  <1>4. QED
    BY <1>2, <1>3

LEMMA LaneGoes ==
    ASSUME lane \in [Lanes -> LaneState], NEW l \in Lanes, NEW pc \in PC, Goto(l, pc)
    PROVE  LaneTo(l, [lane[l] EXCEPT !.pc = pc])
  <1>1. [lane[l] EXCEPT !.pc = pc] \in LaneState
    BY DEF LaneState
  <1>2. QED
    BY <1>1 DEF Goto, LaneTo, OthersKept

(* A job of one step: its lane is idle again behind it.                    *)
LEMMA LaneOnce ==
    ASSUME lane \in [Lanes -> LaneState], NEW l \in Lanes, NEW kind, Once(l, kind)
    PROVE  LaneTo(l, Rest(l)) /\ LaneOK(l)'
  <1>1. Rest(l) \in LaneState /\ Rest(l).pc = "idle"
    BY Starting DEF Once
  <1>2. LaneTo(l, Rest(l))
    BY <1>1, LaneBegin DEF Once
  <1>3. LaneOK(l)'
    BY <1>1, <1>2 DEF LaneTo, LaneOK, Working, Local
  <1>4. QED
    BY <1>2, <1>3

(* The steps of the lanes one after the other.                             *)
LEMMA TrainLane ==
    ASSUME TypeInv, NEW l \in Lanes, Train(l)
    PROVE  /\ \E to : LaneTo(l, to)
           /\ LaneOK(l)'
  <1>1. lane \in [Lanes -> LaneState] /\ LaneOK(l) /\ backend \in Backends
    BY DEF TypeInv, GovernanceTypeOK
  <1>2. CASE StartTraining(l)
    <2> DEFINE job == Args(l)
               row == [model |-> job.model, run |-> job.run, status |-> "trained",
                       approved |-> FALSE]
    <2>1. job \in Job /\ job.kind = "train" /\ Rest(l) \in LaneState
      BY <1>1, <1>2, Starting DEF StartTraining
    <2>2. row \in Row /\ RowOK(row) /\ ~row.approved /\ job.mode \in Modes
      BY <2>1, JobFacts DEF Row, Status, RowOK
    <2> HIDE DEF job, row
    <2>3. PICK pc \in {"report", "command"} :
             Begin(l, [Rest(l) EXCEPT !.pc = pc, !.mode = job.mode, !.row = row])
      BY <1>2 DEF StartTraining, job, row
    <2> DEFINE to == [Rest(l) EXCEPT !.pc = pc, !.mode = job.mode, !.row = row]
    <2>4. to \in LaneState /\ to.pc = pc /\ to.row = row
      BY <2>1, <2>2 DEF LaneState, PC
    <2> HIDE DEF to
    <2>5. LaneTo(l, to)
      BY <1>1, <2>3, <2>4, LaneBegin DEF to
    <2>6. LaneOK(l)'
      BY <2>2, <2>4, <2>5 DEF LaneTo, LaneOK, Working, Local
    <2>7. QED
      BY <2>5, <2>6
  <1>3. ASSUME NEW success \in BOOLEAN, TrainCommand(l, success)
        PROVE  (\E to : LaneTo(l, to)) /\ LaneOK(l)'
    <2>1. PICK status \in {"trained", "failed"} :
             lane' = [lane EXCEPT ![l].pc = "report", ![l].row.status = status]
      BY <1>3 DEF TrainCommand
    <2>2. lane[l] \in LaneState /\ lane[l].row \in Row /\ ~lane[l].row.approved
      BY <1>1, <1>3 DEF TrainCommand, LaneOK, Working
    <2>3. PICK row : row = [lane[l].row EXCEPT !.status = status]
      OBVIOUS
    <2>4. row \in Row /\ RowOK(row) /\ ~row.approved
      BY <2>2, <2>3 DEF Row, Status, RowOK
    <2>5. PICK to : to = [lane[l] EXCEPT !.pc = "report", !.row = row]
      OBVIOUS
    <2>6. to \in LaneState /\ to.pc = "report" /\ to.row = row
      BY <2>2, <2>4, <2>5 DEF LaneState, PC
    <2>7. lane' = [lane EXCEPT ![l] = to]
      BY <1>1, <2>1, <2>2, <2>3, <2>5 DEF LaneState
    <2>8. LaneTo(l, to)
      BY <1>1, <2>6, <2>7, LaneBegin DEF Begin
    <2>9. LaneOK(l)'
      BY <2>4, <2>6, <2>8 DEF LaneTo, LaneOK, Working, Local
    <2>10. QED
      BY <2>8, <2>9
  <1>4. CASE TrainReport(l)
    <2>1. UpsertPC \in {"put", "load"} /\ Goto(l, UpsertPC) /\ backend' = backend
      BY <1>4 DEF TrainReport, UpsertPC, OnlyDir, RegistrySame
    <2>2. LaneTo(l, [lane[l] EXCEPT !.pc = UpsertPC])
      BY <1>1, <2>1, LaneGoes DEF PC
    <2>3. lane'[l].pc = UpsertPC /\ lane'[l].row = lane[l].row
      BY <1>1, <2>2 DEF LaneTo, LaneState
    <2>4. lane[l].row \in Row /\ RowOK(lane[l].row)
      BY <1>1, <1>4 DEF TrainReport, LaneOK, Working
    <2>5. LaneOK(l)'
      BY <1>1, <2>1, <2>3, <2>4 DEF LaneOK, Working, Local, UpsertPC, Backends
    <2>6. QED
      BY <2>2, <2>5
  <1>5. CASE EmitJob(l)
    BY <1>1, <1>5, LaneOnce DEF EmitJob
  <1>6. QED
    BY <1>2, <1>3, <1>4, <1>5 DEF Train

LEMMA RegisterLane ==
    ASSUME TypeInv, NEW l \in Lanes, Register(l)
    PROVE  /\ \E to : LaneTo(l, to)
           /\ LaneOK(l)'
  <1>1. lane \in [Lanes -> LaneState] /\ LaneOK(l) /\ backend \in Backends /\ lane[l] \in LaneState
        /\ registry \in Table \union {Torn}
    BY DEF TypeInv, GovernanceTypeOK
  <1>2. backend' = backend
    BY DEF Register, RegistryLoad, RegistryTruncate, RegistryWrite, RegistryPut
  <1>3. CASE RegistryLoad(l) /\ registry = Torn
    BY <1>1, <1>3, LaneEnds DEF RegistryLoad
  <1>4. CASE RegistryLoad(l) /\ registry # Torn
    <2>1. PICK to : to = [lane[l] EXCEPT !.pc = "truncate", !.table = registry]
      OBVIOUS
    <2>2. to \in LaneState /\ to.pc = "truncate" /\ to.table = registry /\ to.row = lane[l].row
      BY <1>1, <1>4, <2>1 DEF LaneState, PC
    <2>3. lane' = [lane EXCEPT ![l] = to]
      BY <1>1, <1>4, <2>1 DEF RegistryLoad, LaneState
    <2>4. LaneTo(l, to)
      BY <1>1, <2>2, <2>3, LaneBegin DEF Begin
    <2>5. LaneOK(l)'
      BY <1>1, <1>2, <1>4, <2>2, <2>4 DEF RegistryLoad, LaneTo, LaneOK, Working, Local
    <2>6. QED
      BY <2>4, <2>5
  <1>5. CASE RegistryTruncate(l)
    <2>1. LaneTo(l, [lane[l] EXCEPT !.pc = "write"])
      BY <1>1, <1>5, LaneGoes DEF RegistryTruncate, PC
    <2>2. lane'[l].pc = "write" /\ lane'[l].row = lane[l].row /\ lane'[l].table = lane[l].table
      BY <1>1, <2>1 DEF LaneTo, LaneState
    <2>3. LaneOK(l)'
      BY <1>1, <1>2, <1>5, <2>2 DEF RegistryTruncate, LaneOK, Working, Local
    <2>4. QED
      BY <2>1, <2>3
  <1>6. CASE RegistryWrite(l) \/ RegistryPut(l)
    <2>1. lane[l].row \in Row /\ RowOK(lane[l].row)
      BY <1>1, <1>6 DEF RegistryWrite, RegistryPut, LaneOK, Working
    <2>2. PICK to : to = AfterUpsert(l)
      OBVIOUS
    <2>3. /\ to \in LaneState
          /\ \/ to.pc = "announce" /\ to.row = lane[l].row /\ lane[l].row.approved
             \/ to.pc = "idle"
      BY <1>1, <2>2, Ending DEF AfterUpsert, LaneState, PC
    <2>4. LaneTo(l, to)
      <3>1. CASE RegistryPut(l)
        BY <1>1, <2>2, <2>3, <3>1, LaneBegin DEF RegistryPut, Begin
      <3>2. CASE RegistryWrite(l)
        <4>1. /\ lane'[l] = to /\ DOMAIN lane' = Lanes
              /\ \A k \in Lanes \ {l} : \/ lane'[k] = lane[k]
                                        \/ lane'[k] = [lane[k] EXCEPT !.behind = TRUE]
          BY <2>2, <3>2 DEF RegistryWrite
        <4>2. \A k \in Lanes : [lane[k] EXCEPT !.behind = TRUE] \in LaneState
          BY <1>1 DEF LaneState
        <4>3. lane' = [k \in Lanes |-> lane'[k]]
          BY <3>2 DEF RegistryWrite
        <4>4. \A k \in Lanes : lane'[k] \in LaneState
          BY <1>1, <2>3, <4>1, <4>2
        <4>5. lane' \in [Lanes -> LaneState]
          BY <4>3, <4>4
        <4>6. QED
          BY <2>3, <4>1, <4>5 DEF LaneTo, OthersKept
      <3>3. QED
        BY <1>6, <3>1, <3>2
    <2>5. LaneOK(l)'
      BY <2>1, <2>3, <2>4 DEF LaneTo, LaneOK, Working, Local
    <2>6. QED
      BY <2>4, <2>5
  <1>7. QED
    BY <1>3, <1>4, <1>5, <1>6 DEF Register

LEMMA PromoteLane ==
    ASSUME TypeInv, NEW l \in Lanes, Promote(l)
    PROVE  /\ \E to : LaneTo(l, to)
           /\ LaneOK(l)'
  <1>1. lane \in [Lanes -> LaneState] /\ LaneOK(l) /\ backend \in Backends
        /\ registry \in Table \union {Torn}
    BY DEF TypeInv, GovernanceTypeOK
  <1>2. CASE PromoteGet(l)
    <2>1. PICK m : m = Args(l).model
      OBVIOUS
    <2>2. /\ Args(l) \in Job /\ m \in Models /\ Args(l).mode \in Modes
          /\ Rest(l) \in LaneState /\ Rest(l).pc = "idle"
      BY <1>1, <1>2, <2>1, Starting, JobFacts DEF PromoteGet
    <2>3. CASE Found(m)
      <3>1. PICK row : row = Promoted(registry[m])
        OBVIOUS
      <3>2. row \in Row /\ RowOK(row)
        BY <1>1, <2>2, <2>3, <3>1, RowFacts DEF Found, Table
      <3>3. PICK to : to = [Rest(l) EXCEPT !.pc = UpsertPC, !.mode = Args(l).mode, !.row = row]
        OBVIOUS
      <3>4. to \in LaneState /\ to.pc = UpsertPC /\ to.row = row
        BY <2>2, <3>2, <3>3 DEF LaneState, PC, UpsertPC
      <3>5. LaneTo(l, to) /\ backend' = backend
        BY <1>1, <1>2, <2>1, <2>3, <3>1, <3>3, <3>4, LaneBegin DEF PromoteGet
      <3>6. LaneOK(l)'
        BY <1>1, <3>2, <3>4, <3>5 DEF LaneTo, LaneOK, Working, Local, UpsertPC, Backends
      <3>7. QED
        BY <3>5, <3>6
    <2>4. CASE ~Found(m)
      <3>1. LaneTo(l, Rest(l))
        BY <1>1, <1>2, <2>1, <2>2, <2>4, LaneBegin DEF PromoteGet
      <3>2. LaneOK(l)'
        BY <2>2, <3>1 DEF LaneTo, LaneOK, Working, Local
      <3>3. QED
        BY <3>1, <3>2
    <2>5. QED
      BY <2>3, <2>4
  <1>3. CASE PromotionReport(l)
    BY <1>1, <1>3, LaneEnds DEF PromotionReport
  <1>4. QED
    BY <1>2, <1>3 DEF Promote

LEMMA VerifyLane ==
    ASSUME TypeInv, NEW l \in Lanes, Verify(l)
    PROVE  /\ \E to : LaneTo(l, to)
           /\ LaneOK(l)'
  <1>1. lane \in [Lanes -> LaneState] /\ LaneOK(l) /\ lane[l] \in LaneState
    BY DEF TypeInv, GovernanceTypeOK
  <1>2. CASE ReadDataset(l)
    <2>1. Args(l) \in Job /\ Rest(l) \in LaneState
      BY <1>1, <1>2, Starting DEF ReadDataset
    <2> DEFINE strict == Args(l).strict
               there  == dir.dataset # NoFile
               ok     == there /\ dir.dataset.valid /\ Real(dir.dataset.mode, strict)
    <2>2. /\ strict \in BOOLEAN /\ there \in BOOLEAN /\ ok \in BOOLEAN
          /\ Begin(l, [Rest(l) EXCEPT !.pc = "read_training", !.strict = strict,
                       !.present = there, !.ok = ok])
      BY <1>2, <2>1, JobFacts DEF ReadDataset
    <2> HIDE DEF strict, there, ok
    <2>3. PICK to : to = [Rest(l) EXCEPT !.pc = "read_training", !.strict = strict,
                          !.present = there, !.ok = ok]
      OBVIOUS
    <2>4. to \in LaneState /\ to.pc = "read_training"
      BY <2>1, <2>2, <2>3, JobFacts DEF LaneState, PC
    <2>5. LaneTo(l, to)
      BY <1>1, <2>2, <2>3, <2>4, LaneBegin
    <2>6. LaneOK(l)'
      BY <2>4, <2>5 DEF LaneTo, LaneOK, Working, Local
    <2>7. QED
      BY <2>5, <2>6
  <1>3. ASSUME NEW pc \in {"read_promotion", "read_exec"}, NEW present \in BOOLEAN, NEW ok \in BOOLEAN,
               lane' = [lane EXCEPT ![l].pc = pc, ![l].present = present, ![l].ok = ok]
        PROVE  (\E to : LaneTo(l, to)) /\ LaneOK(l)'
    <2>1. PICK to : to = [lane[l] EXCEPT !.pc = pc, !.present = present, !.ok = ok]
      OBVIOUS
    <2>2. to \in LaneState /\ to.pc = pc
      BY <1>1, <2>1 DEF LaneState, PC
    <2>3. lane' = [lane EXCEPT ![l] = to]
      BY <1>1, <1>3, <2>1 DEF LaneState
    <2>4. LaneTo(l, to)
      BY <1>1, <2>2, <2>3, LaneBegin DEF Begin
    <2>5. LaneOK(l)'
      BY <2>2, <2>4 DEF LaneTo, LaneOK, Working, Local
    <2>6. QED
      BY <2>4, <2>5
  <1>4. CASE ReadTraining(l)
    <2> DEFINE present == lane[l].present /\ dir.training # NoFile
               ok == /\ lane[l].ok /\ dir.training # NoFile /\ dir.training.passed
                     /\ Real(dir.training.mode, lane[l].strict)
    <2>1. /\ present \in BOOLEAN /\ ok \in BOOLEAN
          /\ lane' = [lane EXCEPT ![l].pc = "read_promotion", ![l].present = present, ![l].ok = ok]
      BY <1>1, <1>4 DEF ReadTraining
    <2> HIDE DEF present, ok
    <2>2. QED
      BY <1>3, <2>1
  <1>5. CASE ReadPromotion(l)
    <2> DEFINE present == lane[l].present /\ dir.promotion # NoFile
               ok == /\ lane[l].ok /\ dir.promotion # NoFile
                     /\ Real(dir.promotion.mode, lane[l].strict)
    <2>1. /\ present \in BOOLEAN /\ ok \in BOOLEAN
          /\ lane' = [lane EXCEPT ![l].pc = "read_exec", ![l].present = present, ![l].ok = ok]
      BY <1>1, <1>5 DEF ReadPromotion
    <2> HIDE DEF present, ok
    <2>2. QED
      BY <1>3, <2>1
  <1>6. CASE StartGate(l)
    <2>1. Args(l).strict \in BOOLEAN /\ Rest(l) \in LaneState
      BY <1>1, <1>6, Starting, JobFacts DEF StartGate
    <2>2. BaseOrder \in Seq(BaseReports) /\ BaseOrder # <<>>
      BY DEF BaseOrder, BaseReports
    <2>3. PICK to : to = [Rest(l) EXCEPT !.pc = "gate_base", !.strict = Args(l).strict,
                          !.left = BaseOrder]
      OBVIOUS
    <2>4. to \in LaneState /\ to.pc = "gate_base" /\ to.left = BaseOrder
      BY <2>1, <2>2, <2>3 DEF LaneState, PC
    <2>5. LaneTo(l, to)
      BY <1>1, <1>6, <2>3, <2>4, LaneBegin DEF StartGate
    <2>6. LaneOK(l)'
      BY <2>2, <2>4, <2>5 DEF LaneTo, LaneOK, Working, Local
    <2>7. QED
      BY <2>5, <2>6
  <1>7. CASE GateBase(l)
    <2> DEFINE later == Tail(lane[l].left)
               pc == IF later = <<>> THEN "gate_readiness" ELSE "gate_base"
               ok == lane[l].ok /\ dir.base[Head(lane[l].left)] = TRUE
    <2>1. lane[l].left \in Seq(BaseReports) /\ lane[l].left # <<>>
      BY <1>1, <1>7 DEF GateBase, LaneOK, LaneState
    <2>2. /\ later \in Seq(BaseReports) /\ pc \in PC /\ ok \in BOOLEAN
          /\ pc = "gate_base" => later # <<>>
          /\ pc \in {"gate_base", "gate_readiness"}
      BY <2>1 DEF PC
    <2>3. lane' = [lane EXCEPT ![l].pc = pc, ![l].ok = ok, ![l].left = later]
      BY <1>1, <1>7 DEF GateBase
    <2> HIDE DEF later, pc, ok
    <2>4. PICK to : to = [lane[l] EXCEPT !.pc = pc, !.ok = ok, !.left = later]
      OBVIOUS
    <2>5. to \in LaneState /\ to.pc = pc /\ to.left = later
      BY <1>1, <2>2, <2>4 DEF LaneState
    <2>6. lane' = [lane EXCEPT ![l] = to]
      BY <1>1, <2>3, <2>4 DEF LaneState
    <2>7. LaneTo(l, to)
      BY <1>1, <2>5, <2>6, LaneBegin DEF Begin
    <2>8. LaneOK(l)'
      BY <2>2, <2>5, <2>7 DEF LaneTo, LaneOK, Working, Local
    <2>9. QED
      BY <2>7, <2>8
  <1>8. CASE GateReadiness(l) \/ GateYaml(l) \/ GateExec(l)
    <2>1. PICK pc \in {"gate_yaml", "gate_exec", "gate_strict"} : \E accepted : Judge(l, pc, accepted)
      BY <1>8 DEF GateReadiness, GateYaml, GateExec
    <2>2. PICK ok \in BOOLEAN : lane' = [lane EXCEPT ![l].pc = pc, ![l].ok = ok]
      <3>1. PICK accepted : Judge(l, pc, accepted)
        BY <2>1
      <3>2. (lane[l].ok /\ accepted) \in BOOLEAN
        OBVIOUS
      <3>3. QED
        BY <1>1, <3>1, <3>2 DEF Judge
    <2>3. PICK to : to = [lane[l] EXCEPT !.pc = pc, !.ok = ok]
      OBVIOUS
    <2>4. to \in LaneState /\ to.pc = pc
      BY <1>1, <2>1, <2>2, <2>3 DEF LaneState, PC
    <2>5. lane' = [lane EXCEPT ![l] = to]
      BY <1>1, <2>2, <2>3 DEF LaneState
    <2>6. LaneTo(l, to)
      BY <1>1, <2>4, <2>5, LaneBegin DEF Begin
    <2>7. LaneOK(l)'
      BY <2>1, <2>4, <2>6 DEF LaneTo, LaneOK, Working, Local
    <2>8. QED
      BY <2>6, <2>7
  <1>9. CASE ReadExec(l) \/ \E any \in BOOLEAN : GateStrict(l, any) \/ GateRelaxed(l, any)
    BY <1>1, <1>9, LaneEnds DEF ReadExec, GateStrict, GateRelaxed, Rule
  <1>10. QED
    BY <1>2, <1>4, <1>5, <1>6, <1>7, <1>8, <1>9 DEF Verify

LEMMA LaneStep ==
    ASSUME TypeInv, NEW l \in Lanes, Steps(l)
    PROVE  /\ lane' \in [Lanes -> LaneState] /\ OthersKept(l) /\ backend' = backend
           /\ \A k \in Lanes : LaneOK(k)'
  <1>1. lane \in [Lanes -> LaneState]
    BY DEF TypeInv, GovernanceTypeOK
  <1>2. (\E to : LaneTo(l, to)) /\ LaneOK(l)'
    <2>1. CASE Evidence(l)
      BY <1>1, <2>1, LaneOnce DEF Evidence, DatasetPrep, BaseReport, FailoverDrill,
                                  ConnectorEvidence, StrictEvidence, StrictSimulated
    <2>2. CASE Killed(l)
      BY <1>1, <2>2, LaneEnds DEF Killed
    <2>3. QED
      BY <2>1, <2>2, TrainLane, RegisterLane, PromoteLane, VerifyLane DEF Steps
  <1>3. backend' = backend
    BY DEF Steps, Train, StartTraining, TrainCommand, TrainReport, EmitJob, Register, RegistryLoad,
           RegistryTruncate, RegistryWrite, RegistryPut, Promote, PromoteGet, PromotionReport,
           Evidence, DatasetPrep, BaseReport, FailoverDrill, ConnectorEvidence, StrictEvidence,
           StrictSimulated, Verify, ReadDataset, ReadTraining, ReadPromotion, ReadExec, GateRelaxed,
           StartGate, GateBase, GateReadiness,
           GateYaml, GateExec, GateStrict, Judge, Rule, Killed, OnlyDir, RegistrySame
  <1>4. lane' \in [Lanes -> LaneState] /\ OthersKept(l)
    BY <1>2 DEF LaneTo
  <1>5. ASSUME NEW k \in Lanes, k # l PROVE LaneOK(k)'
    <2>1. /\ lane'[k].pc = lane[k].pc /\ lane'[k].row = lane[k].row
          /\ lane'[k].table = lane[k].table /\ lane'[k].left = lane[k].left
      BY <1>1, <1>4, <1>5 DEF OthersKept, LaneState
    <2>2. LaneOK(k)
      BY DEF TypeInv
    <2>3. QED
      BY <1>3, <2>1, <2>2 DEF LaneOK
  <1>6. QED
    BY <1>2, <1>3, <1>4, <1>5

-----------------------------------------------------------------------------
(* The reports of the directory: one file is replaced, the others stay.    *)
LEMMA SaveType ==
    ASSUME dir \in Files, NEW v
    PROVE  /\ Save("spec", v) /\ v \in JobSpec \union {NoFile} => dir' \in Files
           /\ Save("yaml", v) /\ v \in JobSpec \union {NoFile} => dir' \in Files
           /\ Save("dataset", v) /\ v \in Dataset => dir' \in Files
           /\ Save("exec", v) /\ v \in Training => dir' \in Files
           /\ Save("training", v) /\ v \in Training => dir' \in Files
           /\ Save("promotion", v) /\ v \in Promotion => dir' \in Files
           /\ Save("readiness", v) /\ v \in Readiness => dir' \in Files
           /\ Save("strict", v) /\ v \in Strict => dir' \in Files
  <1>1. Save("spec", v) /\ v \in JobSpec \union {NoFile} => dir' \in Files
    BY DEF Save, Files
  <1>2. Save("yaml", v) /\ v \in JobSpec \union {NoFile} => dir' \in Files
    BY DEF Save, Files
  <1>3. Save("dataset", v) /\ v \in Dataset => dir' \in Files
    BY DEF Save, Files
  <1>4. Save("exec", v) /\ v \in Training => dir' \in Files
    BY DEF Save, Files
  <1>5. Save("training", v) /\ v \in Training => dir' \in Files
    BY DEF Save, Files
  <1>6. Save("promotion", v) /\ v \in Promotion => dir' \in Files
    BY DEF Save, Files
  <1>7. Save("readiness", v) /\ v \in Readiness => dir' \in Files
    BY DEF Save, Files
  <1>8. Save("strict", v) /\ v \in Strict => dir' \in Files
    BY DEF Save, Files
  <1>9. QED
    BY <1>1, <1>2, <1>3, <1>4, <1>5, <1>6, <1>7, <1>8

LEMMA SaveKeeps ==
    ASSUME dir \in Files, NEW v
    PROVE  /\ Save("spec", v) => dir'.spec = v /\ UNCHANGED <<dir.exec, dir.promotion, dir.readiness, dir.strict>>
           /\ Save("exec", v) => dir'.exec = v /\ UNCHANGED <<dir.promotion, dir.readiness, dir.strict>>
           /\ Save("promotion", v) => dir'.promotion = v /\ UNCHANGED <<dir.exec, dir.readiness, dir.strict>>
           /\ Save("readiness", v) => dir'.readiness = v /\ UNCHANGED <<dir.exec, dir.promotion, dir.strict>>
           /\ Save("strict", v) => dir'.strict = v /\ UNCHANGED <<dir.exec, dir.promotion, dir.readiness>>
  BY DEF Save, Files

(* Every file after a step is one that its writer renders.                 *)
LEMMA DirType ==
    ASSUME TypeInv, NEW l \in Lanes, Steps(l) PROVE dir' \in Files
  <1>1. lane \in [Lanes -> LaneState] /\ LaneOK(l) /\ dir \in Files /\ lane[l] \in LaneState
    BY DEF TypeInv, GovernanceTypeOK
  <1>2. CASE StartTraining(l)
    <2>1. Args(l) \in Job /\ Args(l).kind = "train"
      BY <1>1, <1>2, Starting DEF StartTraining
    <2>2. [run |-> Args(l).run, model |-> Args(l).model] \in JobSpec
      BY <2>1, JobFacts DEF JobSpec
    <2>3. QED
      BY <1>1, <1>2, <2>2, SaveType DEF StartTraining
  <1>3. ASSUME NEW success \in BOOLEAN, TrainCommand(l, success) PROVE dir' \in Files
    <2>1. lane[l].row \in Row /\ lane[l].mode \in Modes
      BY <1>1, <1>3 DEF TrainCommand, LaneOK, Working, LaneState
    <2>2. [run |-> lane[l].row.run, passed |-> success, mode |-> lane[l].mode] \in Training
      BY <2>1, RowFacts DEF Training
    <2>3. QED
      BY <1>1, <1>3, <2>2, SaveType DEF TrainCommand
  <1>4. CASE TrainReport(l)
    <2>1. lane[l].row \in Row /\ lane[l].mode \in Modes
      BY <1>1, <1>4 DEF TrainReport, LaneOK, Working, LaneState
    <2>2. [run |-> lane[l].row.run, passed |-> lane[l].row.status = "trained",
           mode |-> lane[l].mode] \in Training
      BY <2>1, RowFacts DEF Training
    <2>3. QED
      BY <1>1, <1>4, <2>2, SaveType DEF TrainReport
  <1>5. CASE EmitJob(l)
    <2>1. (IF dir.spec = NoFile THEN dir.yaml ELSE dir.spec) \in JobSpec \union {NoFile}
      BY <1>1 DEF Files
    <2>2. QED
      BY <1>1, <1>5, <2>1, SaveType DEF EmitJob
  <1>6. CASE PromotionReport(l)
    <2>1. PICK mode \in Modes :
             Save("promotion", [model |-> lane[l].row.model, mode |-> mode])
      BY <1>6 DEF PromotionReport, Modes
    <2>2. lane[l].row \in Row
      BY <1>1, <1>6 DEF PromotionReport, LaneOK, Working
    <2>3. [model |-> lane[l].row.model, mode |-> mode] \in Promotion
      BY <2>2, RowFacts DEF Promotion
    <2>4. QED
      BY <1>1, <2>1, <2>3, SaveType
  <1>7. ASSUME NEW valid \in BOOLEAN, DatasetPrep(l, valid) PROVE dir' \in Files
    <2>1. Args(l).mode \in Modes
      BY <1>1, <1>7, Starting, JobFacts DEF DatasetPrep, Once
    <2>2. [valid |-> valid, mode |-> Args(l).mode] \in Dataset
      BY <2>1 DEF Dataset
    <2>3. QED
      BY <1>1, <1>7, <2>2, SaveType DEF DatasetPrep
  <1>8. ASSUME NEW b, NEW passed \in BOOLEAN, dir' = [dir EXCEPT !.base[b] = passed]
        PROVE  dir' \in Files
    <2>1. [dir.base EXCEPT ![b] = passed] \in [BaseReports -> BOOLEAN \union {NoFile}]
      BY <1>1 DEF Files
    <2>2. QED
      BY <1>1, <1>8, <2>1 DEF Files
  <1>9. \A d : DrillPassed(d) \in BOOLEAN
    BY DEF DrillPassed
  <1>10. \A out, skips, n : EvidencePassed(out, skips, n) \in BOOLEAN
    BY DEF EvidencePassed
  <1>11. CASE Evidence(l)
    <2>1. ASSUME NEW out \in [Checks -> Outcomes], StrictEvidence(l, out) PROVE dir' \in Files
      <3>1. [passed |-> EvidencePassed(out, TRUE, 1), live |-> TRUE] \in Strict
        BY <1>10 DEF Strict
      <3>2. QED
        BY <1>1, <2>1, <3>1, SaveType DEF StrictEvidence
    <2>2. CASE StrictSimulated(l)
      <3>1. [passed |-> TRUE, live |-> FALSE] \in Strict
        BY DEF Strict
      <3>2. QED
        BY <1>1, <2>2, <3>1, SaveType DEF StrictSimulated
    <2>3. ASSUME NEW d, FailoverDrill(l, d) PROVE dir' \in Files
      BY <1>8, <1>9, <2>3 DEF FailoverDrill
    <2>4. ASSUME NEW out, ConnectorEvidence(l, out) PROVE dir' \in Files
      BY <1>8, <1>10, <2>4 DEF ConnectorEvidence
    <2>5. ASSUME NEW b, NEW passed \in BOOLEAN, BaseReport(l, b, passed) PROVE dir' \in Files
      BY <1>8, <2>5 DEF BaseReport
    <2>6. QED
      BY <1>7, <1>11, <2>1, <2>2, <2>3, <2>4, <2>5 DEF Evidence
  <1>12. CASE ReadExec(l)
    <2> DEFINE strict == lane[l].present /\ lane[l].strict
               e == dir.exec
               report == [passed |-> lane[l].ok /\ (strict => ExecAccepted(e)), strict |-> strict,
                          exec |-> strict /\ e # NoFile /\ e.passed,
                          production |-> strict /\ e # NoFile /\ e.mode = "production"]
    <2>1. /\ (lane[l].ok /\ (strict => ExecAccepted(e))) \in BOOLEAN /\ strict \in BOOLEAN
          /\ (strict /\ e # NoFile /\ e.passed) \in BOOLEAN
          /\ (strict /\ e # NoFile /\ e.mode = "production") \in BOOLEAN
      OBVIOUS
    <2>2. report \in Readiness
      BY <2>1, Zenon DEF Readiness
    <2>3. Save("readiness", report)
      BY <1>12 DEF ReadExec
    <2> HIDE DEF report
    <2>4. QED
      BY <1>1, <2>2, <2>3, SaveType
  <1>13. CASE dir' = dir
    BY <1>1, <1>13
  <1>14. QED
    <2>1. CASE Train(l) \/ Promote(l)
      BY <1>2, <1>3, <1>4, <1>5, <1>6, <1>13, <2>1 DEF Train, Promote, PromoteGet
    <2>2. CASE Register(l) \/ Killed(l)
      BY <1>13, <2>2 DEF Register, RegistryLoad, RegistryTruncate, RegistryWrite, RegistryPut, Killed
    <2>3. CASE Verify(l)
      BY <1>12, <1>13, <2>3 DEF Verify, ReadDataset, ReadTraining, ReadPromotion, GateRelaxed,
         StartGate, GateBase, GateReadiness, GateYaml, GateExec, GateStrict, Judge, Rule
    <2>4. QED
      BY <1>11, <2>1, <2>2, <2>3 DEF Steps

(* What is written to the registry is a row of the lane's job, into the    *)
(* table it read.                                                          *)
LEMMA RegistryType ==
    ASSUME TypeInv, NEW l \in Lanes, Steps(l)
    PROVE  /\ registry' \in Table \union {Torn}
           /\ registry' \notin Table => backend = "local_json"
           /\ stored' \subseteq Row /\ \A row \in stored' : RowOK(row)
  <1>1. /\ lane \in [Lanes -> LaneState] /\ LaneOK(l) /\ lane[l] \in LaneState
        /\ registry \in Table \union {Torn} /\ stored \subseteq Row
        /\ \A row \in stored : RowOK(row)
        /\ registry \notin Table => backend = "local_json"
        /\ backend \in Backends
    BY DEF TypeInv, GovernanceTypeOK, RowOK
  <1>2. \A table \in Table, row \in Row : Upsert(table, row) \in Table
    BY RowFacts DEF Upsert, Table
  <1>3. CASE RegistryTruncate(l)
    BY <1>1, <1>3 DEF RegistryTruncate, LaneOK, Local
  <1>4. CASE RegistryWrite(l)
    <2>1. /\ lane[l].table \in Table /\ lane[l].row \in Row /\ RowOK(lane[l].row)
          /\ backend = "local_json"
      BY <1>1, <1>4 DEF RegistryWrite, LaneOK, Working, Local
    <2>2. registry' = Upsert(lane[l].table, lane[l].row) \/ registry' = Torn
      BY <1>4 DEF RegistryWrite
    <2>3. stored' = stored \union {lane[l].row}
      BY <1>4 DEF RegistryWrite
    <2>4. QED
      BY <1>1, <1>2, <2>1, <2>2, <2>3
  <1>5. CASE RegistryPut(l)
    <2>1. lane[l].row \in Row /\ RowOK(lane[l].row) /\ backend = "http" /\ registry \in Table
      BY <1>1, <1>5 DEF RegistryPut, LaneOK, Working
    <2>2. /\ registry' = Upsert(registry, lane[l].row)
          /\ stored' = stored \union {lane[l].row}
      BY <1>5 DEF RegistryPut
    <2>3. QED
      BY <1>1, <1>2, <2>1, <2>2
  <1>6. CASE registry' = registry /\ stored' = stored
    BY <1>1, <1>6
  <1>7. QED
    BY <1>3, <1>4, <1>5, <1>6 DEF Steps, Train, StartTraining, TrainCommand, TrainReport, EmitJob,
           Register, RegistryLoad, Promote, PromoteGet, PromotionReport, Evidence, DatasetPrep,
           BaseReport, FailoverDrill, ConnectorEvidence, StrictEvidence, StrictSimulated, Verify,
           ReadDataset, ReadTraining, ReadPromotion, ReadExec, GateRelaxed, StartGate, GateBase, GateReadiness,
           GateYaml, GateExec, GateStrict, Judge, Rule, Killed,
           OnlyDir, RegistrySame

(* The history only grows, by facts of the four kinds.                     *)
LEMMA FactType ==
    ASSUME TypeInv, NEW l \in Lanes, Steps(l)
    PROVE  facts' \subseteq Fact /\ facts \subseteq facts'
  <1>1. /\ lane \in [Lanes -> LaneState] /\ LaneOK(l) /\ facts \subseteq Fact
    BY DEF TypeInv, GovernanceTypeOK
  <1>2. ASSUME NEW fact \in Fact, Note(fact) PROVE facts' \subseteq Fact /\ facts \subseteq facts'
    BY <1>1, <1>2 DEF Note
  <1>3. CASE facts' = facts
    BY <1>1, <1>3
  <1>4. CASE StartTraining(l)
    BY <1>3, <1>4 DEF StartTraining, OnlyDir
  <1>5. ASSUME NEW success \in BOOLEAN, TrainCommand(l, success)
        PROVE  facts' \subseteq Fact /\ facts \subseteq facts'
    <2>1. lane[l].row \in Row /\ lane[l].mode \in Modes
      BY <1>1, <1>5 DEF TrainCommand, LaneOK, Working, LaneState
    <2>2. [kind |-> "train", run |-> lane[l].row.run, passed |-> success,
           mode |-> lane[l].mode] \in Fact
      BY <2>1, RowFacts DEF Fact
    <2>3. QED
      BY <1>2, <1>5, <2>2 DEF TrainCommand
  <1>6. CASE PromotionReport(l)
    <2>1. lane[l].row \in Row /\ lane[l].mode \in Modes
      BY <1>1, <1>6 DEF PromotionReport, LaneOK, Working, LaneState
    <2>2. [kind |-> "promote", run |-> lane[l].row.run, passed |-> TRUE,
           mode |-> lane[l].mode] \in Fact
      BY <2>1, RowFacts DEF Fact
    <2>3. QED
      BY <1>2, <1>6, <2>2 DEF PromotionReport
  <1>7. Happened("overlap") \in Fact /\ Happened("live") \in Fact
    BY DEF Happened, Fact, Modes
  <1>8. CASE RegistryLoad(l)
    BY <1>2, <1>3, <1>7, <1>8 DEF RegistryLoad
  <1>9. ASSUME NEW out \in [Checks -> Outcomes], StrictEvidence(l, out)
        PROVE  facts' \subseteq Fact /\ facts \subseteq facts'
    BY <1>2, <1>3, <1>7, <1>9 DEF StrictEvidence
  <1>10. QED
    BY <1>3, <1>4, <1>5, <1>6, <1>8, <1>9 DEF Steps, Train, TrainReport, EmitJob, Register,
           RegistryTruncate, RegistryWrite, RegistryPut, Promote, PromoteGet, Evidence,
           DatasetPrep, BaseReport, FailoverDrill, ConnectorEvidence, StrictSimulated, Verify,
           ReadDataset, ReadTraining, ReadPromotion, ReadExec, GateRelaxed, StartGate, GateBase, GateReadiness,
           GateYaml, GateExec, GateStrict, Judge, Rule, Killed,
           OnlyDir

LEMMA VerdictType ==
    ASSUME TypeInv, NEW l \in Lanes, Steps(l) PROVE verdict' \in Verdict \union {NoFile}
  <1>1. verdict \in Verdict \union {NoFile}
    BY DEF TypeInv, GovernanceTypeOK
  <1>2. ASSUME NEW live \in BOOLEAN, NEW accepted, Rule(l, live, accepted)
        PROVE  verdict' \in Verdict
    <2>1. lane[l].strict \in BOOLEAN
      BY DEF TypeInv, GovernanceTypeOK, LaneState
    <2>2. (lane[l].ok /\ accepted) \in BOOLEAN
      OBVIOUS
    <2>3. QED
      BY <1>2, <2>1, <2>2 DEF Rule, Verdict
  <1>3. (\E any \in BOOLEAN : GateRelaxed(l, any) \/ GateStrict(l, any)) => verdict' \in Verdict
    BY <1>2 DEF GateRelaxed, GateStrict
  <1>4. QED
    BY <1>1, <1>2, <1>3 DEF Steps, Train, StartTraining, TrainCommand, TrainReport, EmitJob,
           Register, RegistryLoad, RegistryTruncate, RegistryWrite, RegistryPut, Promote,
           PromoteGet, PromotionReport, Evidence, DatasetPrep, BaseReport, FailoverDrill,
           ConnectorEvidence, StrictEvidence, StrictSimulated, Verify, ReadDataset,
           ReadTraining, ReadPromotion, ReadExec, StartGate, GateBase, GateReadiness, GateYaml,
           GateExec, Judge, Killed, OnlyDir

LEMMA StepTypes == TypeInv /\ [Next]_vars => TypeInv'
  <1> SUFFICES ASSUME TypeInv, [Next]_vars PROVE TypeInv'
    OBVIOUS
  <1>1. CASE UNCHANGED vars
    BY <1>1 DEF vars, TypeInv, GovernanceTypeOK, LaneOK
  <1>2. ASSUME NEW l \in Lanes, Steps(l) PROVE TypeInv'
    <2>1. backend \in Backends
      BY DEF TypeInv, GovernanceTypeOK
    <2>2. QED
      BY <1>2, <2>1, LaneStep, DirType, RegistryType, FactType, VerdictType
         DEF TypeInv, GovernanceTypeOK, RowOK
  <1>3. QED
    BY <1>1, <1>2 DEF Next, Steps

(* Whatever jobs the lanes run beside each other, killed between any two   *)
(* of their steps: every report and every row has the fields its readers   *)
(* expect, and a row is approved exactly when it says promoted.            *)
THEOREM GovernanceTypeCorrect == Spec => []GovernanceTypeOK
  <1>1. Spec => []TypeInv
    BY InitGovernance, StepTypes, PTL DEF Spec
  <1>2. TypeInv => GovernanceTypeOK
    BY DEF TypeInv
  <1>3. QED
    BY <1>1, <1>2, PTL

-----------------------------------------------------------------------------
(* Where the steps lead: each program counter has its own steps before it. *)
LEMMA OthersFields ==
    ASSUME TypeInv, NEW l \in Lanes, OthersKept(l), NEW k \in Lanes, k # l
    PROVE  /\ lane'[k].pc = lane[k].pc /\ lane'[k].row = lane[k].row
           /\ lane'[k].table = lane[k].table /\ lane'[k].mode = lane[k].mode
           /\ lane'[k].present = lane[k].present /\ lane'[k].ok = lane[k].ok
           /\ lane'[k].strict = lane[k].strict
  <1>1. lane[k] \in LaneState
    BY DEF TypeInv, GovernanceTypeOK
  <1>2. QED
    BY <1>1 DEF OthersKept, LaneState

LEMMA Finished ==
    ASSUME TypeInv, NEW l \in Lanes,
           \/ Evidence(l) \/ Killed(l) \/ EmitJob(l) \/ PromotionReport(l) \/ ReadExec(l)
           \/ \E require \in BOOLEAN : GateRelaxed(l, require)
           \/ \E live \in BOOLEAN : GateStrict(l, live)
    PROVE  lane'[l].pc = "idle"
  <1>1. lane \in [Lanes -> LaneState]
    BY DEF TypeInv, GovernanceTypeOK
  <1>2. End(l) => lane'[l].pc = "idle"
    BY <1>1, Ending, LaneEnds DEF LaneTo
  <1>3. ASSUME NEW kind, Once(l, kind) PROVE lane'[l].pc = "idle"
    BY <1>1, <1>3, Starting, LaneOnce DEF LaneTo, Once
  <1>4. QED
    BY <1>2, <1>3 DEF Evidence, DatasetPrep, BaseReport, FailoverDrill, ConnectorEvidence,
       StrictEvidence, StrictSimulated, Killed, EmitJob, PromotionReport, ReadExec, GateRelaxed,
       GateStrict, Rule

LEMMA Reaches ==
    ASSUME TypeInv, NEW l \in Lanes, Steps(l)
    PROVE  /\ lane'[l].pc \in {"load", "put"} => TrainReport(l) \/ PromoteGet(l)
           /\ lane'[l].pc = "truncate" => RegistryLoad(l) /\ registry # Torn
           /\ lane'[l].pc = "write" => RegistryTruncate(l)
           /\ lane'[l].pc = "announce" => RegistryWrite(l) \/ RegistryPut(l)
           /\ lane'[l].pc = "read_exec" => ReadPromotion(l)
           /\ lane'[l].pc = "gate_yaml" => GateReadiness(l)
           /\ lane'[l].pc = "gate_exec" => GateYaml(l)
           /\ lane'[l].pc = "gate_strict" => GateExec(l)
  <1>1. lane \in [Lanes -> LaneState] /\ lane[l] \in LaneState
    BY DEF TypeInv, GovernanceTypeOK
  <1>2. CASE lane'[l].pc = "idle"
    BY <1>2
  <1>3. CASE StartTraining(l)
    <2>1. Rest(l) \in LaneState
      BY <1>1, <1>3, Starting DEF StartTraining
    <2>2. lane'[l].pc \in {"report", "command"}
      BY <1>1, <1>3, <2>1 DEF StartTraining, Begin, LaneState
    <2>3. QED
      BY <2>2
  <1>4. CASE \E success \in BOOLEAN : TrainCommand(l, success)
    <2>1. lane'[l].pc = "report"
      BY <1>1, <1>4 DEF TrainCommand, LaneState
    <2>2. QED
      BY <2>1
  <1>5. CASE TrainReport(l)
    <2>1. lane'[l].pc \in {"put", "load"}
      BY <1>1, <1>5 DEF TrainReport, Goto, UpsertPC, LaneState
    <2>2. QED
      BY <1>5, <2>1
  <1>6. CASE PromoteGet(l)
    <2>1. Rest(l) \in LaneState /\ Rest(l).pc = "idle"
      BY <1>1, <1>6, Starting DEF PromoteGet
    <2>2. lane'[l].pc \in {"put", "load", "idle"}
      BY <1>1, <1>6, <2>1 DEF PromoteGet, Begin, UpsertPC, LaneState
    <2>3. QED
      BY <1>6, <2>2
  <1>7. CASE RegistryLoad(l)
    <2>1. CASE registry = Torn
      <3>1. lane'[l].pc = "idle"
        BY <1>1, <1>7, <2>1, Ending, LaneEnds DEF LaneTo, RegistryLoad
      <3>2. QED
        BY <3>1
    <2>2. CASE registry # Torn
      <3>1. lane'[l].pc = "truncate"
        BY <1>1, <1>7, <2>2 DEF RegistryLoad, LaneState
      <3>2. QED
        BY <1>7, <2>2, <3>1
    <2>3. QED
      BY <2>1, <2>2
  <1>8. CASE RegistryTruncate(l)
    <2>1. lane'[l].pc = "write"
      BY <1>1, <1>8 DEF RegistryTruncate, Goto, LaneState
    <2>2. QED
      BY <1>8, <2>1
  <1>9. CASE RegistryWrite(l) \/ RegistryPut(l)
    <2>1. AfterUpsert(l).pc \in {"announce", "idle"}
      BY <1>1, Ending DEF AfterUpsert, LaneState
    <2>2. lane'[l] = AfterUpsert(l)
      BY <1>1, <1>9 DEF RegistryWrite, RegistryPut
    <2>3. QED
      BY <1>9, <2>1, <2>2
  <1>10. CASE ReadDataset(l) \/ StartGate(l)
    <2>1. Rest(l) \in LaneState
      BY <1>1, <1>10, Starting DEF ReadDataset, StartGate
    <2>2. lane'[l].pc \in {"read_training", "gate_base"}
      BY <1>1, <1>10, <2>1 DEF ReadDataset, StartGate, Begin, LaneState
    <2>3. QED
      BY <2>2
  <1>11. CASE ReadTraining(l) \/ GateBase(l)
    <2>1. ReadTraining(l) => lane'[l].pc = "read_promotion"
      BY <1>1 DEF ReadTraining, LaneState
    <2>2. GateBase(l) => lane'[l].pc \in {"gate_base", "gate_readiness"}
      <3>1. SUFFICES ASSUME GateBase(l) PROVE lane'[l].pc \in {"gate_base", "gate_readiness"}
        OBVIOUS
      <3>2. PICK pc \in {"gate_base", "gate_readiness"} :
               \E ok, left : lane' = [lane EXCEPT ![l].pc = pc, ![l].ok = ok, ![l].left = left]
        <4> DEFINE pc == IF Tail(lane[l].left) = <<>> THEN "gate_readiness" ELSE "gate_base"
                   ok == lane[l].ok /\ dir.base[Head(lane[l].left)] = TRUE
                   left == Tail(lane[l].left)
        <4>1. lane' = [lane EXCEPT ![l].pc = pc, ![l].ok = ok, ![l].left = left]
          BY <1>1, <3>1 DEF GateBase
        <4>2. pc \in {"gate_base", "gate_readiness"}
          OBVIOUS
        <4> HIDE DEF pc, ok, left
        <4>3. QED
          BY <4>1, <4>2
      <3>3. QED
        BY <1>1, <3>2 DEF LaneState
    <2>3. QED
      BY <1>11, <2>1, <2>2
  <1>12. CASE ReadPromotion(l)
    <2>1. lane'[l].pc = "read_exec"
      BY <1>1, <1>12 DEF ReadPromotion, LaneState
    <2>2. QED
      BY <1>12, <2>1
  <1>13. CASE GateReadiness(l)
    <2>1. lane'[l].pc = "gate_yaml"
      BY <1>1, <1>13 DEF GateReadiness, Judge, LaneState
    <2>2. QED
      BY <1>13, <2>1
  <1>14. CASE GateYaml(l)
    <2>1. lane'[l].pc = "gate_exec"
      BY <1>1, <1>14 DEF GateYaml, Judge, LaneState
    <2>2. QED
      BY <1>14, <2>1
  <1>15. CASE GateExec(l)
    <2>1. lane'[l].pc = "gate_strict"
      BY <1>1, <1>15 DEF GateExec, Judge, LaneState
    <2>2. QED
      BY <1>15, <2>1
  <1>16. QED
    BY <1>2, <1>3, <1>4, <1>5, <1>6, <1>7, <1>8, <1>9, <1>10, <1>11, <1>12, <1>13, <1>14, <1>15,
       Finished
       DEF Steps, Train, Register, Promote, Verify

(* The registry and its history change in three steps only.                *)
LEMMA RegistryMoves ==
    ASSUME NEW l, Steps(l)
    PROVE  /\ \/ UNCHANGED <<registry, stored>>
              \/ RegistryTruncate(l) \/ RegistryWrite(l) \/ RegistryPut(l)
           /\ stored \subseteq stored'
  BY DEF Steps, Train, StartTraining, TrainCommand, TrainReport, EmitJob, Register, RegistryLoad,
         RegistryTruncate, RegistryWrite, RegistryPut, Promote, PromoteGet, PromotionReport,
         Evidence, DatasetPrep, BaseReport, FailoverDrill, ConnectorEvidence, StrictEvidence,
         StrictSimulated, Verify, ReadDataset, ReadTraining, ReadPromotion, ReadExec, GateRelaxed,
         StartGate, GateBase, GateReadiness,
           GateYaml, GateExec, GateStrict, Judge, Rule, Killed, OnlyDir, RegistrySame

(* A report changes in the steps of its own job only.                      *)
LEMMA ReportMoves ==
    ASSUME TypeInv, NEW l \in Lanes, Steps(l)
    PROVE  /\ dir'.exec = dir.exec \/ \E success \in BOOLEAN : TrainCommand(l, success)
           /\ dir'.promotion = dir.promotion \/ PromotionReport(l)
           /\ dir'.readiness = dir.readiness \/ ReadExec(l)
           /\ \/ dir'.strict = dir.strict \/ StrictSimulated(l)
              \/ \E out \in [Checks -> Outcomes] : StrictEvidence(l, out)
  <1>1. dir \in Files
    BY DEF TypeInv, GovernanceTypeOK
  <1>2. CASE dir' = dir
    BY <1>2
  <1>3. CASE StartTraining(l) \/ EmitJob(l) \/ \E valid \in BOOLEAN : DatasetPrep(l, valid)
    <2>1. PICK f \in {"spec", "yaml", "dataset"} : \E v : Save(f, v)
      BY <1>3 DEF StartTraining, EmitJob, DatasetPrep
    <2>2. QED
      BY <1>1, <2>1 DEF Save, Files
  <1>4. CASE TrainReport(l)
    BY <1>1, <1>4 DEF TrainReport, Save, Files
  <1>5. CASE \E success \in BOOLEAN : TrainCommand(l, success)
    BY <1>1, <1>5, SaveKeeps DEF TrainCommand
  <1>6. CASE PromotionReport(l)
    BY <1>1, <1>6, SaveKeeps DEF PromotionReport
  <1>7. CASE ReadExec(l)
    BY <1>1, <1>7, SaveKeeps DEF ReadExec
  <1>8. CASE StrictSimulated(l) \/ \E out \in [Checks -> Outcomes] : StrictEvidence(l, out)
    BY <1>1, <1>8, SaveKeeps DEF StrictSimulated, StrictEvidence
  <1>9. ASSUME NEW b, NEW v, dir' = [dir EXCEPT !.base[b] = v]
        PROVE  UNCHANGED <<dir.exec, dir.promotion, dir.readiness, dir.strict>>
    BY <1>1, <1>9 DEF Files
  <1>10. QED
    <2>1. CASE Train(l) \/ Register(l) \/ Promote(l) \/ Killed(l)
      BY <1>2, <1>3, <1>4, <1>5, <1>6, <2>1 DEF Train, Register, RegistryLoad, RegistryTruncate,
         RegistryWrite, RegistryPut, Promote, PromoteGet, Killed
    <2>2. CASE Evidence(l)
      BY <1>3, <1>8, <1>9, <2>2 DEF Evidence, BaseReport, FailoverDrill, ConnectorEvidence
    <2>3. CASE Verify(l)
      BY <1>2, <1>7, <2>3 DEF Verify, ReadDataset, ReadTraining, ReadPromotion, GateRelaxed,
         StartGate, GateBase, GateReadiness, GateYaml, GateExec, GateStrict, Judge, Rule
    <2>4. QED
      BY <2>1, <2>2, <2>3 DEF Steps

-----------------------------------------------------------------------------
(* A readiness report that passed, demanding, saw the command succeed: it  *)
(* is the report's own content, whatever the directory holds by now.       *)
ReadinessSawExec ==
    (dir.readiness # NoFile /\ dir.readiness.passed /\ dir.readiness.strict) => dir.readiness.exec

(* What ReadExec writes.                                                   *)
LEMMA ReadinessWritten ==
    ASSUME TypeInv, NEW l \in Lanes, ReadExec(l)
    PROVE  /\ dir'.readiness.passed /\ dir'.readiness.strict =>
                lane[l].ok /\ lane[l].present /\ lane[l].strict /\ ExecAccepted(dir.exec)
           /\ dir'.readiness.passed /\ dir'.readiness.strict => dir'.readiness.exec
           /\ lane[l].pc = "read_exec"
  <1> DEFINE strict == lane[l].present /\ lane[l].strict
             e == dir.exec
             passed == lane[l].ok /\ (strict => ExecAccepted(e))
             exec == strict /\ e # NoFile /\ e.passed
             production == strict /\ e # NoFile /\ e.mode = "production"
  <1>1. Save("readiness", [passed |-> passed, strict |-> strict, exec |-> exec,
                           production |-> production])
    BY DEF ReadExec
  <1>2. passed /\ strict => exec /\ lane[l].ok /\ lane[l].present /\ lane[l].strict /\ ExecAccepted(e)
    BY DEF ExecAccepted
  <1> HIDE DEF passed, strict, exec, production
  <1>3. dir'.readiness = [passed |-> passed, strict |-> strict, exec |-> exec,
                          production |-> production]
    BY <1>1, SaveKeeps DEF TypeInv, GovernanceTypeOK
  <1>4. QED
    BY <1>2, <1>3 DEF ReadExec

LEMMA StepSawExec == TypeInv /\ ReadinessSawExec /\ [Next]_vars => ReadinessSawExec'
  <1> SUFFICES ASSUME TypeInv, ReadinessSawExec, [Next]_vars PROVE ReadinessSawExec'
    OBVIOUS
  <1>1. CASE UNCHANGED vars
    BY <1>1 DEF vars, ReadinessSawExec
  <1>2. ASSUME NEW l \in Lanes, Steps(l) PROVE ReadinessSawExec'
    <2>1. CASE ReadExec(l)
      BY <2>1, ReadinessWritten DEF ReadinessSawExec
    <2>2. CASE dir'.readiness = dir.readiness
      BY <2>2 DEF ReadinessSawExec
    <2>3. QED
      BY <1>2, <2>1, <2>2, ReportMoves
  <1>3. QED
    BY <1>1, <1>2 DEF Next, Steps

LEMMA AgreesFromSaw == ReadinessSawExec => GateAgreesWithAudit
  <1> SUFFICES ASSUME ReadinessSawExec PROVE GateAgreesWithAudit
    OBVIOUS
  <1> DEFINE complete == dir.yaml # NoFile /\ dir.exec # NoFile
             passes == ReadinessAccepted(dir, TRUE, TRUE) /\ complete /\ StrictAccepted(dir, TRUE)
  <1>1. ASSUME complete, AuditUnresolved(dir) = {} PROVE passes
    <2>1. dir.strict # NoFile /\ dir.strict.passed /\ dir.strict.live
      <3>1. /\ "strict_connector_evidence_missing" \notin AuditUnresolved(dir)
            /\ "strict_connector_evidence_not_passed" \notin AuditUnresolved(dir)
            /\ "strict_connector_evidence_not_live" \notin AuditUnresolved(dir)
        BY <1>1
      <3>2. dir.strict # NoFile
        BY <3>1 DEF AuditUnresolved
      <3>3. QED
        BY <3>1, <3>2 DEF AuditUnresolved
    <2>2. dir.readiness # NoFile /\ dir.readiness.passed /\ dir.readiness.strict
      BY <1>1 DEF AuditUnresolved
    <2>3. QED
      BY <1>1, <2>1, <2>2 DEF ReadinessAccepted, StrictAccepted
  <1>2. ASSUME passes
        PROVE  AuditUnresolved(dir) \subseteq {"finetune_training_exec_not_production"}
    <2>1. /\ dir.readiness # NoFile /\ dir.readiness.passed /\ dir.readiness.strict
          /\ dir.strict # NoFile /\ dir.strict.passed /\ dir.strict.live
      BY <1>2 DEF ReadinessAccepted, StrictAccepted
    <2>2. dir.readiness.exec
      BY <2>1 DEF ReadinessSawExec
    <2>3. QED
      BY <2>1, <2>2 DEF AuditUnresolved
  <1>3. QED
    BY <1>1, <1>2 DEF GateAgreesWithAudit

(* At every moment, and however the readiness job's reads fall between the *)
(* writes of training and promotion, the strict release gate and the       *)
(* enterprise audit judge the directory alike, up to the one mode that is  *)
(* neither simulated nor production.                                       *)
THEOREM GateAndAuditAgree == Spec => []GateAgreesWithAudit
  <1>1. Init => ReadinessSawExec
    BY DEF Init, ReadinessSawExec
  <1>2. Spec => [](TypeInv /\ ReadinessSawExec)
    BY <1>1, InitGovernance, StepTypes, StepSawExec, PTL DEF Spec
  <1>3. QED
    BY <1>2, AgreesFromSaw, PTL

-----------------------------------------------------------------------------
(* What the release rests on: each report that could carry a strict gate   *)
(* is behind a fact, and so is what a job already read from one.           *)
Trained   == \E f \in facts : f.kind = "train" /\ f.passed /\ ~IsSimulated(f.mode)
PromotedF == \E f \in facts : f.kind = "promote" /\ f.mode # "simulated"
Live      == \E f \in facts : f.kind = "live"

ReportsGrounded ==
    /\ (dir.exec # NoFile /\ dir.exec.passed /\ ~IsSimulated(dir.exec.mode)) => Trained
    /\ (dir.promotion # NoFile /\ dir.promotion.mode # "simulated") => PromotedF
    /\ (dir.strict # NoFile /\ dir.strict.passed /\ dir.strict.live) => Live
    /\ (dir.readiness # NoFile /\ dir.readiness.passed /\ dir.readiness.strict) =>
         Trained /\ PromotedF

(* The strict gate has accepted a readiness report.                        *)
JudgedPC == {"gate_yaml", "gate_exec", "gate_strict"}

JobsGrounded ==
    \A l \in Lanes :
        /\ (lane[l].pc = "read_exec" /\ lane[l].ok /\ lane[l].strict) => PromotedF
        /\ (lane[l].pc \in JudgedPC /\ lane[l].ok) => Trained /\ PromotedF

Grounded == ReportsGrounded /\ JobsGrounded /\ ReleaseGrounded

LEMMA FactsStay ==
    ASSUME facts \subseteq facts'
    PROVE  (Trained => Trained') /\ (PromotedF => PromotedF') /\ (Live => Live')
  BY DEF Trained, PromotedF, Live

(* A demanding connector check that passed had a connector that answered.  *)
LEMMA PassedIsLive ==
    ASSUME NEW out, EvidencePassed(out, TRUE, 1)
    PROVE  Having(out, {"contract_verified"}) # {}
  <1>1. Cardinality({}) = 0
    BY FS_EmptySet
  <1>2. ~(0 >= 1)
    OBVIOUS
  <1>3. QED
    BY <1>1, <1>2 DEF EvidencePassed

LEMMA StepReports ==
    ASSUME TypeInv, ReportsGrounded, JobsGrounded, NEW l \in Lanes, Steps(l)
    PROVE  ReportsGrounded'
  <1>1. facts \subseteq facts' /\ dir \in Files /\ dir' \in Files
    BY FactType, DirType DEF TypeInv, GovernanceTypeOK
  <1>2. (Trained => Trained') /\ (PromotedF => PromotedF') /\ (Live => Live')
    BY <1>1, FactsStay
  <1>3. (dir'.exec # NoFile /\ dir'.exec.passed /\ ~IsSimulated(dir'.exec.mode)) => Trained'
    <2>1. CASE dir'.exec = dir.exec
      BY <1>2, <2>1 DEF ReportsGrounded
    <2>2. ASSUME NEW success \in BOOLEAN, TrainCommand(l, success),
                 dir'.exec.passed, ~IsSimulated(dir'.exec.mode)
          PROVE  Trained'
      <3>1. dir'.exec = [run |-> lane[l].row.run, passed |-> success, mode |-> lane[l].mode]
        BY <1>1, <2>2, SaveKeeps DEF TrainCommand
      <3>2. success = TRUE /\ ~IsSimulated(lane[l].mode)
        BY <2>2, <3>1
      <3>3. [kind |-> "train", run |-> lane[l].row.run, passed |-> TRUE, mode |-> lane[l].mode] \in facts'
        BY <2>2, <3>2 DEF TrainCommand, Note
      <3>4. QED
        BY <3>2, <3>3 DEF Trained
    <2>3. QED
      BY <2>1, <2>2, ReportMoves
  <1>4. (dir'.promotion # NoFile /\ dir'.promotion.mode # "simulated") => PromotedF'
    <2>1. CASE dir'.promotion = dir.promotion
      BY <1>2, <2>1 DEF ReportsGrounded
    <2>2. ASSUME PromotionReport(l), dir'.promotion.mode # "simulated" PROVE PromotedF'
      <3> DEFINE mode == IF lane[l].mode = "simulated" THEN "simulated" ELSE "production"
      <3>1. dir'.promotion = [model |-> lane[l].row.model, mode |-> mode]
        BY <1>1, <2>2, SaveKeeps DEF PromotionReport
      <3>2. lane[l].mode # "simulated"
        BY <2>2, <3>1
      <3>3. [kind |-> "promote", run |-> lane[l].row.run, passed |-> TRUE, mode |-> lane[l].mode] \in facts'
        BY <2>2, <3>2 DEF PromotionReport, Note
      <3>4. QED
        BY <3>2, <3>3 DEF PromotedF
    <2>3. QED
      BY <2>1, <2>2, ReportMoves
  <1>5. (dir'.strict # NoFile /\ dir'.strict.passed /\ dir'.strict.live) => Live'
    <2>1. CASE dir'.strict = dir.strict
      BY <1>2, <2>1 DEF ReportsGrounded
    <2>2. ASSUME NEW out \in [Checks -> Outcomes], StrictEvidence(l, out), dir'.strict.passed
          PROVE  Live'
      <3>1. dir'.strict = [passed |-> EvidencePassed(out, TRUE, 1), live |-> TRUE]
        BY <1>1, <2>2, SaveKeeps DEF StrictEvidence
      <3>2. Having(out, {"contract_verified"}) # {}
        <4>1. EvidencePassed(out, TRUE, 1) = dir'.strict.passed
          BY <3>1
        <4>2. EvidencePassed(out, TRUE, 1)
          BY <2>2, <4>1
        <4>3. QED
          BY <4>2, PassedIsLive
      <3>3. Happened("live") \in facts'
        BY <2>2, <3>2 DEF StrictEvidence, Note
      <3>4. QED
        BY <3>3 DEF Live, Happened
    <2>3. CASE StrictSimulated(l)
      <3>1. dir'.strict = [passed |-> TRUE, live |-> FALSE]
        BY <1>1, <2>3, SaveKeeps DEF StrictSimulated
      <3>2. QED
        BY <3>1
    <2>4. QED
      BY <2>1, <2>2, <2>3, ReportMoves
  <1>6. (dir'.readiness # NoFile /\ dir'.readiness.passed /\ dir'.readiness.strict) =>
          Trained' /\ PromotedF'
    <2>1. CASE dir'.readiness = dir.readiness
      BY <1>2, <2>1 DEF ReportsGrounded
    <2>2. CASE ReadExec(l)
      BY <1>2, <2>2, ReadinessWritten DEF ReportsGrounded, JobsGrounded, ExecAccepted
    <2>3. QED
      BY <2>1, <2>2, ReportMoves
  <1>7. QED
    BY <1>3, <1>4, <1>5, <1>6 DEF ReportsGrounded

LEMMA StepJobs ==
    ASSUME TypeInv, ReportsGrounded, JobsGrounded, NEW l \in Lanes, Steps(l)
    PROVE  JobsGrounded'
  <1>1. facts \subseteq facts' /\ OthersKept(l) /\ lane \in [Lanes -> LaneState] /\ lane[l] \in LaneState
    BY FactType, LaneStep DEF TypeInv, GovernanceTypeOK
  <1>2. (Trained => Trained') /\ (PromotedF => PromotedF')
    BY <1>1, FactsStay
  <1>3. ASSUME NEW k \in Lanes, k # l
        PROVE  /\ (lane'[k].pc = "read_exec" /\ lane'[k].ok /\ lane'[k].strict) => PromotedF'
               /\ (lane'[k].pc \in JudgedPC /\ lane'[k].ok) => Trained' /\ PromotedF'
    BY <1>1, <1>2, <1>3, OthersFields DEF JobsGrounded, JudgedPC
  <1>4. (lane'[l].pc = "read_exec" /\ lane'[l].ok /\ lane'[l].strict) => PromotedF'
    <2>1. SUFFICES ASSUME ReadPromotion(l), lane'[l].ok, lane'[l].strict PROVE PromotedF
      BY <1>2, Reaches
    <2> DEFINE ok == /\ lane[l].ok /\ dir.promotion # NoFile
                     /\ Real(dir.promotion.mode, lane[l].strict)
    <2>2. lane'[l].strict = lane[l].strict /\ lane'[l].ok = ok
      BY <1>1, <2>1 DEF ReadPromotion, LaneState
    <2>3. dir.promotion # NoFile /\ dir.promotion.mode # "simulated"
      BY <2>1, <2>2 DEF Real, IsSimulated
    <2>4. QED
      BY <2>3 DEF ReportsGrounded
  <1>5. (lane'[l].pc \in JudgedPC /\ lane'[l].ok) => Trained' /\ PromotedF'
    <2>1. CASE GateReadiness(l) /\ lane'[l].ok
      <3> DEFINE accepted == ReadinessAccepted(dir, TRUE, TRUE)
      <3>1. lane' = [lane EXCEPT ![l].pc = "gate_yaml", ![l].ok = @ /\ accepted]
        BY <2>1 DEF GateReadiness, Judge
      <3>2. lane'[l].ok = (lane[l].ok /\ accepted)
        BY <1>1, <3>1 DEF LaneState
      <3>3. accepted
        BY <2>1, <3>2
      <3>4. QED
        BY <1>2, <3>3 DEF ReadinessAccepted, ReportsGrounded
    <2>2. CASE (GateYaml(l) \/ GateExec(l)) /\ lane'[l].ok
      <3>1. PICK pc, accepted : lane' = [lane EXCEPT ![l].pc = pc, ![l].ok = @ /\ accepted]
        BY <2>2 DEF GateYaml, GateExec, Judge
      <3>2. lane'[l].ok = (lane[l].ok /\ accepted)
        BY <1>1, <3>1 DEF LaneState
      <3>3. lane[l].ok /\ lane[l].pc \in JudgedPC
        BY <2>2, <3>2 DEF GateYaml, GateExec, JudgedPC
      <3>4. QED
        BY <1>2, <3>3 DEF JobsGrounded
    <2>3. QED
      BY <2>1, <2>2, Reaches DEF JudgedPC
  <1>6. QED
    BY <1>3, <1>4, <1>5 DEF JobsGrounded

LEMMA StepVerdict ==
    ASSUME TypeInv, Grounded, NEW l \in Lanes, Steps(l)
    PROVE  ReleaseGrounded'
  <1>1. facts \subseteq facts' /\ lane[l] \in LaneState
    BY FactType DEF TypeInv, GovernanceTypeOK
  <1>2. (Trained => Trained') /\ (PromotedF => PromotedF') /\ (Live => Live')
    BY <1>1, FactsStay
  <1>3. ReleaseGrounded <=> ((verdict # NoFile /\ verdict.strict /\ verdict.passed) =>
                             Trained /\ PromotedF /\ (verdict.live => Live))
    BY DEF ReleaseGrounded, Trained, PromotedF, Live
  <1>4. ReleaseGrounded' <=> ((verdict' # NoFile /\ verdict'.strict /\ verdict'.passed) =>
                              Trained' /\ PromotedF' /\ (verdict'.live => Live'))
    BY DEF ReleaseGrounded, Trained, PromotedF, Live
  <1>5. CASE verdict' = verdict
    BY <1>2, <1>3, <1>4, <1>5 DEF Grounded
  <1>6. CASE \E require \in BOOLEAN : GateRelaxed(l, require)
    <2>1. verdict'.strict = lane[l].strict /\ ~lane[l].strict
      BY <1>6 DEF GateRelaxed, Rule
    <2>2. QED
      BY <1>4, <2>1
  <1>7. ASSUME NEW live \in BOOLEAN, GateStrict(l, live) PROVE ReleaseGrounded'
    <2>1. SUFFICES ASSUME verdict'.passed PROVE Trained /\ PromotedF /\ (verdict'.live => Live)
      BY <1>2, <1>4
    <2> DEFINE passed == lane[l].ok /\ StrictAccepted(dir, live)
    <2>2. /\ verdict' = [strict |-> lane[l].strict, live |-> live, passed |-> passed]
          /\ lane[l].pc = "gate_strict"
      BY <1>7 DEF GateStrict, Rule
    <2>3. verdict'.live = live /\ passed
      BY <2>1, <2>2
    <2>4. QED
      BY <2>2, <2>3 DEF StrictAccepted, Grounded, ReportsGrounded, JobsGrounded, JudgedPC
  <1>8. QED
    BY <1>5, <1>6, <1>7 DEF Steps, Train, StartTraining, TrainCommand, TrainReport, EmitJob,
           Register, RegistryLoad, RegistryTruncate, RegistryWrite, RegistryPut, Promote,
           PromoteGet, PromotionReport, Evidence, DatasetPrep, BaseReport, FailoverDrill,
           ConnectorEvidence, StrictEvidence, StrictSimulated, Verify, ReadDataset,
           ReadTraining, ReadPromotion, ReadExec, StartGate, GateBase, GateReadiness, GateYaml,
           GateExec, Judge, Killed, OnlyDir

(* A strict gate that passed rests on a training command that succeeded    *)
(* and was not simulated, on a promotion that was not, and, unless the     *)
(* deployment waives it, on a connector that answered: whatever other jobs *)
(* replaced the reports while the readiness job and the gate were reading  *)
(* them one by one.                                                        *)
THEOREM ReleaseIsGrounded == Spec => []ReleaseGrounded
  <1>1. Init => Grounded
    <2>1. Init => verdict = NoFile
      BY DEF Init
    <2>2. Init => ReportsGrounded
      BY DEF Init, ReportsGrounded
    <2>3. Init => JobsGrounded
      BY InitIdle DEF JobsGrounded, JudgedPC
    <2>4. QED
      BY <2>1, <2>2, <2>3 DEF Grounded, ReleaseGrounded
  <1>2. TypeInv /\ Grounded /\ [Next]_vars => Grounded'
    <2> SUFFICES ASSUME TypeInv, Grounded, [Next]_vars PROVE Grounded'
      OBVIOUS
    <2>1. CASE UNCHANGED vars
      BY <2>1 DEF vars, Grounded, ReportsGrounded, JobsGrounded, ReleaseGrounded, Trained,
                  PromotedF, Live, JudgedPC
    <2>2. ASSUME NEW l \in Lanes, Steps(l) PROVE Grounded'
      BY <2>2, StepReports, StepJobs, StepVerdict DEF Grounded
    <2>3. QED
      BY <2>1, <2>2 DEF Next, Steps
  <1>3. Grounded => ReleaseGrounded
    BY DEF Grounded
  <1>4. QED
    BY <1>1, <1>2, <1>3, InitGovernance, StepTypes, PTL DEF Spec

-----------------------------------------------------------------------------
(* Where promoted rows come from.  A table somebody holds, the file's or   *)
(* the service's, has rows that were stored, each under its own model; a   *)
(* torn file has none to look at.                                          *)
Descends(row) ==
    \E old \in stored : old.model = row.model /\ old.run = row.run /\ old.status # "promoted"

Whole == backend = "http" \/ registry # Torn

FromStored(table) ==
    \A m \in Models : table[m] # NoFile => table[m] \in stored /\ table[m].model = m

TablesStored ==
    /\ Whole => FromStored(registry)
    /\ \A l \in Lanes : lane[l].pc \in {"truncate", "write"} => FromStored(lane[l].table)

RowsDescend ==
    /\ \A row \in stored : row.status = "promoted" => Descends(row)
    /\ \A l \in Lanes :
         /\ lane[l].pc \in Local \union {"put"} /\ lane[l].row.approved => Descends(lane[l].row)
         /\ lane[l].pc = "announce" => lane[l].row \in stored
    /\ dir.promotion # NoFile =>
         \E row \in stored : row.model = dir.promotion.model /\ row.status = "promoted"

LEMMA UpsertAt ==
    ASSUME NEW table \in Table, NEW row \in Row, NEW m \in Models
    PROVE  Upsert(table, row)[m] = IF m = row.model THEN row ELSE table[m]
  BY RowFacts DEF Upsert, Table

(* The lane that writes has a row and, into a file, the table it read.     *)
LEMMA WriterHolds ==
    ASSUME TypeInv, NEW l \in Lanes
    PROVE  /\ RegistryWrite(l) => /\ lane[l].table \in Table /\ lane[l].row \in Row
                                  /\ backend = "local_json" /\ lane[l].pc = "write"
           /\ RegistryPut(l) => /\ registry \in Table /\ lane[l].row \in Row
                                /\ backend = "http"
           /\ RegistryTruncate(l) => backend = "local_json"
           /\ Whole => registry \in Table
  <1>1. LaneOK(l) /\ backend \in Backends /\ registry \in Table \union {Torn}
        /\ (registry \notin Table => backend = "local_json")
    BY DEF TypeInv, GovernanceTypeOK
  <1>2. QED
    BY <1>1 DEF RegistryWrite, RegistryPut, RegistryTruncate, LaneOK, Working, Local, Backends,
                Whole

LEMMA StepTables ==
    ASSUME TypeInv, TablesStored, NEW l \in Lanes, Steps(l)
    PROVE  TablesStored'
  <1>1. /\ lane \in [Lanes -> LaneState] /\ lane[l] \in LaneState /\ OthersKept(l)
        /\ backend' = backend /\ stored \subseteq stored'
    BY LaneStep, RegistryMoves DEF TypeInv, GovernanceTypeOK
  <1>2. ASSUME NEW table, FromStored(table) PROVE \A m \in Models :
            table[m] # NoFile => table[m] \in stored' /\ table[m].model = m
    BY <1>1, <1>2 DEF FromStored
  <1>3. ASSUME NEW table \in Table, NEW row \in Row, FromStored(table), row \in stored'
        PROVE  \A m \in Models : Upsert(table, row)[m] # NoFile =>
                   Upsert(table, row)[m] \in stored' /\ Upsert(table, row)[m].model = m
    BY <1>2, <1>3, UpsertAt
  <1>4. Whole' => \A m \in Models :
            registry'[m] # NoFile => registry'[m] \in stored' /\ registry'[m].model = m
    <2> SUFFICES ASSUME Whole'
                 PROVE  \A m \in Models :
                          registry'[m] # NoFile => registry'[m] \in stored' /\ registry'[m].model = m
      OBVIOUS
    <2>1. CASE UNCHANGED <<registry, stored>>
      BY <1>1, <1>2, <2>1 DEF TablesStored, Whole
    <2>2. CASE RegistryTruncate(l)
      BY <1>1, <2>2, WriterHolds DEF RegistryTruncate, Whole, Backends
    <2>3. CASE RegistryWrite(l)
      <3>1. registry' = Upsert(lane[l].table, lane[l].row)
        BY <1>1, <2>3, WriterHolds DEF RegistryWrite, Whole
      <3>2. lane[l].row \in stored' /\ FromStored(lane[l].table)
        BY <2>3 DEF RegistryWrite, TablesStored
      <3>3. QED
        BY <1>3, <2>3, <3>1, <3>2, WriterHolds
    <2>4. CASE RegistryPut(l)
      <3>1. registry' = Upsert(registry, lane[l].row) /\ lane[l].row \in stored'
        BY <2>4 DEF RegistryPut
      <3>2. FromStored(registry)
        BY <2>4, WriterHolds DEF TablesStored, Whole
      <3>3. QED
        BY <1>3, <2>4, <3>1, <3>2, WriterHolds
    <2>5. QED
      BY <2>1, <2>2, <2>3, <2>4, RegistryMoves
  <1>5. ASSUME NEW k \in Lanes, lane'[k].pc \in {"truncate", "write"}
        PROVE  \A m \in Models : lane'[k].table[m] # NoFile =>
                   lane'[k].table[m] \in stored' /\ lane'[k].table[m].model = m
    <2>1. CASE k # l
      BY <1>1, <1>2, <1>5, <2>1, OthersFields DEF TablesStored
    <2>2. CASE k = l /\ RegistryLoad(l) /\ registry # Torn
      <3>1. lane'[l].table = registry
        BY <1>1, <2>2 DEF RegistryLoad, LaneState
      <3>2. QED
        BY <1>2, <2>2, <3>1 DEF TablesStored, Whole
    <2>3. CASE k = l /\ RegistryTruncate(l)
      <3>1. lane'[l].table = lane[l].table /\ lane[l].pc = "truncate"
        BY <1>1, <2>3 DEF RegistryTruncate, Goto, LaneState
      <3>2. QED
        BY <1>2, <2>3, <3>1 DEF TablesStored
    <2>4. QED
      BY <1>5, <2>1, <2>2, <2>3, Reaches
  <1>6. QED
    BY <1>4, <1>5 DEF TablesStored, FromStored

LEMMA StepDescends ==
    ASSUME TypeInv, TablesStored, RowsDescend, NEW l \in Lanes, Steps(l)
    PROVE  RowsDescend'
  <1>1. /\ lane \in [Lanes -> LaneState] /\ lane[l] \in LaneState /\ OthersKept(l) /\ LaneOK(l)
        /\ stored \subseteq stored' /\ stored \subseteq Row /\ dir \in Files
    BY LaneStep, RegistryMoves DEF TypeInv, GovernanceTypeOK
  <1>2. ASSUME NEW row, Descends(row)
        PROVE  \E old \in stored' : old.model = row.model /\ old.run = row.run
                                    /\ old.status # "promoted"
    BY <1>1, <1>2 DEF Descends
  <1>3. ASSUME NEW row \in stored', row.status = "promoted"
        PROVE  \E old \in stored' : old.model = row.model /\ old.run = row.run
                                    /\ old.status # "promoted"
    <2>1. CASE row \in stored
      BY <1>2, <1>3, <2>1 DEF RowsDescend
    <2>2. CASE row \notin stored
      <3>1. /\ row = lane[l].row /\ lane[l].pc \in {"write", "put"}
        BY <1>3, <2>2, RegistryMoves DEF RegistryTruncate, RegistryWrite, RegistryPut
      <3>2. lane[l].row.approved
        BY <1>1, <1>3, <3>1 DEF LaneOK, Working, RowOK
      <3>3. Descends(row)
        BY <3>1, <3>2 DEF RowsDescend, Local
      <3>4. QED
        BY <1>2, <3>3
    <2>3. QED
      BY <2>1, <2>2
  <1>4. ASSUME NEW k \in Lanes, lane'[k].pc \in Local \union {"put"}, lane'[k].row.approved
        PROVE  \E old \in stored' : old.model = lane'[k].row.model /\ old.run = lane'[k].row.run
                                    /\ old.status # "promoted"
    <2>1. CASE k # l
      BY <1>1, <1>2, <1>4, <2>1, OthersFields DEF RowsDescend
    <2>2. CASE k = l /\ TrainReport(l)
      BY <1>1, <1>4, <2>2 DEF TrainReport, Goto, LaneState, LaneOK
    <2>3. CASE k = l /\ PromoteGet(l)
      <3>1. PICK m : m = Args(l).model
        OBVIOUS
      <3>2. Args(l) \in Job /\ m \in Models /\ Rest(l) \in LaneState /\ Rest(l).pc = "idle"
        BY <1>1, <2>3, <3>1, Starting, JobFacts DEF PromoteGet
      <3>3. Found(m)
        BY <1>1, <1>4, <2>3, <3>1, <3>2 DEF PromoteGet, Begin, Local
      <3>4. lane'[l].row = Promoted(registry[m])
        BY <1>1, <2>3, <3>1, <3>2, <3>3 DEF PromoteGet, Begin, LaneState
      <3>5. registry[m] \in stored /\ registry[m] \in Row
        BY <1>1, <3>2, <3>3 DEF Found, TablesStored, Whole, FromStored
      <3>6. lane'[l].row.model = registry[m].model /\ lane'[l].row.run = registry[m].run
        BY <3>4, <3>5, RowFacts
      <3>7. CASE registry[m].status # "promoted"
        BY <1>1, <2>3, <3>5, <3>6, <3>7
      <3>8. CASE registry[m].status = "promoted"
        <4>1. Descends(registry[m])
          BY <3>5, <3>8 DEF RowsDescend
        <4>2. QED
          BY <1>2, <2>3, <3>6, <4>1
      <3>9. QED
        BY <3>7, <3>8
    <2>4. CASE k = l /\ (RegistryLoad(l) \/ RegistryTruncate(l))
      <3>1. lane'[l].row = lane[l].row /\ lane[l].pc \in Local
        <4>1. CASE RegistryTruncate(l)
          BY <1>1, <4>1 DEF RegistryTruncate, Goto, LaneState, Local
        <4>2. CASE RegistryLoad(l) /\ registry # Torn
          BY <1>1, <4>2 DEF RegistryLoad, LaneState, Local
        <4>3. CASE RegistryLoad(l) /\ registry = Torn
          BY <1>1, <1>4, <2>4, <4>3, Ending, LaneEnds DEF RegistryLoad, LaneTo, Local
        <4>4. QED
          BY <2>4, <4>1, <4>2, <4>3
      <3>2. QED
        BY <1>2, <1>4, <2>4, <3>1 DEF RowsDescend
    <2>5. QED
      BY <1>4, <2>1, <2>2, <2>3, <2>4, Reaches DEF Local
  <1>5. ASSUME NEW k \in Lanes, lane'[k].pc = "announce" PROVE lane'[k].row \in stored'
    <2>1. CASE k # l
      BY <1>1, <1>5, <2>1, OthersFields DEF RowsDescend
    <2>2. CASE k = l
      <3>1. /\ lane'[l] = AfterUpsert(l) /\ stored' = stored \union {lane[l].row}
        BY <1>1, <1>5, <2>2, Reaches DEF RegistryWrite, RegistryPut
      <3>2. lane'[l].row = lane[l].row
        BY <1>1, <1>5, <2>2, <3>1, Ending DEF AfterUpsert, LaneState
      <3>3. QED
        BY <2>2, <3>1, <3>2
    <2>3. QED
      BY <2>1, <2>2
  <1>6. dir'.promotion # NoFile =>
          \E row \in stored' : row.model = dir'.promotion.model /\ row.status = "promoted"
    <2>1. CASE dir'.promotion = dir.promotion
      BY <1>1, <2>1 DEF RowsDescend
    <2>2. CASE PromotionReport(l)
      <3>1. PICK mode : Save("promotion", [model |-> lane[l].row.model, mode |-> mode])
        BY <2>2 DEF PromotionReport
      <3>2. dir'.promotion.model = lane[l].row.model
        BY <1>1, <3>1, SaveKeeps
      <3>3. lane[l].row \in stored /\ lane[l].row.status = "promoted"
        BY <1>1, <2>2 DEF PromotionReport, RowsDescend, LaneOK, Working, RowOK
      <3>4. QED
        BY <1>1, <3>2, <3>3
    <2>3. QED
      BY <2>1, <2>2, ReportMoves
  <1>7. QED
    BY <1>3, <1>4, <1>5, <1>6 DEF RowsDescend, Descends

(* Every promoted row is about a model and a run that a training job had   *)
(* registered, and the promotion report about a promoted row, although     *)
(* training jobs replace records while a promotion works from the one it   *)
(* read.                                                                   *)
THEOREM PromotionsDescend == Spec => []PromotedDescends
  <1>1. Init => TablesStored /\ RowsDescend
    <2> SUFFICES ASSUME Init PROVE TablesStored /\ RowsDescend
      OBVIOUS
    <2>1. registry = [m \in Models |-> NoFile] /\ stored = {} /\ dir.promotion = NoFile
      BY DEF Init
    <2>2. \A l \in Lanes : lane[l].pc = "idle"
      BY InitIdle
    <2>3. QED
      BY <2>1, <2>2 DEF TablesStored, RowsDescend, FromStored, Local
  <1>2. TypeInv /\ TablesStored /\ RowsDescend /\ [Next]_vars => TablesStored' /\ RowsDescend'
    <2> SUFFICES ASSUME TypeInv, TablesStored, RowsDescend, [Next]_vars
                 PROVE  TablesStored' /\ RowsDescend'
      OBVIOUS
    <2>1. CASE UNCHANGED vars
      BY <2>1 DEF vars, TablesStored, RowsDescend, FromStored, Whole, Descends
    <2>2. ASSUME NEW l \in Lanes, Steps(l) PROVE TablesStored' /\ RowsDescend'
      BY <2>2, StepTables, StepDescends
    <2>3. QED
      BY <2>1, <2>2 DEF Next, Steps
  <1>3. RowsDescend => PromotedDescends
    BY DEF RowsDescend, Descends, PromotedDescends
  <1>4. QED
    BY <1>1, <1>2, <1>3, InitGovernance, StepTypes, PTL DEF Spec

-----------------------------------------------------------------------------
(* Lost rows.  While no two jobs were between reading and writing the file *)
(* at once, the one writer there is holds the file's own table, and every  *)
(* table, held or in the file, has a row for every model ever stored.      *)
Alone == \A f \in facts : f.kind # "overlap"

Complete(table) == \A row \in stored : table[row.model] # NoFile

OneWriter ==
    \A k, l \in Lanes :
        lane[k].pc \in {"truncate", "write"} /\ lane[l].pc \in {"truncate", "write"} => k = l

TablesComplete ==
    /\ Whole => Complete(registry)
    /\ \A l \in Lanes : lane[l].pc \in {"truncate", "write"} => Complete(lane[l].table)

NothingLost == Alone => OneWriter /\ TablesComplete

LEMMA StaysAlone ==
    ASSUME TypeInv, NEW l \in Lanes, Steps(l), Alone'
    PROVE  /\ Alone
           /\ RegistryLoad(l) => \A k \in Lanes \ {l} : lane[k].pc \notin {"truncate", "write"}
  <1>1. Alone
    BY FactType DEF Alone
  <1>2. ASSUME RegistryLoad(l), \E k \in Lanes \ {l} : lane[k].pc \in {"truncate", "write"}
        PROVE  FALSE
    <2>1. Happened("overlap") \in facts'
      BY <1>2 DEF RegistryLoad, Note
    <2>2. QED
      BY <2>1 DEF Alone, Happened
  <1>3. QED
    BY <1>1, <1>2

LEMMA StepWriter ==
    ASSUME TypeInv, OneWriter, NEW l \in Lanes, Steps(l), Alone'
    PROVE  OneWriter'
  <1>1. OthersKept(l)
    BY LaneStep
  <1>2. \A k \in Lanes \ {l} : lane'[k].pc = lane[k].pc
    BY <1>1, OthersFields
  <1>3. CASE lane'[l].pc \notin {"truncate", "write"} \/ lane[l].pc \in {"truncate", "write"}
    BY <1>2, <1>3 DEF OneWriter
  <1>4. CASE lane'[l].pc \in {"truncate", "write"} /\ lane[l].pc \notin {"truncate", "write"}
    <2>1. RegistryLoad(l)
      BY <1>4, Reaches DEF RegistryTruncate
    <2>2. \A k \in Lanes \ {l} : lane'[k].pc \notin {"truncate", "write"}
      BY <1>2, <2>1, StaysAlone
    <2>3. QED
      BY <2>2 DEF OneWriter
  <1>5. QED
    BY <1>3, <1>4

LEMMA StepComplete ==
    ASSUME TypeInv, OneWriter, TablesComplete, NEW l \in Lanes, Steps(l), Alone'
    PROVE  TablesComplete'
  <1>1. /\ lane \in [Lanes -> LaneState] /\ lane[l] \in LaneState /\ OthersKept(l)
        /\ backend' = backend /\ stored \subseteq Row
    BY LaneStep DEF TypeInv, GovernanceTypeOK
  <1>2. ASSUME NEW table \in Table, NEW row \in Row, Complete(table)
        PROVE  \A r \in stored \union {row} : Upsert(table, row)[r.model] # NoFile
    BY <1>1, <1>2, UpsertAt, RowFacts DEF Complete
  <1>3. Whole' => \A row \in stored' : registry'[row.model] # NoFile
    <2> SUFFICES ASSUME Whole' PROVE \A row \in stored' : registry'[row.model] # NoFile
      OBVIOUS
    <2>1. CASE UNCHANGED <<registry, stored>>
      BY <1>1, <2>1 DEF TablesComplete, Complete, Whole
    <2>2. CASE RegistryTruncate(l)
      BY <1>1, <2>2, WriterHolds DEF RegistryTruncate, Whole, Backends
    <2>3. CASE RegistryWrite(l)
      <3>1. /\ registry' = Upsert(lane[l].table, lane[l].row)
            /\ stored' = stored \union {lane[l].row}
        BY <1>1, <2>3, WriterHolds DEF RegistryWrite, Whole
      <3>2. Complete(lane[l].table)
        BY <2>3 DEF RegistryWrite, TablesComplete
      <3>3. QED
        BY <1>2, <2>3, <3>1, <3>2, WriterHolds
    <2>4. CASE RegistryPut(l)
      <3>1. /\ registry' = Upsert(registry, lane[l].row)
            /\ stored' = stored \union {lane[l].row}
        BY <2>4 DEF RegistryPut
      <3>2. Complete(registry)
        BY <2>4, WriterHolds DEF TablesComplete, Whole
      <3>3. QED
        BY <1>2, <2>4, <3>1, <3>2, WriterHolds
    <2>5. QED
      BY <2>1, <2>2, <2>3, <2>4, RegistryMoves
  <1>4. ASSUME NEW k \in Lanes, lane'[k].pc \in {"truncate", "write"}
        PROVE  \A row \in stored' : lane'[k].table[row.model] # NoFile
    <2>1. CASE k # l
      <3>1. lane'[k].table = lane[k].table /\ lane[k].pc \in {"truncate", "write"}
        BY <1>1, <1>4, <2>1, OthersFields
      <3>2. ~RegistryWrite(l)
        BY <2>1, <3>1 DEF RegistryWrite, OneWriter
      <3>3. ~RegistryPut(l)
        <4>1. LaneOK(k) /\ LaneOK(l)
          BY DEF TypeInv
        <4>2. QED
          BY <3>1, <4>1 DEF RegistryPut, LaneOK, Local
      <3>4. stored' = stored
        BY <3>2, <3>3, RegistryMoves DEF RegistryTruncate
      <3>5. QED
        BY <3>1, <3>4 DEF TablesComplete, Complete
    <2>2. CASE k = l /\ RegistryLoad(l) /\ registry # Torn
      <3>1. lane'[l].table = registry /\ stored' = stored
        BY <1>1, <2>2 DEF RegistryLoad, LaneState
      <3>2. QED
        BY <2>2, <3>1 DEF TablesComplete, Complete, Whole
    <2>3. CASE k = l /\ RegistryTruncate(l)
      <3>1. lane'[l].table = lane[l].table /\ stored' = stored /\ lane[l].pc = "truncate"
        BY <1>1, <2>3 DEF RegistryTruncate, Goto, LaneState
      <3>2. QED
        BY <2>3, <3>1 DEF TablesComplete, Complete
    <2>4. QED
      BY <1>4, <2>1, <2>2, <2>3, Reaches
  <1>5. QED
    BY <1>3, <1>4 DEF TablesComplete, Complete

(* A model that was registered is missing from the registry only if two    *)
(* jobs were between reading and writing its file at the same time, or if  *)
(* the file is torn; the service never loses one.                          *)
THEOREM RowsLostOnlyByOverlap == Spec => []LostOnlyByOverlap
  <1>1. Init => NothingLost
    <2> SUFFICES ASSUME Init PROVE OneWriter /\ TablesComplete
      BY DEF NothingLost
    <2>1. stored = {} /\ \A l \in Lanes : lane[l].pc = "idle"
      BY InitIdle DEF Init
    <2>2. QED
      BY <2>1 DEF OneWriter, TablesComplete, Complete
  <1>2. TypeInv /\ NothingLost /\ [Next]_vars => NothingLost'
    <2> SUFFICES ASSUME TypeInv, NothingLost, [Next]_vars PROVE NothingLost'
      OBVIOUS
    <2>1. CASE UNCHANGED vars
      BY <2>1 DEF vars, NothingLost, Alone, OneWriter, TablesComplete, Complete, Whole
    <2>2. ASSUME NEW l \in Lanes, Steps(l), Alone' PROVE OneWriter' /\ TablesComplete'
      BY <2>2, StaysAlone, StepWriter, StepComplete DEF NothingLost
    <2>3. QED
      BY <2>1, <2>2 DEF Next, Steps, NothingLost
  <1>3. NothingLost => LostOnlyByOverlap
    BY DEF NothingLost, TablesComplete, Complete, Whole, Alone, LostOnlyByOverlap
  <1>4. QED
    BY <1>1, <1>2, <1>3, InitGovernance, StepTypes, PTL DEF Spec
=============================================================================
