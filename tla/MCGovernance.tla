---------------------------- MODULE MCGovernance ----------------------------
(* Instances of Governance for TLC.                                        *)
EXTENDS Governance, TLC

CONSTANTS l1, l2, r1, r2, m1, m2, github, jira

TwoLanes  == {l1, l2}
TwoRuns   == {r1, r2}
TwoModels == {m1, m2}
TwoChecks == {github, jira}

Plain(kind) == [kind |-> kind, run |-> NoFile, model |-> NoFile,
                mode |-> "production", strict |-> TRUE]
Simulated(job) == [job EXCEPT !.mode = "simulated", !.strict = FALSE]
TrainJob(r, m) == [Plain("train") EXCEPT !.run = r, !.model = m]
PromoteJob(m)  == [Plain("promote") EXCEPT !.model = m]
Relaxed(job)   == [job EXCEPT !.strict = FALSE]

On(b, first, second) == [backend |-> b, jobs |-> (l1 :> first) @@ (l2 :> second)]

(* Two lanes train, promote and train again, on one registry.              *)
Contention ==
    {On(b, <<TrainJob(r1, m1), PromoteJob(m1)>>, <<TrainJob(r2, m), PromoteJob(m1)>>) :
       b \in Backends, m \in TwoModels}

(* One lane produces the evidence and asks for a release; another trains   *)
(* again, or repeats simulated jobs beside it.                             *)
Production == <<TrainJob(r1, m1), Plain("emit"), PromoteJob(m1), Plain("dataset"),
                Plain("readiness"), Plain("strict_evidence"), Plain("drill"), Plain("scale"),
                Plain("benchmark"), Plain("evidence"), Plain("gate")>>
Others == {<<TrainJob(r2, m1)>>,
           <<Simulated(PromoteJob(m1)), Relaxed(Plain("strict_evidence"))>>}
(* A training command that ran in some other mode; a promotion, or all of  *)
(* them, in a simulated mode spelled otherwise.                            *)
InMode(mode, kinds) ==
    [i \in DOMAIN Production |->
       IF Production[i].kind \in kinds THEN [Production[i] EXCEPT !.mode = mode] ELSE Production[i]]
Spelled == {InMode("other", {"train"}), InMode("Simulated", {"promote"}),
            InMode("Simulated", {"train", "dataset", "promote"})}
Releases == {On("http", Production, other) : other \in Others}
            \union {On("http", spelled, <<>>) : spelled \in Spelled}

(* The relaxed gate beside the evidence jobs and a simulated pipeline.     *)
Relaxations ==
    {On("local_json", <<Simulated(Plain("dataset")), Simulated(TrainJob(r1, m1)),
                        Simulated(PromoteJob(m1)), Relaxed(Plain("readiness"))>>,
        <<Plain("drill"), Plain("scale"), Plain("benchmark"), Plain("evidence"),
          Relaxed(Plain("gate"))>>)}

SomeScripts == Contention \union Releases \union Relaxations
=============================================================================
