----------------------------- MODULE MCQueryApi -----------------------------
(* Instances of QueryApi for TLC: the posts of MCDocsApi and two queries.   *)
EXTENDS QueryApi, TLC

CONSTANTS r1, r2, q1, q2, acme, globex, public, k1, k2, d1, d2, long, short,
          ghost

TwoRequests == {r1, r2}
TwoQueries == {q1, q2}
ThreeTenants == {acme, globex, public}
TwoKeys == {k1, k2}
TwoIds == {d1, d2}
TwoTexts == {long, short}
OneText == {short}

Post(t, k, ds) == [tenant |-> t, key |-> k, decodes |-> TRUE, docs |-> ds]
Doc1Long  == [id |-> d1, text |-> long, pieces |-> 2]
Doc1Short == [id |-> d1, text |-> short, pieces |-> 1]
Doc2Long  == [id |-> d2, text |-> long, pieces |-> 1]

About(t, texts) == [tenant |-> t, flagged |-> FALSE, about |-> texts, topK |-> 2]
Flagged == [tenant |-> globex, flagged |-> TRUE, about |-> {}, topK |-> 2]

(* A document and its next version, whose text is forbidden, beside a      *)
(* query; two queries on an empty store; a flagged query.                  *)
NoPost      == <<>>
TwoVersions == (r1 :> Post(acme, k1, <<Doc1Long>>)) @@ (r2 :> Post(acme, k2, <<Doc1Short>>))
SomeWorkloads == {NoPost, TwoVersions}
SomeTraffic ==
    {<<TwoVersions, q1 :> About(acme, {long, short})>>,
     <<NoPost, (q1 :> About(acme, {long})) @@ (q2 :> About(acme, {short}))>>,
     <<NoPost, q1 :> Flagged>>}

(* A tenant's document, a public one and a query.                          *)
TwoTenants ==
    (r1 :> Post(acme, k1, <<Doc1Long>>)) @@ (r2 :> Post(public, k1, <<Doc2Long>>))
TenantWorkloads == {TwoTenants}
TenantTraffic == {<<TwoTenants, q1 :> About(acme, {long})>>}

OneAtATime == {[s \in Stages |-> 1]}
SomeLimits == {[inflight |-> 2, ingest |-> 1]}

SomeModes == {[strategy |-> "full_loop", fallback |-> TRUE, require |-> TRUE],
              [strategy |-> "append_note", fallback |-> FALSE, require |-> FALSE]}
OneMode   == {[strategy |-> "full_loop", fallback |-> FALSE, require |-> TRUE]}

Written70 == [length |-> 70, cites |-> {d1, ghost}, repeats |-> FALSE]
Empty     == [length |-> 0, cites |-> {}, repeats |-> FALSE]
Written400 == [length |-> 400, cites |-> {d1}, repeats |-> FALSE]
SomeCompletions == {Empty, Written70}
GoodCompletion  == {Written400}
=============================================================================
