----------------------------- MODULE MCDocsApi -----------------------------
(* Instances of DocsApi for TLC.                                           *)
EXTENDS DocsApi, TLC

CONSTANTS r1, r2, r3, acme, globex, k1, k2, d1, d2, long, short, other

ThreeRequests == {r1, r2, r3}
TwoTenants == {acme, globex}
TwoKeys == {k1, k2}
TwoIds == {d1, d2}
ThreeTexts == {long, short, other}

Doc1Long  == [id |-> d1, text |-> long, pieces |-> 2]
Doc1Short == [id |-> d1, text |-> short, pieces |-> 1]
Doc2Empty == [id |-> d2, text |-> other, pieces |-> 0]

Ask(t, k, ok, ds) == [tenant |-> t, key |-> k, decodes |-> ok, docs |-> ds]

Batch     == Ask(acme, k1, TRUE, <<Doc2Empty, Doc1Long>>)
Damaged   == Ask(acme, k1, FALSE, <<Doc1Long>>)
Newer     == Ask(acme, k2, TRUE, <<Doc1Short, Doc1Long>>)
Foreign   == Ask(globex, k1, TRUE, <<Doc1Short>>)

Load(a, b, c) == (r1 :> a) @@ (r2 :> b) @@ (r3 :> c)

(* A batch retried with the same key, once with an attachment that does    *)
(* not decode, beside another version of the same document and another     *)
(* tenant's document of the same id.                                       *)
SomeWorkloads == {Load(Batch, Batch, Newer), Load(Damaged, Batch, Foreign)}

TenantWorkloads == {Load(Batch, Foreign, Foreign)}

SomeLimits  == {[inflight |-> 2, ingest |-> n] : n \in 1 .. 2}
WideLimits  == {[inflight |-> 3, ingest |-> 3]}
=============================================================================
