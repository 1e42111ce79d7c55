------------------------------ MODULE MCGateway -----------------------------
(* Instances of Gateway for TLC.                                           *)
EXTENDS Gateway, TLC

CONSTANTS t1, t2, one, two, ann, acme

TwoThreads == {t1, t2}
(* SQLite in one process, Redis behind two.                                *)
SomeDeployments ==
    {[backend |-> "sqlite", proc |-> [t \in TwoThreads |-> one]],
     [backend |-> "redis", proc |-> (t1 :> one) @@ (t2 :> two)]}

SomeRequests ==
    [token : {None, [roles |-> {"writer"}], [roles |-> {}]}, user : {None, ann},
     roles : {None, {}, {"admin"}}, version : Versions]

Spelled == [Reader |-> "reader", DENY |-> "deny"]
SomeSettings == {None, [reader |-> {"read"}, admin |-> {"admin", "read", "write"}]}

Deny  == [effect |-> "deny", scope |-> "write", roles |-> {}, tenants |-> {acme}, tags |-> <<>>]
Allow1 == [Deny EXCEPT !.effect = "allow", !.scope = "*", !.tenants = {}]
Classified == [Deny EXCEPT !.scope = "*", !.effect = "DENY", !.roles = {"Reader"}, !.tenants = {},
                           !.tags = [class |-> "secret"]]
Odd == [Allow1 EXCEPT !.effect = "maybe"]
SomeRules == {<<Allow1, Deny, Classified>>, <<Odd, Classified, Allow1>>}

(* The roles given, or those of the jwt; a scope granted explicitly; an    *)
(* admin; a resource without tags.                                         *)
SomeAccesses ==
    [user : {ann}, scope : {"read", "write"}, roles : {{}, {"admin"}}, jwt : {{"Reader"}},
     granted : {None, {"write"}}, tenant : {acme, None},
     tags : {[class |-> "secret"], <<>>}, resource : BOOLEAN]
=============================================================================
