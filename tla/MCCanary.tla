------------------------------ MODULE MCCanary ------------------------------
(* Instances of Canary for TLC.                                            *)
EXTENDS Canary, TLC

CONSTANTS s1, s2

TwoSlots   == {s1, s2}
(* Every loop, beside one that may raise.                                  *)
SomeLoops  == (s1 :> AllLoops) @@ (s2 :> {"retry"})
=============================================================================
