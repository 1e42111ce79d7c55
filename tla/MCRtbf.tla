------------------------------- MODULE MCRtbf -------------------------------
(* Instances of Rtbf for TLC.                                              *)
EXTENDS Rtbf, TLC

CONSTANTS p1, j1, j2, e1, doc, u, v, a, b, c

OnePost  == {p1}
TwoJobs  == {j1, j2}
OneErasure == {e1}
(* All of one document; the jobs share a chunk, under two subjects.        *)
Sources  == (p1 :> doc) @@ (j1 :> doc) @@ (j2 :> doc)
Subjects == (p1 :> u) @@ (j1 :> v) @@ (j2 :> u)
ThreeTexts == (p1 :> <<b>>) @@ (j1 :> <<a, c, b>>) @@ (j2 :> <<a>>)
Targets  == e1 :> u
=============================================================================
