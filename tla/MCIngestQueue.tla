--------------------------- MODULE MCIngestQueue ---------------------------
(* Instances of IngestQueue for TLC.                                       *)
EXTENDS IngestQueue, TLC

CONSTANTS j1, j2, j3, t1, t2

OneJob     == {j1}
TwoJobs    == {j1, j2}
ThreeJobs  == {j1, j2, j3}
TwoThreads == {t1, t2}
Symmetry   == Permutations(ThreeJobs) \union Permutations(TwoThreads)
=============================================================================
