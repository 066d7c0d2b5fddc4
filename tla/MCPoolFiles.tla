----------------------------- MODULE MCPoolFiles ----------------------------
(* PoolFiles for TLC: the sets of its configuration.                       *)
EXTENDS PoolFiles

CONSTANTS p1, p2, j1, j2

TwoSups  == {p1, p2}
TwoJobs  == {j1, j2}
OneSup   == {p1}
=============================================================================
