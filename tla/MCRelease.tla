----------------------------- MODULE MCRelease -----------------------------
(***************************************************************************)
(* Release for TLC: the jobs are interchangeable.                          *)
(***************************************************************************)
EXTENDS Release, TLC

Jobs == Permutations(Job)
=============================================================================
