----------------------------- MODULE MCReadBuild -----------------------------
(***************************************************************************)
(* Instances of ReadBuild for TLC.                                         *)
(***************************************************************************)
EXTENDS ReadBuild, TLC

CONSTANTS s1, s2, other

SuiteSymmetry == Permutations(Suites)
=============================================================================
