---------------------------- MODULE MCJobInformer ----------------------------
(***************************************************************************)
(* Instances of JobInformer for TLC.                                       *)
(***************************************************************************)
EXTENDS JobInformer, TLC

CONSTANTS b1, b2
=============================================================================
