--------------------------- MODULE MCJiraWatcher ---------------------------
(***************************************************************************)
(* Instances of JiraWatcher for TLC.                                       *)
(***************************************************************************)
EXTENDS JiraWatcher, TLC

CONSTANTS i1, i2, i3, w1
=============================================================================
