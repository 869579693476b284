--------------------------- MODULE MCCommentStore ---------------------------
(***************************************************************************)
(* Instances of CommentStore for TLC.                                      *)
(***************************************************************************)
EXTENDS CommentStore, TLC

CONSTANTS b1, b2
=============================================================================
