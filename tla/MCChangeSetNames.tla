--------------------------- MODULE MCChangeSetNames ---------------------------
(***************************************************************************)
(* A small instance of ChangeSetNames: a digit that may continue a         *)
(* generation's number, and names that are cut after two characters of the *)
(* revision.                                                               *)
(***************************************************************************)
EXTENDS ChangeSetNames

==============================================================================
