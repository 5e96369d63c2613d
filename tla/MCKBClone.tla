---------------------------- MODULE MCKBClone ----------------------------
(* KBClone for TLC; its constants are numbers the .cfg files give. *)
EXTENDS KBClone
=============================================================================
