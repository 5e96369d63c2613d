---------------------------- MODULE MCSpecChat ----------------------------
(* Model-checking instances of SpecChat: see the .cfg files. *)
EXTENDS SpecChat
===========================================================================
