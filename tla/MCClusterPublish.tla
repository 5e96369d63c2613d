------------------------- MODULE MCClusterPublish -------------------------
(* Model-checking instances of ClusterPublish: see the .cfg files. *)
EXTENDS ClusterPublish
===========================================================================
