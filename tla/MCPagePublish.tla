--------------------------- MODULE MCPagePublish ---------------------------
(* PagePublish with a page of one machine block, one editorial block whose *)
(* provenance covers the spec only, and one whose provenance covers the kb *)
(* entry.                                                                  *)
EXTENDS PagePublish
=============================================================================
