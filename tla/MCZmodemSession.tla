--------------------------- MODULE MCZmodemSession ---------------------------
(* Small instances of ZmodemSession: the .cfg files give the bounds.        *)
EXTENDS ZmodemSession
=============================================================================
