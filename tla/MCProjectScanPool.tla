------------------------- MODULE MCProjectScanPool -------------------------
(* Two workers and four requests: two are queued behind the running two.  *)
EXTENDS ProjectScanPool

MCHosts == BOOLEAN
=============================================================================
