------------------------ MODULE MCProjectOperations ------------------------
(* A directory and a packaged project, three flows and two operations: a   *)
(* restart or a source fallback before, beside or after an open.           *)
EXTENDS ProjectOperations

CONSTANTS p, q

MCFlows == {"open", "restart", "source"}
MCPackaged == {q}
MCHosts == BOOLEAN
=============================================================================
