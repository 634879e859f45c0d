------------------------ MODULE MCSessionTransitions ------------------------
(* The pump with the store's operations, on small sets of tasks. *)
EXTENDS SessionTransitions

CONSTANTS l1, r1, s1, o1, o2

MCLoops == {l1}
MCResponses == {r1}
MCSkips == {s1}
MCOneOperation == {o1}
MCOperations == {o1, o2}
MCNone == {}
=============================================================================
