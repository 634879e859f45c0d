-------------------------- MODULE MCSqlPublication --------------------------
(* One database with its seed and one further revision, two requests, one     *)
(* connection, and two epochs of the provider handle.                         *)
EXTENDS SqlPublication

CONSTANTS q1, q2, c1, seed, a

MCRequests == {q1, q2}
MCOneConnection == {c1}
MCFewRevisions == {seed, a}
MCEpochs == {1, 2}

MCHosts == {"native", "browser"}
MCNative == {"native"}
=============================================================================
