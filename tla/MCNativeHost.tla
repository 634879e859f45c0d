---------------------------- MODULE MCNativeHost ----------------------------
(* Three threads, two projects, and five commands on them. *)
EXTENDS NativeHost

CONSTANTS c1, c2, c3, p, q

MCCommands == {c1, c2, c3}
MCProjects == {p, q}
=============================================================================
