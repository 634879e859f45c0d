------------------------- MODULE MCProjectSettings -------------------------
(* ProjectSettings for the model checker. *)
EXTENDS ProjectSettings

Both == {TRUE, FALSE}
OnlyTrue == {TRUE}
OnlyFalse == {FALSE}
=============================================================================
