--------------------------- MODULE MCRuntimeInput ---------------------------
(* Three waits: of continuations that end in one that stops skipping, or of   *)
(* values; the first submission may fail.                                     *)
EXTENDS RuntimeInput

MCWaits == 1..3
MCKindings ==
  {<<"enter_key", "enter_key", "stop_key">>, <<"integer_value", "integer_value", "enter_key">>}
MCHosts == {"browser", "native"}
MCFailing == {1}
=============================================================================
