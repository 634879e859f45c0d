--------------------------- MODULE MCStateExports ---------------------------
(* StateExports for the model checker: which exports the player and the timer start. *)
EXTENDS StateExports

ToFiles == {"download", "cache", "project"}
CacheRenewed == {"download", "cache", "diagnosis", "settings"}
CacheBuilt == {"download", "cache", "diagnosis", "building"}
NoCache == {"download", "diagnosis", "project"}
MCGames == {ToFiles, CacheRenewed, CacheBuilt, NoCache}
DownloadFirst == {{"download", "diagnosis"}}
=============================================================================
