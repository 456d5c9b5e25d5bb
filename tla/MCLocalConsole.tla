--------------------------- MODULE MCLocalConsole ---------------------------
(* Instance for TLC: two jobs, of which the history keeps one.             *)
EXTENDS LocalConsole, TLC

CONSTANTS j1, j2

MCJobs == {j1, j2}
=============================================================================
