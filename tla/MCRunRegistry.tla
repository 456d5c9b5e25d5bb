--------------------------- MODULE MCRunRegistry ---------------------------
(* Instance for TLC: two requests and a service that is started twice.     *)
EXTENDS RunRegistry, TLC

CONSTANTS r1, r2

MCRuns == {r1, r2}
=============================================================================
