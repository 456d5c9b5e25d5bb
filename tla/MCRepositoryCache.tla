------------------------- MODULE MCRepositoryCache -------------------------
(* Instance for TLC: two trials, of the same or of different repositories, *)
(* and a cache with room for two entries.                                  *)
EXTENDS RepositoryCache, TLC

CONSTANTS t1, t2, k1, k2

MCTrials == {t1, t2}
MCKeys == {k1, k2}
=============================================================================
