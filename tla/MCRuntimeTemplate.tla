------------------------- MODULE MCRuntimeTemplate -------------------------
(* Instance for TLC.  MCMaxUses stands for the limit of 128 uses: a third  *)
(* create meets it.  MCMaxCancels lets a second cancellation arrive while  *)
(* the first is still being answered.                                      *)
EXTENDS RuntimeTemplate, TLC

MCMaxUses == 2
MCMaxCancels == 2
=============================================================================
