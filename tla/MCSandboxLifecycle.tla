------------------------ MODULE MCSandboxLifecycle ------------------------
(* Instance for TLC.  MCSandboxes bounds the number of sandboxes a trial   *)
(* and its successors may create.                                          *)
EXTENDS SandboxLifecycle, TLC

CONSTANTS s1, s2

MCSandboxes == {s1, s2}
=============================================================================
