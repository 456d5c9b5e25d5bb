----------------------------- MODULE MCRunGraph -----------------------------
(* Instances for TLC: one service with a change that is kept, rolled back or *)
(* followed up, and one whose first change is a no-op.                       *)
EXTENDS RunGraph, TLC

F(kind, service, severity) ==
    [kind |-> kind, service |-> service, severity |-> severity]

MCFindings == {F("root_user", 1, 30), F("writable_rootfs", 1, 25)}
MCSatisfied == {}
MCTmpWriters == {1}
MCPlans == {0, 1}

\* A service that runs as root, which its Compose file already lets drop all
\* capabilities, and that has a writable root filesystem.
MCFindingsCaps == {F("root_user_possible", 1, 30), F("writable_rootfs", 1, 25)}
MCSatisfiedCaps == {<<"drop_all_caps", 1>>}
=============================================================================
