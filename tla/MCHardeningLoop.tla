--------------------------- MODULE MCHardeningLoop ---------------------------
(* Instance for TLC.  MCFindings has more changes than the budget of eight   *)
(* experiments allows; MaxJourneys bounds the journeys of the baseline.      *)
EXTENDS HardeningLoop, TLC

F(kind, service, severity) ==
    [kind |-> kind, service |-> service, severity |-> severity]

MCFindings == {
    F("privileged", 1, 90),
    F("docker_socket_rw", 1, 100),
    F("root_user", 1, 30),
    F("root_user_possible", 2, 30),
    F("cap_add", 2, 50),
    F("cap_add", 1, 40),
    F("writable_rootfs", 1, 25),
    F("writable_rootfs", 2, 25),
    F("host_pid", 1, 70)}

MCSatisfied == {<<"add_tmpfs", 2>>}
MCTmpWriters == {1}
=============================================================================
