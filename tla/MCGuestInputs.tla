--------------------------- MODULE MCGuestInputs ----------------------------
(* Instance for TLC: one boot attempt and one experiment on an accepted    *)
(* Compose file, each with up to three slots, and two sample files.        *)
EXTENDS GuestInputs, TLC

CONSTANTS v1, v2

MCContents == {v1, v2}
MCOverlaysOf == << <<"compatibility">>, <<"accepted", "compatibility", "candidate">> >>
=============================================================================
