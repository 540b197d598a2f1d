---------------------------- MODULE MCSelfUpgrade ----------------------------
(***************************************************************************)
(* Small instances of SelfUpgrade: two saved profiles.                     *)
(***************************************************************************)
EXTENDS SelfUpgrade, TLC

CONSTANTS p1, p2

TwoProfiles == {p1, p2}
=============================================================================
