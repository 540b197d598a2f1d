--------------------------- MODULE MCProfileStart ---------------------------
(***************************************************************************)
(* Small instances of ProfileStart: three processes of one profile.        *)
(***************************************************************************)
EXTENDS ProfileStart, TLC

CONSTANTS c1, c2, c3

ThreeCompanions == {c1, c2, c3}
=============================================================================
