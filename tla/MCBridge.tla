------------------------------ MODULE MCBridge ------------------------------
(***************************************************************************)
(* Small instances of Bridge: one Companion profile, one guest, two        *)
(* handlers, and a clipboard of one image or of a file and a text.         *)
(***************************************************************************)
EXTENDS Bridge, TLC

CONSTANTS profile, guest, token, h1, h2

MCProfiles      == {profile}
OneToken        == [p \in MCProfiles |-> {token}]
OneGuest        == {guest}
TwoHandlers     == {h1, h2}

HandlerSymmetry == Permutations(TwoHandlers)

ImageOrFiles == {<<"image">>, <<"file", "text">>}
=============================================================================
