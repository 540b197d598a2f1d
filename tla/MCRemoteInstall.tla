--------------------------- MODULE MCRemoteInstall ---------------------------
(***************************************************************************)
(* A small instance of RemoteInstall: two installations of the second      *)
(* release and one of the third, with any of them, an older or no          *)
(* agentclip on the server.                                                *)
(***************************************************************************)
EXTENDS RemoteInstall, TLC

CONSTANTS i1, i2, i3

ThreeInstalls == {i1, i2, i3}
TwoTags       == (i1 :> 2) @@ (i2 :> 2) @@ (i3 :> 3)
AnyVersion    == {0, 1, 2, 3}
==============================================================================
