----------------------------- MODULE MCInbound ------------------------------
(***************************************************************************)
(* Small instances of Inbound: one session, two upload handlers, three     *)
(* offers and a cap of two open ones.                                      *)
(***************************************************************************)
EXTENDS Inbound, TLC

CONSTANTS p1, h1, h2, f1, f2

OneProfile  == {p1}
TwoFolders  == {f1, f2}
Shared      == [p \in Profiles |-> f1]
TwoHandlers == {h1, h2}

Interchangeable == Permutations(TwoHandlers)
=============================================================================
