------------------------------- MODULE MCSetup -------------------------------
(***************************************************************************)
(* A small instance of Setup: two agents, one of which has a file for all  *)
(* its entries, and three processes that run the profile's Companion one   *)
(* after the other.                                                        *)
(***************************************************************************)
EXTENDS Setup, TLC

CONSTANTS codex, opencode, p1, p2, p3

BothAgents == {codex, opencode}
OneFile    == {opencode}
ThreeProcs == {p1, p2, p3}
AnyKey     == BOOLEAN
Symmetry   == Permutations(ThreeProcs)
==============================================================================
