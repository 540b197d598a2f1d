---------------------------- MODULE MCMaterialize ----------------------------
(***************************************************************************)
(* Small instances of Materialize: two files of one name, asked for        *)
(* together, alone, and twice in one request.                              *)
(***************************************************************************)
EXTENDS Materialize, TLC

CONSTANTS c1, c2, c3, a, b

ThreeCalls == {c1, c2, c3}
TwoItems   == {a, b}
OneName    == [i \in Items |-> "report"]
AnyRequest == {<<a, b>>, <<b>>, <<a, a>>}
Symmetry   == Permutations(Calls)
==============================================================================
