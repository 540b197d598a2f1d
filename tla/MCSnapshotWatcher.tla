-------------------------- MODULE MCSnapshotWatcher --------------------------
(***************************************************************************)
(* Small instances of SnapshotWatcher: two Companions, three contents.     *)
(***************************************************************************)
EXTENDS SnapshotWatcher, TLC

CONSTANTS w1, w2, a, b, c

TwoWatchers   == {w1, w2}
ThreeContents == {a, b, c}
=============================================================================
