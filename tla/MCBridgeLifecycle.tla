-------------------------- MODULE MCBridgeLifecycle --------------------------
(***************************************************************************)
(* A small instance of BridgeLifecycle: Companions of two profiles, and    *)
(* `agentclip arm`.                                                        *)
(***************************************************************************)
EXTENDS BridgeLifecycle, TLC

CONSTANTS c1, c2, arm

TwoCompanions == {c1, c2}
OneArm        == {arm}
=============================================================================
