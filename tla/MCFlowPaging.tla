---------------------------- MODULE MCFlowPaging ----------------------------
(* FlowPaging for TLC: the bounds and the switches are set by the .cfg.    *)
EXTENDS FlowPaging
=============================================================================
