---------------------------- MODULE MCLiveFlush ----------------------------
(* LiveFlush for TLC: the bounds and the switches are set by the .cfg.     *)
EXTENDS LiveFlush
=============================================================================
