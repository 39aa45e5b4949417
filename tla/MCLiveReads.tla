----------------------------- MODULE MCLiveReads -----------------------------
(* LiveReads for TLC: which calls are made, and the bounds, are in the .cfg. *)
EXTENDS LiveReads
=============================================================================
