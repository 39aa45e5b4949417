-------------------------- MODULE MCCaptureSources --------------------------
(* CaptureSources for TLC: a source served by another one, or a module.    *)
EXTENDS CaptureSources

MCServedBy == [s \in Builtin |-> "android"]
MCModuleServices == [k \in Dialed |-> <<"web">>]
MCInstalls == {{"android"}, {"acme"}}
=============================================================================
