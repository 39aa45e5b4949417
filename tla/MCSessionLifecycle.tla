------------------------ MODULE MCSessionLifecycle ------------------------
(* SessionLifecycle for TLC.                                               *)
EXTENDS SessionLifecycle

Fails(switches) ==
    [flush |-> "flush" \in switches, persist |-> "persist" \in switches, catalog |-> "catalog" \in switches,
     crash |-> "crash" \in switches, late |-> "late" \in switches]

\* One failure, or none.
NoFailure == {Fails({})}
FlushFailure == {Fails({"flush"})}
StoreFailure == {Fails({"persist"})}
CatalogFailure == {Fails({"flush", "catalog"})}
Everything == {Fails({"flush", "persist", "catalog", "crash"})}
Crashing == {Fails({"crash"})}
LateUpload == {Fails({"late"})}

Mixed == NoFailure \cup FlushFailure \cup StoreFailure \cup Everything

\* What the comments say of any history.
AnyLoopEnds == loop = "waiting" ~> src = "stopped" /\ loop \in {"exited", "off"}
AnyUploadReclaimed == upload = "broken" ~> Reclaimed
=============================================================================
