------------------------------- MODULE MCQuic -------------------------------
(* The decode of a QUIC connection for TLC, in its two layers. A behaviour    *)
(* follows one connection either from its datagrams to the bytes of its       *)
(* streams (QuicConn) or from those to flows (LiveHttp3), with the other      *)
(* layer over. StreamsAreWhole below is what the layer above starts from:     *)
(* each stream in order and once, then its end, the streams interleaved.      *)
EXTENDS MCQuicConn

VARIABLES connection, got, fin, parsed, table, blocked, flow, closed

http3Vars == <<connection, got, fin, parsed, table, blocked, flow, closed>>

Scenes == INSTANCE MCLiveHttp3
Http3 == INSTANCE LiveHttp3 WITH Worlds <- Scenes!AllWorlds, world <- connection, over <- closed

DecodeInit ==
  \/ Init /\ Http3!AtRest
  \/ AtRest /\ Http3!Init

DecodeNext ==
  \/ Next /\ UNCHANGED http3Vars
  \/ Http3!Next /\ UNCHANGED vars

DecodeSpec == DecodeInit /\ [][DecodeNext]_<<vars, http3Vars>>

\* livequic.go and qpack.go: every header section counts once and means what its encoder
\* said, whenever its inserts arrive and however often the table turned over.
SectionsCount == Http3!SectionsCount

\* livequic.go: a body marked final is whole and decoded, whenever its encoding was
\* learnt, at linear cost; and every stream ends.
BodiesAreWhole == Http3!BodiesAreWhole
=============================================================================
