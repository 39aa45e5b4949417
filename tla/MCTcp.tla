-------------------------------- MODULE MCTcp --------------------------------
(* The decode of a TCP connection for TLC, in its two layers. A behaviour     *)
(* follows one connection either below its parsers (LiveTransport: from the   *)
(* capture to the bytes of each direction) or above the cut (LiveApplication: *)
(* from those bytes, in order and each once, to flows and messages), with the *)
(* other layer done. PlaintextInOrder below is what the upper layer starts    *)
(* from: whatever the capture and the key-log did, each direction is a prefix *)
(* of what was sent, and the two are interleaved anyhow.                      *)
EXTENDS MCLiveTransport

CONSTANTS ReadAhead, MaxDecoded, MaxFlows   \* see LiveApplication

VARIABLES conn, fed, stream, ahead, parser, left, parsed, said, msgs, h2, half, loop

appVars == <<conn, fed, stream, ahead, parser, left, parsed, said, msgs, h2, half, loop>>

Scenes == INSTANCE MCLiveApplication
Parsers == INSTANCE LiveApplication WITH Conns <- Scenes!Exchanges, pc <- parser, flows <- parsed

ASSUME Parsers!ApplicationAssumption

DecodeInit ==
    \/ Init /\ Parsers!AtRest
    \/ Drained /\ Parsers!Init

DecodeNext ==
    \/ Next /\ UNCHANGED appVars
    \/ Parsers!Next /\ UNCHANGED vars

DecodeSpec ==
    /\ DecodeInit /\ [][DecodeNext]_<<vars, appVars>>
    /\ WF_vars(Work)
    /\ WF_appVars(Parsers!Parse) /\ WF_appVars(Parsers!Close) /\ WF_appVars(Parsers!Return)

\* livehttp.go, livehttp2.go and livews.go: however the goroutines of one connection
\* interleave and wherever it is cut, a flow is one exchange and says how it ended.
ExchangesWhole == Parsers!ExchangesWhole

\* Both layers finish, and what is finished loses nothing: the loops over a packet's
\* bytes end, LiveDecode returns once the capture has, with every parser drained, and a
\* flow once reported as done only grows, by a late upload or a cancelled answer.
ParsersReturn == LoopsEnd /\ Parsers!ParsersReturn /\ Parsers!DoneOnlyGrows
=============================================================================
