----------------------------- MODULE MCPushIngest -----------------------------
(* A claimed TCP stream whose frames are cut across chunks and directions,     *)
(* re-pushed at its end, and a WebSocket; and beside the pushes, the judgement *)
(* of one frame's body (MaxFrames), which the pushed path takes from its       *)
(* decoder as one step: a behaviour follows the pushes or the frame.           *)
EXTENDS PushIngest

CONSTANTS
    tcp, ws,
    MaxInput, MaxTokens, MaxCopies, Cap, MaxBody, MaxDepth, Offsets   \* see MaxFrames

VARIABLES frame, at, src, out, body, off, i, stack, deep, result

codecVars == <<frame, at, src, out, body, off, i, stack, deep, result>>

Codec == INSTANCE MaxFrames

ASSUME Codec!CodecAssumption

\* The host name is known from the first push; theorem ClaimsKept is about any script.
flow == [what |-> "flow", named |-> TRUE]
chunk(up, op, cells) == [what |-> "frame", up |-> up, op |-> op, cells |-> cells]
MCScript ==
    (tcp :> <<flow, chunk(TRUE, "binary", << <<"a", 1>> >>),
              chunk(FALSE, "binary", << <<"c", 1>>, <<"b", 1>> >>), flow>>)
    @@ (ws :> <<flow, chunk(FALSE, "binary", << <<"b", 1>> >>),
                chunk(FALSE, "binary", << <<"b", 2>>, <<"c", 1>> >>)>>)
MCTransport == (tcp :> "TCP") @@ (ws :> "WS")
MCCells == [a |-> 2, b |-> 2, c |-> 1]
MCBody == [a |-> "msgpack", b |-> "bomb", c |-> "empty"]

PushInit ==
    \/ Init /\ Codec!AtRest
    \/ AtRest /\ Codec!Init

PushNext ==
    \/ Next /\ UNCHANGED codecVars
    \/ Codec!Next /\ UNCHANGED vars

PushSpec == PushInit /\ [][PushNext]_<<vars, codecVars>>
PushFairSpec == PushSpec /\ Fairness

\* max.go: decompression and the walk of a body, on every small input.
FramesAreJudged == Codec!FramesAreJudged

\* What no step does: give a claimed connection its raw row back, or copy a match that
\* overlaps its own output as a block.
StepsKeep == ClaimIsKept /\ Codec!MatchesRepeat
===============================================================================
