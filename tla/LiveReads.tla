------------------------------ MODULE LiveReads ------------------------------
(***************************************************************************)
(* The ViewerService reads of an open session, taken apart into the steps  *)
(* other goroutines can come between (gateway/internal/server/server.go    *)
(* and query.go): each reads the session bundle first and the live hub     *)
(* second, without a lock over both, while LiveFlush's flusher moves flows *)
(* and frames from the one to the other.  StreamMessages is the exception: *)
(* it subscribes to the hub before it reads the bundle.                    *)
(*                                                                         *)
(* One call runs at a time; a call leaves nothing behind in the gateway,   *)
(* so two of them cannot meet.  Bodies are the ones above InlineBlobMax,   *)
(* of which the published proto keeps no copy of its own.                  *)
(***************************************************************************)
EXTENDS LiveFlush, SequencesExt

CONSTANTS
    ReadCalls,  \* the calls a viewer may make, of those below
    Buffer      \* liveEventBuffer: capacity of a message subscriber's channel

ReadKinds == {"GetFlow", "GetBody", "GetMessage", "QueryFlows", "ListMessages", "StreamMessages"}

ASSUME ReadAssumption ==
    /\ ReadCalls \subseteq ReadKinds
    /\ Buffer \in Nat

VARIABLES
    call,      \* the call in progress, or the last one
    at,        \* where it is
    asked,     \* the flow it names
    owed,      \* history: what was readable when the call arrived
    answer,    \* what it has gathered
    sub,       \* StreamMessages' channel: "none", "open" or "nil"
    inbox,     \* the frames in that channel
    lost,      \* history: the frames that channel had no room for
    timeline   \* the frames StreamMessages has sent, in order

readVars == <<call, at, asked, owed, answer, sub, inbox, lost, timeline>>
allVars == <<vars, readVars>>

\* hub.get finds the session until hub.stop deletes it.
registered == life = "live"

hubFrames(f) == {messages[i] : i \in {j \in 1..Len(messages) : messages[j][1] = f}}
storedFrames(f) == {m \in saved : m[1] = f}

ReadTypeOK ==
    /\ call \in ReadCalls \cup {"none"}
    /\ at \in {"start", "asking", "hub", "found", "alone", "subscribed", "following", "answered"}
    /\ asked \in Flows
    /\ owed \subseteq Flows \cup Frame
    /\ answer \subseteq Flows \cup Frame
    /\ sub \in {"none", "open", "nil"}
    /\ inbox \in Seq(Frame)
    /\ Len(inbox) <= Buffer
    /\ lost \subseteq Frame
    /\ timeline \in Seq(1..MaxFrames)

ReadInit ==
    /\ Init
    /\ call = "none"
    /\ at = "start"
    /\ asked \in Flows
    /\ owed = {}
    /\ answer = {}
    /\ sub = "none"
    /\ inbox = << >>
    /\ lost = {}
    /\ timeline = << >>

\* A body of the flow can be read: the hub or the bundle has bytes of it.
Readable(f) == flows[f] > 0 /\ (dflows[f].body > 0 \/ row[f].body > 0)

\* What a viewer knows of when it calls: flows and frames already published.
Owed(c) ==
    CASE c = "GetFlow" -> {f \in {asked} : flows[f] > 0}
      [] c = "GetBody" -> {f \in {asked} : Readable(f)}
      [] c = "GetMessage" -> {<<asked, k>> : k \in 1..(IF frames[asked] > 0 THEN 1 ELSE 0)}
      [] c = "QueryFlows" -> {f \in Flows : flows[f] > 0}
      [] OTHER -> {<<asked, k>> : k \in 1..frames[asked]}

Call ==
    /\ at = "start"
    /\ \E c \in ReadCalls : call' = c /\ owed' = Owed(c)
    /\ at' = "asking"
    /\ UNCHANGED <<vars, asked, answer, sub, inbox, lost, timeline>>

-----------------------------------------------------------------------------
(* The unary reads: the bundle, then the hub.                              *)

\* What the bundle answers, by call.
FromStore ==
    CASE call = "GetFlow" -> {f \in {asked} : row[f].ver > 0}
      [] call = "GetBody" -> {f \in {asked} : row[f].body > 0}
      [] call = "GetMessage" -> {<<asked, 1>>} \cap saved
      [] call = "QueryFlows" -> {f \in Flows : row[f].ver > 0}
      [] OTHER -> storedFrames(asked)

\* Does the handler look at the hub as well?  QueryFlows always merges the tail;
\* the others ask the hub only if the bundle had nothing.
AsksHub == call = "QueryFlows" \/ FromStore = {}

ReadStore ==
    /\ at = "asking"
    /\ call # "StreamMessages"
    /\ answer' = FromStore
    /\ at' = IF AsksHub THEN "hub" ELSE "answered"
    /\ UNCHANGED <<vars, call, asked, owed, sub, inbox, lost, timeline>>

\* Mutant: liveFlow asks only for flows the flusher has not written.
liveFlowUnwritten(f) == f \in unflushedFlows

\* ls.flow, through liveFlow: any published flow, written or not.
liveFlow(f) == flows[f] > 0

\* ls.bodyBytes: the retained snapshot's bytes, if it still has them.
bodyBytes(f) == flows[f] > 0 /\ dflows[f].body > 0

\* What the hub answers, by call.
FromHub ==
    CASE call = "GetFlow" -> {f \in {asked} : liveFlow(f)}
      [] call = "GetBody" -> {f \in {asked} : bodyBytes(f)}
      [] call = "GetMessage" -> {<<asked, 1>>} \cap hubFrames(asked)
      [] call = "QueryFlows" -> unflushedFlows
      [] OTHER -> hubFrames(asked)

ReadHub ==
    /\ at = "hub"
    /\ answer' = answer \cup (IF registered THEN FromHub ELSE {})
    /\ at' = "answered"
    /\ UNCHANGED <<vars, call, asked, owed, sub, inbox, lost, timeline>>

-----------------------------------------------------------------------------
(* StreamMessages, with follow.                                            *)

\* waitForLive: the live session, or nothing once the session is not open any
\* more.  A session that could not be recorded stays open and is waited for.
WaitForLive ==
    /\ call = "StreamMessages"
    /\ at = "asking"
    /\ \/ registered /\ at' = "found"
       \/ life = "recorded" /\ at' = "alone"
    /\ UNCHANGED <<vars, call, asked, owed, answer, sub, inbox, lost, timeline>>

\* The frames of the flow the hub holds at the moment of the subscription.
snapshot(f) == hubFrames(f)

\* subscribeMessages: a closed session gives no snapshot and a nil channel.
SubscribeMessages ==
    /\ at = "found"
    /\ at' = "subscribed"
    /\ IF closed
          THEN sub' = "nil" /\ UNCHANGED answer
          ELSE sub' = "open" /\ answer' = snapshot(asked)
    /\ UNCHANGED <<vars, call, asked, owed, inbox, lost, timeline>>

\* A set of frames of one flow, in the order of their numbers, after the numbers
\* of s; ListMessages sorts by time and frame, the snapshot is in that order.
InOrder(s, fs) ==
    LET ks == {m[2] : m \in fs} IN
    s \o [i \in 1..Cardinality(ks) |-> CHOOSE k \in ks : Cardinality({j \in ks : j <= k}) = i]

\* Backfill: the bundle's frames, then those of the snapshot not sent yet.
Backfill ==
    /\ at \in {"subscribed", "alone"}
    /\ timeline' = InOrder(InOrder(<< >>, storedFrames(asked)), answer \ storedFrames(asked))
    /\ at' = IF at = "alone" THEN "answered" ELSE "following"
    /\ UNCHANGED <<vars, call, asked, owed, answer, sub, inbox, lost>>

\* Has this frame not been sent?
isNew(k) == \A i \in 1..Len(timeline) : timeline[i] # k

\* One frame of the channel; other flows share it.
Forward ==
    /\ at = "following"
    /\ inbox # << >>
    /\ LET m == Head(inbox) IN
       timeline' = IF m[1] = asked /\ isNew(m[2]) THEN Append(timeline, m[2]) ELSE timeline
    /\ inbox' = Tail(inbox)
    /\ UNCHANGED <<vars, call, at, asked, owed, answer, sub, lost>>

\* Mutant: a closed session ends the stream, whatever is still in the channel.
EndAtOnce ==
    /\ at = "following"
    /\ sub = "open" /\ closed
    /\ at' = "answered"
    /\ UNCHANGED <<vars, call, asked, owed, answer, sub, inbox, lost, timeline>>

\* hub.stop closed the channel, and it is drained: say so and return.  A nil
\* channel is never closed.
EndOfStream ==
    /\ at = "following"
    /\ inbox = << >>
    /\ sub = "open" /\ closed
    /\ at' = "answered"
    /\ UNCHANGED <<vars, call, asked, owed, answer, sub, inbox, lost, timeline>>

\* A frame is published to an open subscription.
Published == sub = "open" /\ Len(messages') > Len(messages)

\* publishMessage hands a new frame to the subscriber, or drops it.
FanOut ==
    IF Published /\ Len(inbox) < Buffer
       THEN inbox' = Append(inbox, Last(messages')) /\ UNCHANGED lost
       ELSE /\ UNCHANGED inbox
            /\ lost' = IF Published THEN lost \cup {Last(messages')} ELSE lost

-----------------------------------------------------------------------------
Gateway ==
    /\ Next
    /\ FanOut
    /\ UNCHANGED <<call, at, asked, owed, answer, sub, timeline>>

Reader ==
    \/ Call
    \/ ReadStore
    \/ ReadHub
    \/ WaitForLive
    \/ SubscribeMessages
    \/ Backfill
    \/ Forward
    \/ EndOfStream

ReadNext == Gateway \/ Reader

ReadSpec == ReadInit /\ [][ReadNext]_allVars

(* A handler that can go on does, and so do LiveFlush's goroutines.         *)
ReadFairSpec ==
    /\ ReadSpec
    /\ Fairness
    /\ WF_allVars(SubscribeMessages)
    /\ WF_allVars(Backfill)
    /\ WF_allVars(Forward)
    /\ WF_allVars(EndOfStream)

-----------------------------------------------------------------------------
(* Properties.                                                              *)

\* A call that ran while the session was live answers what it owed.
Complete(c) == call = c /\ at = "answered" /\ registered => owed \subseteq answer

\* A flow a viewer has seen can be fetched while the session is live, however
\* the flusher moves it: it is written before the hub calls it written, and the
\* hub keeps its proto for good (server.go:63-95).
FlowFound == Complete("GetFlow")

\* "moving a flow's bytes to disk is invisible to readers: a body whose ref is
\* still NULL (or a frame not yet written) is found in the hub" (flush.go:7-9).
BytesFound == Complete("GetBody") /\ Complete("GetMessage")

\* QueryFlows' page is "the stored result merged with the unflushed tail"
\* (query.go:52-54): together they hold every flow published before the call.
PageComplete == Complete("QueryFlows")

\* ListMessages answers from "the stored frames and the live tail"
\* (server.go:298-299).
ListComplete == Complete("ListMessages")

\* The frames 1..n of the flow, without the ones the channel had no room for.
Sendable(n) == {k \in 1..n : <<asked, k>> \notin lost}
Sent == {timeline[i] : i \in 1..Len(timeline)}

\* "a frame the flusher moves from the hub to the bundle mid-read lands in one of
\* the two rather than falling between them" and a duplicate is dropped
\* (server.go:369-372): frames are sent in order, each once, and no frame is
\* passed over but one that a full channel dropped.
TimelineInOrder ==
    \A i \in 1..Len(timeline) :
        /\ \A j \in 1..(i - 1) : timeline[j] < timeline[i]
        /\ Sendable(timeline[i]) \subseteq Sent

\* The last frames of a session reach its followers: a stream that ended by
\* itself has sent every frame the session accepted and the channel took.
TimelineComplete ==
    call = "StreamMessages" /\ at = "answered" => Sendable(frames[asked]) \subseteq Sent

\* What a follower of a flow's frames gets, backfill and live part together, is the
\* flow's timeline without the frames the channel dropped, at the end of the
\* stream and at every moment before it (server.go:345-436, live.go:453-510).
TimelineIsFaithful == ReadTypeOK /\ TimelineInOrder /\ TimelineComplete

\* "streams newly decoded frames until the session closes" (server.go:345-347):
\* following a session that is over ends.
FollowerEnds == at = "following" /\ life = "closed" ~> at = "answered"

=============================================================================
