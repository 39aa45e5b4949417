----------------------------- MODULE PushIngest -----------------------------
(***************************************************************************)
(* The pushed path: a source that decodes by itself (the mitmproxy addon)  *)
(* sends each step of a flow as a PushFlows call of its own; the gateway   *)
(* claims raw streams for a custom decoder, stores the batch, publishes it *)
(* and frames binary messages.  One coroutine per flow awaits each of its  *)
(* pushes for PUSH_TIMEOUT at most, swallows a failure and never repeats a *)
(* push; a handler is a goroutine that goes on after its client gave up.   *)
(***************************************************************************)
EXTENDS Naturals, Sequences, FiniteSets, SequencesExt, TLC

CONSTANTS
    Flows,
    Script,       \* the pushes of each flow, in the order of its hooks
    Transport,    \* "TCP", "UDP", "WS" or "HTTP" per flow
    Claimed,      \* flows of a server some registered decoder serves
    Cells,        \* frame -> its length; a cell is a header or a piece of a body
    Body,         \* frame -> what its body holds
    MaxTrouble,   \* bound: timeouts, failures, lost pushes and crashes
    None

Rows == [push : Nat, proto : {"TCP", "UDP", "WS", "HTTP", "MAX"}, outcome : BOOLEAN]
Shown == [row : Rows, count : Nat]       \* a flow as the hub has it
Cell == (DOMAIN Cells) \X Nat
Bufs == [up : Seq(Cell), down : Seq(Cell)]
States == [dec : BOOLEAN, decided : BOOLEAN, bufs : Bufs]   \* a flow's decoder and its framing

(* A flow is pushed before the frames on it: tcp_start comes before         *)
(* tcp_message, the response before websocket_message.                      *)
ASSUME PushAssumption ==
    /\ IsFiniteSet(Flows)
    /\ \A f \in Flows :
          /\ Script[f] \in Seq([what : {"flow"}, named : BOOLEAN]
                                \cup [what : {"frame"}, up : BOOLEAN, op : {"binary", "text"},
                                      cells : Seq(Cell)])
          /\ Len(Script[f]) > 0 => Script[f][1].what = "flow"
    /\ \A f \in Flows : Transport[f] \in {"TCP", "UDP", "WS", "HTTP"}
    /\ Claimed \subseteq Flows
    /\ MaxTrouble \in Nat
    /\ None \notin Nat \cup Rows \cup Shown \cup States

(* The binary cells of one direction that the first n pushes of a flow carry. *)
joined(up, acc, p) ==
    IF p.what = "frame" /\ p.up = up /\ p.op = "binary" THEN acc \o p.cells ELSE acc
chunksUpTo(f, up, n) ==
    FoldLeft(LAMBDA acc, p : joined(up, acc, p), <<>>, SubSeq(Script[f], 1, n))

(* What the peers of a claimed flow send each other is frame after frame,   *)
(* cut into chunks anywhere; and the source does not forget a name it has   *)
(* (of the host, once its hello was seen).                                  *)
FrameAfterFrame(cells) ==
    \A k \in DOMAIN cells :
        IF k = 1 \/ cells[k - 1][2] = Cells[cells[k - 1][1]] THEN cells[k][2] = 1
        ELSE cells[k] = <<cells[k - 1][1], cells[k - 1][2] + 1>>
ASSUME StreamAssumption ==
    /\ \A a \in DOMAIN Cells : Cells[a] \in Nat \ {0}
    /\ \A f \in Claimed :
          /\ \A up \in BOOLEAN : \A n \in DOMAIN Script[f] : FrameAfterFrame(chunksUpTo(f, up, n))
          /\ \A j, k \in DOMAIN Script[f] :
                j < k /\ Script[f][j].what = "flow" /\ Script[f][k].what = "flow"
                  => (Script[f][j].named => Script[f][k].named)

VARIABLES
    next, waiting,     \* the addon's coroutines: pushes begun, is one awaited
    handler,           \* the PushFlows call of each push
    hub, lives,        \* liveHub.sessions[sid]; every liveSession there was
    analysis,          \* pushAnalyses[sid]
    created,           \* analyses in the bundle
    tcpStates, wsStates,
    rows, messages,    \* the bundle
    status, counted, closing,   \* the session's row; how far finalizeSession is
    trouble, restarts,
    disturbed          \* flows a push of which was lost, timed out or failed

client == <<next, waiting>>
gateway == <<hub, lives, analysis, tcpStates, wsStates>>
bundle == <<created, rows, messages>>
session == <<status, counted, closing>>
bounds == <<trouble, restarts>>
vars == <<client, handler, gateway, bundle, session, bounds, disturbed>>

Gens == 1..(2 + MaxTrouble)
Pushes == UNION {{<<f, k>> : k \in DOMAIN Script[f]} : f \in Flows}
push(h) == Script[h[1]][h[2]]
Idle == [at |-> "none", gen |-> None, cancelled |-> FALSE, row |-> None, out |-> <<>>]
NoMessages == [f \in Flows |-> <<>>]
Empty == [flows |-> [f \in Flows |-> None], msgs |-> NoMessages, closed |-> FALSE]
Framer == [up |-> <<>>, down |-> <<>>]
Undecided == [dec |-> FALSE, decided |-> FALSE, bufs |-> Framer]

Goto(h, at) == handler' = [handler EXCEPT ![h].at = at]
End(h, at) == handler' = [handler EXCEPT ![h] = [Idle EXCEPT !.at = at]]

-----------------------------------------------------------------------------
(* The custom decoder's framing (decoders/max).  A frame is a header that   *)
(* tells its length, and a body; a header read out of the middle of a frame *)
(* tells a length that has nothing to do with it (JunkLen).                 *)
JunkLen == 3
frameLen(cell) == IF cell[2] = 1 THEN Cells[cell[1]] ELSE JunkLen

(* decodeFrame: a body that cannot be decoded is kept raw, never dropped;   *)
(* one that ran into a bound says which.                                    *)
decodeFrame(cell) ==
    LET body == Body[cell[1]] IN
    IF cell[2] # 1 THEN [frame |-> None, as |-> "raw", limit |-> None]
    ELSE [frame |-> cell[1],
          as |-> CASE body = "empty" -> "ack" [] body = "msgpack" -> "json" [] OTHER -> "raw",
          limit |-> CASE body = "bomb" -> "size" [] body = "deep" -> "depth" [] OTHER -> None]

(* Session.Feed: the frames that completed, and what is left of the buffer. *)
nextFrame(st, cell) ==
    LET buf == Append(st.buf, cell) IN
    IF Len(buf) < frameLen(buf[1]) THEN [st EXCEPT !.buf = buf]
    ELSE [buf |-> <<>>, out |-> Append(st.out, decodeFrame(buf[1]))]

fed(buf, cells) == FoldLeft(nextFrame, [buf |-> buf, out |-> <<>>], cells)
side(up) == IF up THEN "up" ELSE "down"
(* A framer with one buffer for both directions.                            *)
FeedOneBuffer(bufs, up, cells) ==
    LET res == fed(bufs.up, cells) IN [bufs |-> [bufs EXCEPT !.up = res.buf], out |-> res.out]
Feed(bufs, up, cells) ==
    LET res == fed(bufs[side(up)], cells)
    IN  [bufs |-> [bufs EXCEPT ![side(up)] = res.buf], out |-> res.out]


-----------------------------------------------------------------------------
Init ==
    /\ next = [f \in Flows |-> 0] /\ waiting = [f \in Flows |-> FALSE]
    /\ handler = [h \in Pushes |-> Idle]
    /\ hub = 1                                 \* OpenSession(FLOWS): startPassive
    /\ lives = [g \in Gens |-> Empty]
    /\ analysis = None /\ created = {}
    /\ tcpStates = [f \in Flows |-> None] /\ wsStates = [f \in Flows |-> None]
    /\ rows = [f \in Flows |-> None] /\ messages = NoMessages
    /\ status = "open" /\ counted = None /\ closing = "no"
    /\ trouble = 0 /\ restarts = 0
    /\ disturbed = {}

Trouble == trouble < MaxTrouble /\ trouble' = trouble + 1

(* The addon's hooks of one flow: _send, awaited.                           *)
Send(f) ==
    /\ ~waiting[f] /\ next[f] < Len(Script[f])
    /\ next' = [next EXCEPT ![f] = @ + 1]
    /\ waiting' = [waiting EXCEPT ![f] = TRUE]
    /\ handler' = [handler EXCEPT ![<<f, next[f] + 1>>].at = "sent"]
    /\ UNCHANGED <<gateway, bundle, session, bounds, disturbed>>

awaited(f) == <<f, next[f]>>
Ended(h) == handler[h].at \in {"done", "failed"}

(* The reply, or the error that _send logs and swallows.                    *)
Returns(f) ==
    /\ waiting[f] /\ Ended(awaited(f))
    /\ waiting' = [waiting EXCEPT ![f] = FALSE]
    /\ UNCHANGED <<next, handler, gateway, bundle, session, bounds, disturbed>>

(* The gateway cannot be reached: the batch does not arrive.                *)
Lose(f) ==
    /\ waiting[f] /\ handler[awaited(f)].at = "sent"
    /\ Trouble
    /\ Goto(awaited(f), "lost")
    /\ disturbed' = disturbed \cup {f}
    /\ UNCHANGED <<client, gateway, bundle, session, restarts>>

(* PUSH_TIMEOUT: the hook goes on; the handler's context is cancelled.      *)
TimesOut(f) ==
    /\ waiting[f] /\ ~Ended(awaited(f))
    /\ \/ handler[awaited(f)].at = "lost" /\ UNCHANGED trouble
       \/ handler[awaited(f)].at # "lost" /\ Trouble
    /\ waiting' = [waiting EXCEPT ![f] = FALSE]
    /\ handler' = [handler EXCEPT ![awaited(f)].cancelled = TRUE]
    /\ disturbed' = disturbed \cup {f}
    /\ UNCHANGED <<next, gateway, bundle, session, restarts>>

-----------------------------------------------------------------------------
(* PushFlows receives a batch: startPassive registers a live session if the *)
(* hub has none, and pushAnalysis, under pushMu, gives the session's one    *)
(* analysis.  A step between the two would tell nothing apart: neither call *)
(* looks at what the other one changes.                                     *)
freshGen == CHOOSE g \in Gens : /\ lives[g] = Empty /\ g # hub
                                /\ \A h \in Pushes : handler[h].gen # g
AfterAnalysis(h) == IF push(h).what = "flow" THEN "claim" ELSE "feed"

startPassive == hub' = IF hub = None THEN freshGen ELSE hub
newAnalysis ==
    /\ created' = created \cup {Cardinality(created) + 1}
    /\ analysis' = Cardinality(created) + 1
(* An analysis of its own for every call.                                   *)
pushAnalysisEach == newAnalysis
pushAnalysis == IF analysis = None THEN newAnalysis ELSE UNCHANGED <<analysis, created>>

Receive(h) ==
    /\ handler[h].at = "sent"
    /\ startPassive /\ pushAnalysis
    /\ handler' = [handler EXCEPT ![h].at = AfterAnalysis(h), ![h].gen = hub']
    /\ UNCHANGED <<client, lives, tcpStates, wsStates, rows, messages, session, bounds, disturbed>>

(* CreateAnalysis fails: the live session is registered all the same.       *)
ReceiveFails(h) ==
    /\ handler[h].at = "sent" /\ analysis = None
    /\ startPassive
    /\ IF handler[h].cancelled THEN UNCHANGED trouble ELSE Trouble
    /\ disturbed' = disturbed \cup {h[1]}
    /\ End(h, "failed")
    /\ UNCHANGED <<client, lives, analysis, tcpStates, wsStates, bundle, session, restarts>>

pushed(h, proto, outcome) == [push |-> h[2], proto |-> proto, outcome |-> outcome]
wireRow(h) == pushed(h, Transport[h[1]], Transport[h[1]] \in {"TCP", "UDP"})

(* claimPushedTCP: the decision is made on the first push the gateway sees  *)
(* (a decoder matches on a name the source has by then) and applied to all. *)
decision(h) == [Undecided EXCEPT !.decided = TRUE, !.dec = h[1] \in Claimed /\ push(h).named]
(* The claim applied to the push it was made on only.                       *)
ClaimOnce(h) ==
    LET f == h[1] IN
    /\ handler[h].at = "claim"
    /\ IF Transport[f] = "TCP" /\ tcpStates[f] = None
       THEN /\ tcpStates' = [tcpStates EXCEPT ![f] = decision(h)]
            /\ handler' = [handler EXCEPT ![h].at = "insert",
                               ![h].row = IF decision(h).dec THEN pushed(h, "MAX", FALSE) ELSE wireRow(h)]
       ELSE /\ UNCHANGED tcpStates
            /\ handler' = [handler EXCEPT ![h].at = "insert", ![h].row = wireRow(h)]
    /\ UNCHANGED <<client, hub, lives, analysis, wsStates, bundle, session, bounds, disturbed>>
ClaimPushedTCP(h) ==
    LET f == h[1]
        st == IF tcpStates[f] = None THEN decision(h) ELSE tcpStates[f]
    IN  /\ handler[h].at = "claim"
        /\ IF Transport[f] # "TCP" THEN UNCHANGED tcpStates
           ELSE tcpStates' = [tcpStates EXCEPT ![f] = st]
        /\ handler' = [handler EXCEPT ![h].at = "insert",
                           ![h].row = IF Transport[f] = "TCP" /\ st.dec
                                      THEN pushed(h, "MAX", FALSE) ELSE wireRow(h)]
        /\ UNCHANGED <<client, hub, lives, analysis, wsStates, bundle, session, bounds, disturbed>>

InsertFlows(h) ==
    /\ handler[h].at = "insert"
    /\ rows' = [rows EXCEPT ![h[1]] = handler[h].row]
    /\ Goto(h, "publish")
    /\ UNCHANGED <<client, gateway, created, messages, session, bounds, disturbed>>

(* liveSession.publish: a pushed flow carries no message count, so the one  *)
(* accumulated from frames is carried over.                                 *)
carried(old, new) == IF old = None THEN new ELSE [new EXCEPT !.count = old.count]
Publish(h) ==
    LET f == h[1]
        g == handler[h].gen
        pf == [row |-> handler[h].row, count |-> 0]
    IN  /\ handler[h].at = "publish"
        /\ IF lives[g].closed THEN UNCHANGED lives
           ELSE lives' = [lives EXCEPT ![g].flows[f] = carried(@, pf)]
        /\ Goto(h, "meta")
        /\ UNCHANGED <<client, hub, analysis, tcpStates, wsStates, bundle, session, bounds, disturbed>>

(* recordWSMeta: anything with messages that is not still raw TCP.          *)
RecordWSMeta(h) ==
    LET f == h[1] IN
    /\ handler[h].at = "meta"
    /\ IF wsStates[f] = None /\ Transport[f] # "HTTP" /\ handler[h].row.proto # "TCP"
       THEN wsStates' = [wsStates EXCEPT ![f] = Undecided]
       ELSE UNCHANGED wsStates
    /\ End(h, "done")
    /\ UNCHANGED <<client, hub, lives, analysis, tcpStates, bundle, session, bounds, disturbed>>

-----------------------------------------------------------------------------
(* A message: framed by the decoder that claimed the TCP flow, else by the  *)
(* one that claims the flow as a WebSocket, else stored as it came.         *)
frames(h, out) ==
    [i \in DOMAIN out |-> [push |-> h[2], up |-> push(h).up, msg |-> out[i]]]
verbatim == [frame |-> None, as |-> "verbatim", limit |-> None]
asIs(h) == frames(h, <<verbatim>>)
tcpClaims(h) == tcpStates[h[1]] # None /\ tcpStates[h[1]].dec
wsDecision(h) == [wsStates[h[1]] EXCEPT !.decided = TRUE, !.dec = IF @ THEN TRUE ELSE h[1] \in Claimed]

Decode(h) ==
    LET f == h[1]
        p == push(h)
        Framed(st) == Feed(st.bufs, p.up, p.cells)
        out(msgs) == handler' = [handler EXCEPT ![h].at = "store", ![h].out = msgs]
    IN  /\ handler[h].at = "feed"
        /\ \/ /\ p.op = "binary" /\ tcpClaims(h)
              /\ tcpStates' = [tcpStates EXCEPT ![f].bufs = Framed(tcpStates[f]).bufs]
              /\ out(frames(h, Framed(tcpStates[f]).out))
              /\ UNCHANGED wsStates
           \/ /\ p.op = "binary" /\ ~tcpClaims(h) /\ wsStates[f] # None
              /\ LET st == wsDecision(h) IN
                 IF st.dec
                 THEN /\ wsStates' = [wsStates EXCEPT ![f] = [st EXCEPT !.bufs = Framed(st).bufs]]
                      /\ out(frames(h, Framed(st).out))
                 ELSE /\ wsStates' = [wsStates EXCEPT ![f] = st]
                      /\ out(asIs(h))
              /\ UNCHANGED tcpStates
           \/ /\ p.op = "text" \/ (~tcpClaims(h) /\ wsStates[f] = None)
              /\ out(asIs(h))
              /\ UNCHANGED <<tcpStates, wsStates>>
        /\ UNCHANGED <<client, hub, lives, analysis, bundle, session, bounds, disturbed>>

InsertMessages(h) ==
    /\ handler[h].at = "store"
    /\ messages' = [messages EXCEPT ![h[1]] = @ \o handler[h].out]
    /\ IF handler[h].out = <<>> THEN End(h, "done") ELSE Goto(h, "fanout")
    /\ UNCHANGED <<client, gateway, created, rows, session, bounds, disturbed>>

(* publishMessage, once per framed message; it bumps the parent's count.    *)
bumped(old) == IF old = None THEN None ELSE [old EXCEPT !.count = @ + 1]
PublishMessage(h) ==
    LET g == handler[h].gen IN
    /\ handler[h].at = "fanout"
    /\ IF lives[g].closed THEN UNCHANGED lives
       ELSE lives' = [lives EXCEPT ![g].msgs[h[1]] = Append(@, Head(handler[h].out)),
                                   ![g].flows[h[1]] = bumped(@)]
    /\ IF Len(handler[h].out) = 1 THEN End(h, "done")
       ELSE handler' = [handler EXCEPT ![h].out = Tail(@)]
    /\ UNCHANGED <<client, hub, analysis, tcpStates, wsStates, bundle, session, bounds, disturbed>>

(* A store call fails: of itself, or because its context was cancelled.     *)
StoreFails(h) ==
    /\ handler[h].at = "insert" \/ (handler[h].at = "store" /\ handler[h].out # <<>>)
    /\ IF handler[h].cancelled THEN UNCHANGED trouble ELSE Trouble
    /\ disturbed' = disturbed \cup {h[1]}
    /\ End(h, "failed")
    /\ UNCHANGED <<client, gateway, bundle, session, restarts>>

-----------------------------------------------------------------------------
(* CloseSession of a pushed source: hub.stop, CountFlows, FinishSession.    *)
(* Nothing reads what a stopped passive session still holds.                *)
Closed == [Empty EXCEPT !.closed = TRUE]
HubStop ==
    /\ closing = "no"
    /\ lives' = IF hub = None THEN lives ELSE [lives EXCEPT ![hub] = Closed]
    /\ hub' = None
    /\ closing' = "stopped"
    /\ UNCHANGED <<client, handler, analysis, tcpStates, wsStates, bundle, status, counted, bounds, disturbed>>


stored == {f \in Flows : rows[f] # None}
CountFlows ==
    /\ closing = "stopped"
    /\ counted' = Cardinality(stored)
    /\ closing' = "counted"
    /\ UNCHANGED <<client, handler, gateway, bundle, status, bounds, disturbed>>

FinishSession ==
    /\ closing = "counted"
    /\ status' = "closed" /\ closing' = "done"
    /\ UNCHANGED <<client, handler, gateway, bundle, counted, bounds, disturbed>>

(* The gateway's process dies: calls in progress fail, its memory is gone.  *)
Restart ==
    /\ Trouble /\ closing \in {"no", "done"}
    /\ restarts' = restarts + 1
    /\ handler' = [h \in Pushes |-> IF handler[h].at \in {"none", "lost"} \/ Ended(h) THEN handler[h]
                                    ELSE [Idle EXCEPT !.at = "failed"]]
    /\ hub' = None /\ lives' = [g \in Gens |-> Empty] /\ analysis' = None
    /\ tcpStates' = [f \in Flows |-> None] /\ wsStates' = [f \in Flows |-> None]
    /\ disturbed' = disturbed \cup {f \in Flows : next[f] > 0}
    /\ UNCHANGED <<client, bundle, session>>

Handle(h) ==
    \/ Receive(h) \/ ClaimPushedTCP(h) \/ InsertFlows(h) \/ Publish(h) \/ RecordWSMeta(h)
    \/ Decode(h) \/ InsertMessages(h) \/ PublishMessage(h)

(* The addon's event loop and the gateway's goroutines go on, PUSH_TIMEOUT  *)
(* runs out, the addon's shutdown closes the session.  Nothing forces a     *)
(* loss, a failure or a crash.                                              *)
Hooks == \E f \in Flows : Send(f) \/ Returns(f) \/ TimesOut(f)
Handlers == \E h \in Pushes : Handle(h)
Closing == HubStop \/ CountFlows \/ FinishSession
Next ==
    \/ Hooks \/ Handlers \/ Closing \/ Restart
    \/ \E f \in Flows : Lose(f)
    \/ \E h \in Pushes : ReceiveFails(h) \/ StoreFails(h)

Fairness == WF_vars(Hooks) /\ WF_vars(Handlers) /\ WF_vars(Closing)

Spec == Init /\ [][Next]_vars /\ Fairness

-----------------------------------------------------------------------------
(* Types; a handler past Receive holds a live session, a flow handler  *)
(* past its claim holds the row it will store.                              *)
TypeOK ==
    /\ \A h \in Pushes :
        /\ handler[h].at \in {"none", "sent", "lost", "claim", "insert", "publish",
                              "meta", "feed", "store", "fanout", "done", "failed"}
        /\ handler[h].at \in {"claim", "insert", "publish", "meta", "feed", "store", "fanout"}
              => handler[h].gen \in Gens
        /\ handler[h].at \in {"insert", "publish", "meta"} => handler[h].row \in Rows
    /\ hub \in Gens \cup {None}
    /\ hub # None => ~lives[hub].closed
    /\ \A f \in Flows : rows[f] \in Rows \cup {None}
    /\ status = "closed" => counted \in Nat

(* However many streams a session is pushed over, one gateway process puts  *)
(* its rows under one analysis (ingest.go pushAnalysis).                    *)
OneAnalysis == Cardinality(created) <= restarts + 1

(* "Each batch is persisted to the session bundle and live-published": what *)
(* a viewer is shown of a session is in its bundle, so the detail a click   *)
(* asks for is there.                                                       *)
StoredFirst ==
    \A g \in Gens :
        /\ \A f \in Flows : lives[g].flows[f] # None => rows[f] # None
        /\ \A f \in Flows : ToSet(lives[g].msgs[f]) \subseteq ToSet(messages[f])

(* A flow that was acknowledged is in the bundle, whatever close, timeout   *)
(* or failure happened around it, since the addon does not push again; and  *)
(* while its pushes are awaited the row is that of the last one.            *)
AckedIsStored ==
    \A h \in Pushes : (handler[h].at = "done" /\ push(h).what = "flow") =>
        rows[h[1]] # None /\ (h[1] \notin disturbed => rows[h[1]].push >= h[2])

(* The frames that end among some cells, and those that are recorded.       *)
ended(acc, cell) ==
    IF cell[2] = Cells[cell[1]] THEN Append(acc, decodeFrame(<<cell[1], 1>>)) ELSE acc
wholeFrames(cells) == FoldLeft(ended, <<>>, cells)
decoded(f) == CASE Transport[f] = "TCP" -> tcpStates[f] # None /\ tcpStates[f].dec
                [] OTHER -> wsStates[f] # None /\ wsStates[f].dec
framed(up, acc, m) == IF m.up = up /\ m.msg # verbatim THEN Append(acc, m.msg) ELSE acc
recorded(f, up) == FoldLeft(LAMBDA acc, m : framed(up, acc, m), <<>>, messages[f])

(* A claimed stream's frames are recorded once each, in order and whole per *)
(* direction, however the chunks cut them, bodies that cannot be decoded    *)
(* included: "the source awaits each push, so a flow's chunks arrive in     *)
(* order and the session's framing stays in sync".                          *)
FramesWhole ==
    \A f \in Flows \ disturbed : (decoded(f) /\ ~waiting[f]) =>
        \A up \in BOOLEAN : recorded(f, up) = wholeFrames(chunksUpTo(f, up, next[f]))

(* The live message count of a flow is the number of its frames a viewer    *)
(* was sent: a re-push (websocket_end carries no count) does not reset it.  *)
LiveCountTrue ==
    \A f \in Flows \ disturbed : (closing = "no" /\ hub # None /\ lives[hub].flows[f] # None) =>
        lives[hub].flows[f].count = Len(lives[hub].msgs[f])

(* A claimed connection keeps the protocol's name and loses its undecoded   *)
(* outcome for good: no later or late push of it, and no restart, puts the  *)
(* raw row back.                                                            *)
ClaimIsKept ==
    [][\A f \in Flows : (rows[f] # None /\ rows[f].proto = "MAX")
                            => rows'[f].proto = "MAX" /\ ~rows'[f].outcome]_vars

(* What the bundle and the viewers have of a pushed session.                *)
PushesAreStored == TypeOK /\ OneAnalysis /\ StoredFirst /\ AckedIsStored /\ LiveCountTrue

(* PUSH_TIMEOUT: an unreachable gateway does not wedge a hook, so every     *)
(* flow gets to its end.                                                    *)
HooksReturn == \A f \in Flows : <>[](~waiting[f] /\ next[f] = Len(Script[f]))

(* A session whose pushes were all lost, closed: nothing here moves any     *)
(* more.                                                                    *)
AtRest ==
    /\ next = [f \in Flows |-> Len(Script[f])] /\ waiting = [f \in Flows |-> FALSE]
    /\ handler = [h \in Pushes |-> [Idle EXCEPT !.at = "lost"]]
    /\ hub = None /\ lives = [g \in Gens |-> [Empty EXCEPT !.closed = TRUE]]
    /\ analysis = None /\ created = {}
    /\ tcpStates = [f \in Flows |-> None] /\ wsStates = [f \in Flows |-> None]
    /\ rows = [f \in Flows |-> None] /\ messages = NoMessages
    /\ status = "closed" /\ counted = 0 /\ closing = "done"
    /\ trouble = MaxTrouble /\ restarts = 0
    /\ disturbed = Flows

-----------------------------------------------------------------------------
(* Statements that do not hold of this code.                                *)

(* The count a closed session shows is the number of its flows: a batch in  *)
(* flight at the close is stored after it was taken.                        *)
ClosedCountTrue == status = "closed" => counted = Cardinality(stored)

(* A closed session has no live session: a batch after the close registers  *)
(* one, and nothing removes it.                                             *)
ClosedNotLive == closing = "done" => hub = None

(* FramesWhole, also of flows a push of which timed out: the handler left   *)
(* behind and the next one feed the framer in either order.                 *)
AnyFramesWhole ==
    \A f \in Flows : (decoded(f) /\ ~waiting[f] /\ restarts = 0
                        /\ \A k \in 1..next[f] : handler[<<f, k>>].at = "done") =>
        \A up \in BOOLEAN : recorded(f, up) = wholeFrames(chunksUpTo(f, up, next[f]))

(* One analysis per session: a restarted gateway does not know of the first.*)
OneAnalysisEver == Cardinality(created) <= 1

(* The stored row is of the flow's last push.                               *)
RowIsLatest ==
    \A h \in Pushes : (handler[h].at = "done" /\ push(h).what = "flow") => rows[h[1]].push >= h[2]
=============================================================================
