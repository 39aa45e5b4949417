----------------------------- MODULE FlowFollow -----------------------------
(***************************************************************************)
(* A viewer following a live session.  Rows come from QueryFlows, their    *)
(* updates from StreamFlows (ADR-0012), and the two have to agree in the   *)
(* end.  Four actors: the hub publishing under ls.mu (live.go), the        *)
(* StreamFlows handler with its filter and resync (server.go), the wire,   *)
(* and the pane that tails the session (tui/traffic_viewer/screens.py,     *)
(* _follow_once, _ingest, _drop, _load_page).                              *)
(*                                                                         *)
(* A flow is its place in the timeline, 1..N, and its current version; a   *)
(* version matches the subscription's filter or it does not.  The pane is  *)
(* in follow mode: it queries the last page and its window holds the end.  *)
(* The query reads hub and bundle at once; LiveReads takes it apart.       *)
(***************************************************************************)
EXTENDS Naturals, Sequences, FiniteSets

CONSTANTS
    N,             \* flows of the session
    MaxVer,        \* bound: publishes per flow
    Buffer,        \* liveEventBuffer: capacity of a subscriber's channel
    Wire,          \* bound: events in flight to the viewer
    Window,        \* rows the pane holds
    MaxBreaks,     \* bound: times the connection is lost
    Worlds         \* what may happen in the histories considered

\* flips: an update may take a flow out of the filter; limited: a resync may be owed
\* within resyncEvery of the last; delayed: a page may be overtaken by events of the
\* stream; closes: the session ends.
Switches == [flips : BOOLEAN, limited : BOOLEAN, delayed : BOOLEAN, closes : BOOLEAN]

ASSUME FollowAssumption ==
    /\ N \in Nat
    /\ MaxVer \in Nat \ {0}
    /\ Buffer \in Nat \ {0}
    /\ Wire \in Nat \ {0}
    /\ Window \in Nat \ {0}
    /\ MaxBreaks \in Nat
    /\ Worlds \subseteq Switches

Flows == 1..N

VARIABLES
    world,    \* the switches of this history
    ver,      \* [Flows -> Nat] ls.flows, by version; 0: not published
    fits,     \* [Flows -> BOOLEAN] does that version match the filter?
    session,  \* the live session: "live", "removed" from the hub, "closed" and recorded
    sub,      \* the flowSub: "none", "open" or "closed"
    ch,       \* its channel
    missed,   \* its missed flag
    stream,   \* where the StreamFlows handler is
    shown,    \* the handler's set of flows this subscription was told about
    recent,   \* less than resyncEvery has passed since the last resync
    wire,     \* events sent and not yet received
    rows,     \* [Flows -> Nat] version in the pane's row; 0: no row
    order,    \* the rows on screen
    matched,  \* the pane's count
    query,    \* _load_page: "none", "asked" or "answered"
    page,     \* the answer not yet applied
    over,     \* the pane was told the session closed
    breaks    \* connections lost so far

hubVars == <<ver, fits, session>>
subVars == <<sub, ch, missed>>
streamVars == <<stream, shown, recent>>
paneVars == <<rows, order, matched>>
queryVars == <<query, page>>
pastVars == <<breaks, world>>
vars == <<hubVars, subVars, streamVars, wire, paneVars, queryVars, over, pastVars>>

FilterFlips == world.flips
RateLimited == world.limited
PageDelayed == world.delayed
SessionCloses == world.closes

\* A flow event in the hub carries the flow as published; on the wire its kind
\* says what it means to this subscription.
Event == [kind : {"flow"}, flow : Flows, ver : 1..MaxVer, fits : BOOLEAN]
OpenEvent == [kind |-> "open"]
ClosedEvent == [kind |-> "closed"]

\* The flows QueryFlows would return, the newest Window of them, and its count.
Matching == {f \in Flows : ver[f] > 0 /\ fits[f]}
Newest(S) == {f \in S : Cardinality({g \in S : g >= f}) <= Window}
Sorted(S) == [i \in 1..Cardinality(S) |->
                CHOOSE f \in S : Cardinality({g \in S : g <= f}) = i]
Page == [rows |-> [f \in Flows |-> IF f \in Newest(Matching) THEN ver[f] ELSE 0],
         order |-> Sorted(Newest(Matching)),
         matched |-> Cardinality(Matching)]
NoPage == [rows |-> [f \in Flows |-> 0], order |-> << >>, matched |-> 0]

TypeOK ==
    /\ world \in Worlds
    /\ ver \in [Flows -> 0..MaxVer]
    /\ fits \in [Flows -> BOOLEAN]
    /\ session \in {"live", "removed", "closed"}
    /\ sub \in {"none", "open", "closed"}
    /\ Len(ch) <= Buffer
    /\ \A i \in 1..Len(ch) : ch[i] \in Event \/ ch[i] = ClosedEvent
    /\ missed \in BOOLEAN
    /\ stream \in {"waiting", "found", "live", "ended", "panicked", "lost"}
    /\ shown \subseteq Flows
    /\ recent \in BOOLEAN
    /\ Len(wire) <= Wire + 1
    /\ rows \in [Flows -> 0..MaxVer]
    /\ \A i \in 1..Len(order) : rows[order[i]] > 0
    /\ matched \in Nat
    /\ query \in {"none", "asked", "answered"}
    /\ over \in BOOLEAN
    /\ breaks \in 0..MaxBreaks

\* The pane has mounted, which starts the stream, and the user has turned follow
\* on: action_follow asks for the last page, as every later query will.
Init ==
    /\ world \in Worlds
    /\ ver = [f \in Flows |-> 0]
    /\ fits = [f \in Flows |-> FALSE]
    /\ session = "live"
    /\ sub = "none"
    /\ ch = << >>
    /\ missed = FALSE
    /\ stream = "waiting"
    /\ shown = {}
    /\ recent = FALSE
    /\ wire = << >>
    /\ rows = [f \in Flows |-> 0]
    /\ order = << >>
    /\ matched = 0
    /\ query = "asked"
    /\ page = NoPage
    /\ over = FALSE
    /\ breaks = 0

-----------------------------------------------------------------------------
(* The hub.                                                                *)

\* Mutant: a full channel drops the event and nobody remembers.
sendSilently(ev) ==
    /\ ch' = IF sub = "open" /\ Len(ch) < Buffer THEN Append(ch, ev) ELSE ch
    /\ UNCHANGED missed

\* flowSub.send: queue the event, or remember that it was dropped.
send(ev) ==
    IF sub = "open" /\ Len(ch) < Buffer
       THEN ch' = Append(ch, ev) /\ UNCHANGED missed
       ELSE missed' = (missed \/ sub = "open") /\ UNCHANGED ch

\* publish: record the flow and fan the event out.  Flows appear in timeline
\* order; publishMessage re-publishes its parent flow in the same way.
Publish(f) ==
    /\ session # "closed"
    /\ ver[f] < MaxVer
    /\ f > 1 => ver[f - 1] > 0
    /\ \E m \in BOOLEAN :
        /\ ~FilterFlips /\ fits[f] => m
        /\ ver' = [ver EXCEPT ![f] = @ + 1]
        /\ fits' = [fits EXCEPT ![f] = m]
        /\ send([kind |-> "flow", flow |-> f, ver |-> ver[f] + 1, fits |-> m])
    /\ UNCHANGED <<session, sub, streamVars, wire, paneVars, queryVars, over, pastVars>>

\* hub.stop takes the session out of the hub ...
HubRemove ==
    /\ SessionCloses
    /\ session = "live"
    /\ session' = "removed"
    /\ UNCHANGED <<ver, fits, subVars, streamVars, wire, paneVars, queryVars, over, pastVars>>

\* ... and ends it: a closed event, if it fits, and the channel closed.
HubClose ==
    /\ session = "removed"
    /\ session' = "closed"
    /\ send(ClosedEvent)
    /\ sub' = IF sub = "open" THEN "closed" ELSE sub
    /\ UNCHANGED <<ver, fits, streamVars, wire, paneVars, queryVars, over, pastVars>>

-----------------------------------------------------------------------------
(* StreamFlows.                                                            *)

\* waitForLive found the live session.
WaitFound ==
    /\ stream = "waiting"
    /\ session = "live"
    /\ stream' = "found"
    /\ UNCHANGED <<hubVars, subVars, shown, recent, wire, paneVars, queryVars, over, pastVars>>

\* Mutant: the stream of a session that is over just ends.
WaitEndsMute ==
    /\ stream = "waiting"
    /\ session = "closed"
    /\ stream' = "ended"
    /\ UNCHANGED <<hubVars, subVars, shown, recent, wire, paneVars, queryVars, over, pastVars>>

\* waitForLive gave up: the session is not open any more.
WaitEnded ==
    /\ stream = "waiting"
    /\ session = "closed"
    /\ Len(wire) < Wire
    /\ wire' = Append(wire, ClosedEvent)
    /\ stream' = "ended"
    /\ UNCHANGED <<hubVars, subVars, shown, recent, paneVars, queryVars, over, pastVars>>

\* subscribe, and the event that says so.  A session that closed in between
\* gives no subscription, and the handler's next step is a nil dereference.
Subscribe ==
    /\ stream = "found"
    /\ Len(wire) < Wire
    /\ wire' = Append(wire, OpenEvent)
    /\ IF session = "closed"
          THEN stream' = "panicked" /\ UNCHANGED <<sub, ch, missed>>
          ELSE /\ stream' = "live"
               /\ sub' = "open"
               /\ ch' = << >>
               /\ missed' = FALSE
    /\ shown' = {}
    /\ recent' = FALSE
    /\ UNCHANGED <<hubVars, paneVars, queryVars, over, pastVars>>

\* What the handler tells this subscription about an event, as a sequence of at
\* most one: an addition, an update, a retraction, or nothing.
Told(ev) ==
    IF ev.kind # "flow" THEN <<ev>>
    ELSE IF ev.fits
       THEN <<[kind |-> IF ev.flow \in shown THEN "updated" ELSE "added",
               flow |-> ev.flow, ver |-> ev.ver]>>
    ELSE IF ev.flow \in shown THEN <<[kind |-> "unmatched", flow |-> ev.flow]>>
    ELSE << >>

shownAfter(ev) ==
    IF ev.kind # "flow" THEN shown
    ELSE IF ev.fits THEN shown \cup {ev.flow} ELSE shown \ {ev.flow}

\* Is a resync owed, and not too soon after the last one?
resyncDue == missed /\ ~recent

\* One event of the channel, sent on, and a resync after it if one is due.
StreamEvent ==
    /\ stream = "live"
    /\ ch # << >>
    /\ Len(wire) < Wire
    /\ wire' = wire \o Told(Head(ch)) \o (IF resyncDue THEN <<OpenEvent>> ELSE << >>)
    /\ shown' = shownAfter(Head(ch))
    /\ ch' = Tail(ch)
    /\ missed' = (missed /\ ~resyncDue)
    /\ recent' = (RateLimited /\ (recent \/ resyncDue))
    /\ UNCHANGED <<hubVars, sub, stream, paneVars, queryVars, over, pastVars>>

\* The channel is closed and drained: say why the stream ends.
StreamEnds ==
    /\ stream = "live"
    /\ ch = << >>
    /\ sub = "closed"
    /\ Len(wire) < Wire
    /\ wire' = Append(wire, ClosedEvent)
    /\ stream' = "ended"
    /\ UNCHANGED <<hubVars, subVars, shown, recent, paneVars, queryVars, over, pastVars>>

\* resyncEvery has passed.
ResyncAllowed ==
    /\ recent
    /\ recent' = FALSE
    /\ UNCHANGED <<hubVars, subVars, stream, shown, wire, paneVars, queryVars, over, pastVars>>

\* The connection is lost, with what was on it; the handler's cancel runs.
ConnectionLost ==
    /\ breaks < MaxBreaks
    /\ stream \in {"waiting", "found", "live"}
    /\ breaks' = breaks + 1
    /\ stream' = "lost"
    /\ sub' = "none"
    /\ ch' = << >>
    /\ missed' = FALSE
    /\ wire' = << >>
    /\ UNCHANGED <<hubVars, shown, recent, paneVars, queryVars, over, world>>

-----------------------------------------------------------------------------
(* The pane.                                                               *)

\* _ingest of a flow the window lacks: counted, and appended; the window slides.
Slide(f) ==
    LET longer == Append(order, f)
        kept == SubSeq(longer, 1 + (IF Len(longer) > Window THEN 1 ELSE 0), Len(longer))
    IN /\ order' = kept
       /\ rows' = [g \in Flows |->
                     IF g = f THEN wire[1].ver
                     ELSE IF \E i \in 1..Len(kept) : kept[i] = g THEN rows[g] ELSE 0]
       /\ matched' = matched + 1

\* _ingest: update a row in place; an update to a flow off the window is nothing.
Ingest ==
    /\ wire # << >>
    /\ Head(wire).kind \in {"added", "updated"}
    /\ LET f == Head(wire).flow IN
       IF rows[f] > 0
          THEN rows' = [rows EXCEPT ![f] = Head(wire).ver] /\ UNCHANGED <<order, matched>>
       ELSE IF Head(wire).kind = "updated" THEN UNCHANGED paneVars
       ELSE Slide(f)
    /\ wire' = Tail(wire)
    /\ UNCHANGED <<hubVars, subVars, streamVars, queryVars, over, pastVars>>

\* _drop: the flow left this subscription's view.
Drop ==
    /\ wire # << >>
    /\ Head(wire).kind = "unmatched"
    /\ LET f == Head(wire).flow IN
       /\ rows' = [rows EXCEPT ![f] = 0]
       /\ order' = SelectSeq(order, LAMBDA g : g # f)
       /\ matched' = IF matched > 0 THEN matched - 1 ELSE 0
    /\ wire' = Tail(wire)
    /\ UNCHANGED <<hubVars, subVars, streamVars, queryVars, over, pastVars>>

\* The subscription is live, or fell behind: query again.  The worker group is
\* exclusive, so a query still running is cancelled.
Requery ==
    /\ wire # << >>
    /\ Head(wire).kind = "open"
    /\ query' = "asked"
    /\ page' = NoPage
    /\ wire' = Tail(wire)
    /\ UNCHANGED <<hubVars, subVars, streamVars, paneVars, over, pastVars>>

\* The capture is over: no more reconnecting.
ToldClosed ==
    /\ wire # << >>
    /\ Head(wire).kind = "closed"
    /\ over' = TRUE
    /\ wire' = Tail(wire)
    /\ UNCHANGED <<hubVars, subVars, streamVars, paneVars, queryVars, pastVars>>

\* The stream ended, in whatever way: subscribe again, unless told it is over.
Resubscribe ==
    /\ stream \in {"ended", "panicked", "lost"}
    /\ wire = << >>
    /\ ~over
    /\ stream' = "waiting"
    /\ UNCHANGED <<hubVars, subVars, shown, recent, wire, paneVars, queryVars, over, pastVars>>

\* QueryFlows reads the page; _apply_page adopts it, at once or later.
QueryFlows ==
    /\ query = "asked"
    /\ IF PageDelayed
          THEN query' = "answered" /\ page' = Page /\ UNCHANGED paneVars
          ELSE /\ query' = "none"
               /\ rows' = Page.rows
               /\ order' = Page.order
               /\ matched' = Page.matched
               /\ UNCHANGED page
    /\ UNCHANGED <<hubVars, subVars, streamVars, wire, over, pastVars>>

ApplyPage ==
    /\ query = "answered"
    /\ query' = "none"
    /\ page' = NoPage
    /\ rows' = page.rows
    /\ order' = page.order
    /\ matched' = page.matched
    /\ UNCHANGED <<hubVars, subVars, streamVars, wire, over, pastVars>>

\* Nothing happens any more, in an idle session or a closed one.
Idle ==
    /\ \A f \in Flows : ver[f] = MaxVer \/ session = "closed"
    /\ ch = << >>
    /\ wire = << >>
    /\ query = "none"
    /\ over \/ stream = "live"
    /\ UNCHANGED vars

Hub == (\E f \in Flows : Publish(f)) \/ HubRemove \/ HubClose

StreamFlows ==
    \/ WaitFound
    \/ WaitEnded
    \/ Subscribe
    \/ StreamEvent
    \/ StreamEnds
    \/ ResyncAllowed
    \/ ConnectionLost

Pane ==
    \/ Ingest
    \/ Drop
    \/ Requery
    \/ ToldClosed
    \/ Resubscribe
    \/ QueryFlows
    \/ ApplyPage

Next == Hub \/ StreamFlows \/ Pane \/ Idle

Spec == Init /\ [][Next]_vars

(* The handler and the pane run while they can, time passes, and a hub.stop *)
(* that began ends.  Nothing makes flows arrive or the session close.       *)
Fairness ==
    /\ WF_vars(HubClose)
    /\ WF_vars(WaitFound)
    /\ WF_vars(WaitEnded)
    /\ WF_vars(Subscribe)
    /\ WF_vars(StreamEvent)
    /\ WF_vars(StreamEnds)
    /\ WF_vars(ResyncAllowed)
    /\ WF_vars(Ingest)
    /\ WF_vars(Drop)
    /\ WF_vars(Requery)
    /\ WF_vars(ToldClosed)
    /\ WF_vars(Resubscribe)
    /\ WF_vars(QueryFlows)
    /\ WF_vars(ApplyPage)

FairSpec == Spec /\ Fairness

-----------------------------------------------------------------------------
(* Properties.                                                              *)

\* The pane shows what the gateway would answer: the newest flows that match,
\* each at its current version, and the number of flows that match.
Agrees ==
    /\ rows = Page.rows
    /\ matched = Page.matched

\* "anything missed is picked up, and anything delivered twice is deduped by id"
\* (ADR-0012 7a): publishing is bounded here, so the pane ends up agreeing with
\* the gateway, whatever the channel dropped and the connection lost, in a session that
\* stays open, with a filter that keeps its flows and pages that are not overtaken.
Plain == ~FilterFlips /\ ~RateLimited /\ ~PageDelayed /\ ~SessionCloses
Converges == Plain => <>[]Agrees

\* "What a drop must not be is silent" (live.go:27): a dropped event is made up
\* for by a resync, unless the subscription itself ends or resyncs are too close.
DropIsMadeUpFor == ~RateLimited /\ missed ~> ~missed \/ stream # "live"

\* A viewer of a session that ends is told so, and so does not reconnect for
\* ever; subscribing at the very moment it closes included.
CloseIsTold == session = "closed" ~> over

\* The stream is never quietly incomplete: neither a full channel nor the end of
\* the session goes by without the viewer getting to know (live.go:21-44,
\* server.go:154-226).
NothingIsSilent == DropIsMadeUpFor /\ CloseIsTold

\* "The stream now always ends with a session event" (ADR-0012 7b).
EndsWithReason == stream # "panicked"

\* "a flow that stops matching is retracted" (ADR-0012 6): while the session is
\* open, no row the filter excludes stays on screen.
StaleRowRetracted ==
    \A f \in Flows : (rows[f] > 0 /\ ~fits[f]) ~> (rows[f] = 0 \/ fits[f] \/ session # "live")

=============================================================================
