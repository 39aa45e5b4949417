-------------------------- MODULE PushIngestProofs --------------------------
(* That what was acknowledged of a pushed session is stored, what is shown   *)
(* of it was stored first, the counts are right, a claimed connection keeps  *)
(* its row for good, and a claimed flow whose pushes are answered has its    *)
(* frames recorded whole, once each and in order: for any flows and scripts, *)
(* however chunks cut the frames, and any number of timeouts, failures, lost *)
(* pushes and crashes.                                                       *)
EXTENDS PushIngest, FiniteSetTheorems, SequenceTheorems, TLAPS

-----------------------------------------------------------------------------
(* The framer.                                                               *)

Outs == [frame : (DOMAIN Cells) \cup {None}, as : {"raw", "ack", "json", "verbatim"},
         limit : {"size", "depth", None}]
Framing == [buf : Seq(Cell), out : Seq(Outs)]

\* One cell is fed.
LEMMA NextFrameType ==
    ASSUME NEW st \in Framing, NEW cell \in Cell
    PROVE  nextFrame(st, cell) \in Framing
<1> DEFINE buf == Append(st.buf, cell)
<1>1. buf \in Seq(Cell) /\ Len(buf) > 0 /\ st.out \in Seq(Outs)
  BY DEF Framing
<1>2. buf[1] \in Cell
  BY <1>1
<1>3. decodeFrame(buf[1]) \in Outs
  <2> HIDE DEF buf
  <2> QED BY <1>2 DEF decodeFrame, Outs, Cell
<1>4. Append(st.out, decodeFrame(buf[1])) \in Seq(Outs)
  BY <1>1, <1>3
<1>5. [st EXCEPT !.buf = buf] \in Framing
  <2> HIDE DEF buf
  <2> QED BY <1>1 DEF Framing
<1>6. [buf |-> << >>, out |-> Append(st.out, decodeFrame(buf[1]))] \in Framing
  BY <1>4, EmptySeq DEF Framing
<1>7. nextFrame(st, cell) \in
        {[st EXCEPT !.buf = buf], [buf |-> << >>, out |-> Append(st.out, decodeFrame(buf[1]))]}
  BY DEF nextFrame
<1> QED BY ONLY <1>5, <1>6, <1>7

\* Whatever cells are fed, what comes out is a sequence of frames.
IsFraming(c, k, st) == st \in Framing
Feeding == INSTANCE FoldFacts WITH Op <- LAMBDA c, st, cell : nextFrame(st, cell), Inv <- IsFraming

\* The framer's work on a chunk is a fold over its cells.
LEMMA FedIsFold ==
    ASSUME NEW buf, NEW cells
    PROVE  fed(buf, cells) = Feeding!Fold(0, [buf |-> buf, out |-> << >>], cells)
  BY DEF fed, Feeding!Fold, Feeding!Top, FoldLeft, MapThenFoldSet, Max

\* A framer stays one.
LEMMA FedType ==
    ASSUME NEW buf \in Seq(Cell), NEW cells \in Seq(Cell)
    PROVE  fed(buf, cells) \in Framing
<1> DEFINE base == [buf |-> buf, out |-> << >>]
<1>1. IsFraming(0, 0, base)
  BY EmptySeq DEF IsFraming, Framing
<1>2. \A k \in 1..Len(cells) : \A st :
        IsFraming(0, k - 1, st) => IsFraming(0, k, nextFrame(st, cells[k]))
  BY NextFrameType, ElementOfSeq DEF IsFraming
<1> HIDE DEF base
<1>3. IsFraming(0, Len(cells), Feeding!Fold(0, base, cells))
  BY <1>1, <1>2, Feeding!FoldKeeps
<1> QED BY <1>3, FedIsFold DEF IsFraming, base

-----------------------------------------------------------------------------
(* Types.                                                                    *)

Steps == {"none", "sent", "lost", "claim", "insert", "publish", "meta", "feed", "store", "fanout",
          "done", "failed"}
FlowSteps == {"claim", "insert", "publish", "meta"}
FrameSteps == {"feed", "store", "fanout"}
Msgs == [push : Nat, up : BOOLEAN, msg : Outs]
Live == [flows : [Flows -> Shown \cup {None}], msgs : [Flows -> Seq(Msgs)], closed : BOOLEAN]
Call == [at : Steps, gen : Gens \cup {None}, cancelled : BOOLEAN, row : Rows \cup {None},
         out : Seq(Msgs)]

ClientTypes == next \in [Flows -> Nat] /\ waiting \in [Flows -> BOOLEAN]
GatewayTypes ==
    /\ hub \in Gens \cup {None}
    /\ lives \in [Gens -> Live]
    /\ tcpStates \in [Flows -> States \cup {None}]
    /\ wsStates \in [Flows -> States \cup {None}]
BundleTypes ==
    /\ rows \in [Flows -> Rows \cup {None}]
    /\ messages \in [Flows -> Seq(Msgs)]
    /\ closing \in {"no", "stopped", "counted", "done"} /\ status \in {"open", "closed"}
    /\ disturbed \subseteq Flows

\* A call has a live session while it is inside the gateway, works on what its push is
\* about, has its row from the claim on and a message left to show in the fan-out.
CallOK(h) ==
    /\ handler[h].at \in FlowSteps \cup FrameSteps <=> handler[h].gen # None
    /\ handler[h].at \in FlowSteps => push(h).what = "flow"
    /\ handler[h].at \in FrameSteps => push(h).what = "frame"
    /\ handler[h].at \in {"insert", "publish", "meta"} =>
          handler[h].row \in Rows /\ handler[h].row.push = h[2]
    /\ handler[h].at = "fanout" => handler[h].out # << >>

TypeInv ==
    /\ ClientTypes /\ GatewayTypes /\ BundleTypes
    /\ handler \in [Pushes -> Call]
    /\ \A h \in Pushes : CallOK(h)

\* The absent value is no number and no row.
LEMMA NoneIsNone ==
    /\ None \notin Nat /\ None \notin Rows /\ None \notin Shown /\ None \notin Gens
    /\ None \notin States
<1>1. None \notin Nat \cup Rows \cup Shown \cup States /\ Gens \subseteq Nat
  BY PushAssumption DEF Gens
<1> QED BY ONLY <1>1

\* What a push is.
LEMMA PushFacts ==
    ASSUME NEW h \in Pushes
    PROVE  /\ h[1] \in Flows /\ h[2] \in 1..Len(Script[h[1]]) /\ h[2] \in Nat /\ h = <<h[1], h[2]>>
           /\ \/ push(h).what = "flow" /\ push(h).named \in BOOLEAN
              \/ /\ push(h).what = "frame" /\ push(h).up \in BOOLEAN
                 /\ push(h).op \in {"binary", "text"} /\ push(h).cells \in Seq(Cell)
           /\ h[2] = 1 => push(h).what = "flow"
<1>1. PICK f \in Flows : \E k \in DOMAIN Script[f] : h = <<f, k>>
  BY DEF Pushes
<1>2. PICK k \in DOMAIN Script[f] : h = <<f, k>>
  BY <1>1
<1> DEFINE P == [what : {"flow"}, named : BOOLEAN]
                  \cup [what : {"frame"}, up : BOOLEAN, op : {"binary", "text"}, cells : Seq(Cell)]
<1>3. Script[f] \in Seq(P) /\ (Len(Script[f]) > 0 => Script[f][1].what = "flow")
  BY PushAssumption
<1>4. DOMAIN Script[f] = 1..Len(Script[f]) /\ Len(Script[f]) \in Nat
  <2> HIDE DEF P
  <2> QED BY <1>3, LenProperties
<1>5. k \in 1..Len(Script[f]) /\ k \in Nat /\ Len(Script[f]) > 0
  BY <1>4
<1>6. Script[f][k] \in P
  <2> HIDE DEF P
  <2> QED BY <1>3, <1>5, ElementOfSeq
<1>7. push(h) = Script[f][k] /\ h[1] = f /\ h[2] = k
  BY <1>2 DEF push
<1>8. \/ push(h).what = "flow" /\ push(h).named \in BOOLEAN
      \/ /\ push(h).what = "frame" /\ push(h).up \in BOOLEAN
         /\ push(h).op \in {"binary", "text"} /\ push(h).cells \in Seq(Cell)
  BY <1>6, <1>7
<1> QED BY <1>2, <1>3, <1>5, <1>7, <1>8

\* The push that is awaited of a flow that has one.
LEMMA AwaitedFacts ==
    ASSUME NEW f \in Flows, NEW k \in 1..Len(Script[f])
    PROVE  <<f, k>> \in Pushes /\ <<f, k>>[1] = f /\ <<f, k>>[2] = k
  BY PushAssumption, LenProperties DEF Pushes

\* A step of one call, or of none.
Others(h) == \A q \in Pushes : q # h => handler'[q] = handler[q]

\* Types of what one step of a call leaves.
LEMMA CallStep ==
    ASSUME handler \in [Pushes -> Call], NEW h \in Pushes, NEW c \in Call,
           \A q \in Pushes : CallOK(q),
           handler' = [handler EXCEPT ![h] = c],
           c.at \in FlowSteps \cup FrameSteps <=> c.gen # None,
           c.at \in FlowSteps => push(h).what = "flow",
           c.at \in FrameSteps => push(h).what = "frame",
           c.at \in {"insert", "publish", "meta"} => c.row \in Rows /\ c.row.push = h[2],
           c.at = "fanout" => c.out # << >>
    PROVE  handler' \in [Pushes -> Call] /\ \A q \in Pushes : CallOK(q)'
<1>1. handler' \in [Pushes -> Call] /\ handler'[h] = c /\ Others(h)
  BY DEF Others
<1>2. CallOK(h)'
  BY <1>1 DEF CallOK
<1> QED BY <1>1, <1>2 DEF CallOK, Others

\* A call that is over, or not begun, holds nothing.
LEMMA IdleType ==
    \A at \in Steps : [Idle EXCEPT !.at = at] \in Call
  BY EmptySeq DEF Idle, Call

\* A call ends, and its client will be told.
LEMMA EndStep ==
    ASSUME TypeInv, NEW h \in Pushes, NEW at \in {"done", "failed"}, End(h, at)
    PROVE  /\ handler' \in [Pushes -> Call] /\ \A q \in Pushes : CallOK(q)'
           /\ handler'[h].at = at /\ handler'[h].gen = None /\ Others(h)
<1> DEFINE c == [Idle EXCEPT !.at = at]
<1>1. c \in Call /\ c.at = at /\ c.gen = None
  BY IdleType DEF Steps, Idle
<1>2. handler' = [handler EXCEPT ![h] = c]
  BY DEF End
<1> HIDE DEF c
<1>3. at \notin FlowSteps \cup FrameSteps
  BY DEF FlowSteps, FrameSteps
<1> QED BY <1>1, <1>2, <1>3, CallStep DEF TypeInv, Others

\* A call goes on to a step of the same part of its work.
LEMMA GotoStep ==
    ASSUME TypeInv, NEW h \in Pushes, NEW at \in Steps, Goto(h, at),
           \/ handler[h].at \in {"none", "sent"} /\ at \in {"sent", "lost"}
           \/ handler[h].at = "insert" /\ at = "publish"
           \/ handler[h].at = "publish" /\ at = "meta"
           \/ handler[h].at = "store" /\ at = "fanout" /\ handler[h].out # << >>
    PROVE  /\ handler' \in [Pushes -> Call] /\ \A q \in Pushes : CallOK(q)'
           /\ handler'[h] = [handler[h] EXCEPT !.at = at] /\ Others(h)
<1> DEFINE c == [handler[h] EXCEPT !.at = at]
<1>1. handler' = [handler EXCEPT ![h] = c]
  BY DEF Goto
<1>2. handler[h] \in Call /\ CallOK(h)
  BY DEF TypeInv
<1>3. c \in Call /\ c.at = at /\ c.gen = handler[h].gen /\ c.row = handler[h].row
      /\ c.out = handler[h].out
  BY <1>2 DEF Call
<1> HIDE DEF c
<1>4. /\ c.at \in FlowSteps \cup FrameSteps <=> c.gen # None
      /\ c.at \in FlowSteps => push(h).what = "flow"
      /\ c.at \in FrameSteps => push(h).what = "frame"
      /\ c.at \in {"insert", "publish", "meta"} => c.row \in Rows /\ c.row.push = h[2]
      /\ c.at = "fanout" => c.out # << >>
  BY <1>2, <1>3 DEF CallOK, FlowSteps, FrameSteps
<1> QED BY <1>1, <1>3, <1>4, CallStep DEF TypeInv, Others, c

-----------------------------------------------------------------------------
(* Who waits for what, and which live session is whose.                      *)

\* A flow's pushes begin one after the other; the steps of one that was not disturbed
\* are over when the next begins.
Begun(f, k) ==
    /\ k > next[f] => handler[<<f, k>>].at = "none"
    /\ (f \notin disturbed /\ k <= next[f]) =>
          /\ handler[<<f, k>>].at \notin {"none", "lost", "failed"}
          /\ (k < next[f] \/ ~waiting[f]) => handler[<<f, k>>].at = "done"
Awaits ==
    \A f \in Flows :
        /\ next[f] \in 0..Len(Script[f]) /\ (waiting[f] => next[f] > 0)
        /\ \A k \in 1..Len(Script[f]) : Begun(f, k)

Used(g) == lives[g] # Empty \/ \E h \in Pushes : handler[h].gen = g

\* Before the close there is one live session, if any; of those there were, one at most
\* is still in anybody's hands.
OneLive ==
    /\ hub # None => ~lives[hub].closed
    /\ closing = "no" => \A g \in Gens : Used(g) => g = hub
    /\ hub = None => \A a, b \in Gens : Used(a) /\ Used(b) => a = b

\* One gateway process makes one analysis.
Analyses ==
    /\ restarts \in Nat /\ IsFiniteSet(created) /\ created \subseteq Nat
    /\ Cardinality(created) <= restarts + 1
    /\ analysis = None => Cardinality(created) <= restarts

\* The close counts before it closes.
CloseOrder ==
    /\ closing \in {"counted", "done"} => counted \in Nat
    /\ status = "closed" => closing = "done"

\* The push of a flow is past its insert.
Inserted(h) ==
    \/ handler[h].at \in {"publish", "meta"}
    \/ handler[h].at = "done" /\ push(h).what = "flow"

\* Then the flow has a row, and of pushes that are awaited that of the last one.
Kept ==
    \A h \in Pushes : Inserted(h) =>
        rows[h[1]] # None /\ (h[1] \notin disturbed => rows[h[1]].push >= h[2])

\* What is still to be shown was stored.
OnTheWay ==
    \A h \in Pushes :
        handler[h].at = "fanout" => ToSet(handler[h].out) \subseteq ToSet(messages[h[1]])

\* In the live session a flow is there from its first push on, with as many messages as
\* it says; without a live session nothing of it was received.
CountOK(f) ==
    IF hub = None
    THEN \A k \in 1..Len(Script[f]) : handler[<<f, k>>].at \in {"none", "sent"}
    ELSE /\ lives[hub].flows[f] = None =>
                /\ <<f, 1>> \in Pushes => handler[<<f, 1>>].at \notin {"meta", "done"}
                /\ lives[hub].msgs[f] = << >>
         /\ lives[hub].flows[f] # None =>
                lives[hub].flows[f].count = Len(lives[hub].msgs[f])
LiveCounts == \A f \in Flows \ disturbed : closing = "no" => CountOK(f)

PushInv ==
    /\ TypeInv /\ Awaits /\ OneLive
    /\ Analyses /\ CloseOrder /\ Kept /\ OnTheWay /\ StoredFirst /\ LiveCounts

-----------------------------------------------------------------------------
(* What each step of a call leaves: its types, and where the call is.        *)

\* So there is a number for the next one.
LEMMA FreshIsFree ==
    ASSUME TypeInv, OneLive, hub = None
    PROVE  freshGen \in Gens /\ ~Used(freshGen)
<1>1. {1, 2} \subseteq Gens /\ None \notin Gens
  BY PushAssumption DEF Gens
<1>2. \E g \in Gens : ~Used(g)
  BY <1>1 DEF OneLive
<1>3. \E g \in Gens : lives[g] = Empty /\ g # hub /\ \A h \in Pushes : handler[h].gen # g
  BY <1>1, <1>2 DEF Used
<1> QED BY <1>3 DEF freshGen, Used

\* hub.startPassive.
LEMMA StartFacts ==
    ASSUME TypeInv, OneLive, startPassive
    PROVE  /\ hub' \in Gens /\ hub' # None
           /\ hub # None => hub' = hub
           /\ hub = None => ~Used(hub') /\ lives[hub'] = Empty
<1>1. None \notin Gens
  BY PushAssumption DEF Gens
<1> QED BY <1>1, FreshIsFree DEF startPassive, TypeInv, GatewayTypes, Used

\* A received batch has the live session of the hub and goes to its part of the work.
LEMMA ReceiveFacts ==
    ASSUME TypeInv, OneLive, NEW h \in Pushes, Receive(h)
    PROVE  /\ TypeInv' /\ Others(h)
           /\ handler[h].at = "sent" /\ handler'[h].at = AfterAnalysis(h) /\ handler'[h].gen = hub'
<1> DEFINE c == [handler[h] EXCEPT !.at = AfterAnalysis(h), !.gen = hub']
<1>1. handler' = [handler EXCEPT ![h] = c] /\ handler[h].at = "sent"
  BY DEF Receive
<1>2. hub' \in Gens /\ hub' # None
  BY StartFacts DEF Receive
<1>3. handler[h] \in Call
  BY DEF TypeInv
<1>4. AfterAnalysis(h) \in {"claim", "feed"} /\ AfterAnalysis(h) \in Steps
  BY DEF AfterAnalysis, Steps
<1>5. c \in Call /\ c.at = AfterAnalysis(h) /\ c.gen = hub'
  BY <1>2, <1>3, <1>4 DEF Call
<1>6. /\ AfterAnalysis(h) \in FlowSteps => push(h).what = "flow"
      /\ AfterAnalysis(h) \in FrameSteps => push(h).what = "frame"
  BY PushFacts DEF AfterAnalysis, FlowSteps, FrameSteps
<1>7. handler' \in [Pushes -> Call] /\ \A q \in Pushes : CallOK(q)'
  <2> HIDE DEF c
  <2> QED BY <1>1, <1>2, <1>4, <1>5, <1>6, CallStep DEF TypeInv, FlowSteps, FrameSteps
<1>8. handler'[h] = c /\ Others(h)
  BY <1>1 DEF TypeInv, Others
<1>9. ClientTypes' /\ GatewayTypes' /\ BundleTypes'
  BY <1>2 DEF Receive, TypeInv, ClientTypes, GatewayTypes, BundleTypes, client, session
<1> QED BY <1>1, <1>5, <1>7, <1>8, <1>9 DEF TypeInv

\* One that is refused has none.
LEMMA ReceiveFailsFacts ==
    ASSUME TypeInv, OneLive, NEW h \in Pushes, ReceiveFails(h)
    PROVE  /\ TypeInv' /\ Others(h)
           /\ handler[h].at = "sent" /\ handler'[h].at = "failed" /\ handler'[h].gen = None
<1>1. handler' \in [Pushes -> Call] /\ (\A q \in Pushes : CallOK(q)') /\ Others(h)
      /\ handler'[h].at = "failed" /\ handler'[h].gen = None
  BY EndStep DEF ReceiveFails
<1>2. hub' \in Gens
  BY StartFacts DEF ReceiveFails
<1>3. ClientTypes' /\ GatewayTypes' /\ BundleTypes'
  BY <1>2, PushFacts
     DEF ReceiveFails, TypeInv, ClientTypes, GatewayTypes, BundleTypes, client, session, bundle
<1> QED BY <1>1, <1>3 DEF TypeInv, ReceiveFails

\* A step of a call inside the gateway: it keeps its live session.
Stays(h, from, to) ==
    /\ Others(h)
    /\ handler[h].at = from /\ handler'[h].at = to /\ handler'[h].gen = handler[h].gen

\* The claim gives a flow the row that will be stored.
LEMMA ClaimFacts ==
    ASSUME TypeInv, NEW h \in Pushes, ClaimPushedTCP(h)
    PROVE  TypeInv' /\ Stays(h, "claim", "insert")
<1> DEFINE f == h[1]
           st == IF tcpStates[f] = None THEN decision(h) ELSE tcpStates[f]
           r == IF Transport[f] = "TCP" /\ st.dec THEN pushed(h, "MAX", FALSE) ELSE wireRow(h)
           c == [handler[h] EXCEPT !.at = "insert", !.row = r]
<1>1. handler' = [handler EXCEPT ![h] = c] /\ handler[h].at = "claim"
  BY DEF ClaimPushedTCP
<1>2. /\ handler[h] \in Call /\ CallOK(h) /\ f \in Flows /\ h[2] \in Nat
      /\ push(h).what = "flow" /\ push(h).named \in BOOLEAN
  BY <1>1, PushFacts DEF TypeInv, CallOK, FlowSteps
<1>3. r \in Rows /\ r.push = h[2]
  <2> HIDE DEF st
  <2> QED BY <1>2, PushAssumption DEF pushed, wireRow, Rows
<1>4. c \in Call /\ c.at = "insert" /\ c.gen = handler[h].gen /\ c.row = r
  <2> HIDE DEF r
  <2> QED BY <1>2, <1>3 DEF Call, Steps
<1>5. handler' \in [Pushes -> Call] /\ \A q \in Pushes : CallOK(q)'
  <2> HIDE DEF c, r
  <2> QED BY <1>1, <1>2, <1>3, <1>4, CallStep DEF TypeInv, CallOK, FlowSteps, FrameSteps
<1>6. handler'[h] = c /\ Others(h)
  BY <1>1 DEF TypeInv, Others
<1>7. decision(h) \in States
  <2>1. << >> \in Seq(Cell)
    BY EmptySeq
  <2> QED BY <1>2, <2>1 DEF decision, Undecided, Framer, States, Bufs
<1>8. st \in States
  BY <1>2, <1>7 DEF TypeInv, GatewayTypes
<1>9. tcpStates' \in [Flows -> States \cup {None}]
  <2>1. tcpStates' = tcpStates \/ tcpStates' = [tcpStates EXCEPT ![f] = st]
    BY DEF ClaimPushedTCP
  <2> HIDE DEF st
  <2> QED BY <1>8, <2>1 DEF TypeInv, GatewayTypes
<1>10. ClientTypes' /\ GatewayTypes' /\ BundleTypes'
  BY <1>9
     DEF ClaimPushedTCP, TypeInv, ClientTypes, GatewayTypes, BundleTypes, client, session, bundle
<1> QED BY <1>1, <1>4, <1>5, <1>6, <1>10 DEF TypeInv, Stays

\* The row of the push is stored.
LEMMA InsertFacts ==
    ASSUME TypeInv, NEW h \in Pushes, InsertFlows(h)
    PROVE  /\ TypeInv' /\ Stays(h, "insert", "publish")
           /\ rows' = [rows EXCEPT ![h[1]] = handler[h].row]
           /\ handler[h].row \in Rows /\ handler[h].row.push = h[2]
<1>1. handler[h] \in Call /\ CallOK(h) /\ h[1] \in Flows /\ handler[h].at = "insert"
  BY PushFacts DEF TypeInv, InsertFlows
<1>2. handler[h].row \in Rows /\ handler[h].row.push = h[2]
  BY <1>1 DEF CallOK
<1>3. /\ handler' \in [Pushes -> Call] /\ (\A q \in Pushes : CallOK(q)')
      /\ handler'[h] = [handler[h] EXCEPT !.at = "publish"] /\ Others(h)
  BY <1>1, GotoStep DEF InsertFlows, Steps
<1>4. handler'[h].at = "publish" /\ handler'[h].gen = handler[h].gen
  BY <1>1, <1>3 DEF Call
<1>5. ClientTypes' /\ GatewayTypes' /\ BundleTypes'
  BY <1>1, <1>2
     DEF InsertFlows, TypeInv, ClientTypes, GatewayTypes, BundleTypes, client, session, gateway
<1> QED BY <1>1, <1>2, <1>3, <1>4, <1>5 DEF TypeInv, Stays, InsertFlows

\* One live session changes at most.
OnlyLive(g) == \A k \in Gens : k # g => lives'[k] = lives[k]
\* A live session gets a flow, which keeps its count.
Shows(old, new, f) ==
    /\ new.closed = old.closed /\ new.msgs = old.msgs
    /\ \E pf \in Shown :
          /\ new.flows = [old.flows EXCEPT ![f] = pf]
          /\ old.flows[f] = None => pf.count = 0
          /\ old.flows[f] # None => pf.count = old.flows[f].count
\* A live session gets a message of a flow.
Adds(old, new, f, m) ==
    /\ new.closed = old.closed
    /\ new.msgs = [old.msgs EXCEPT ![f] = Append(old.msgs[f], m)]
    /\ new.flows = [old.flows EXCEPT ![f] = bumped(old.flows[f])]

\* A flow is shown in a live session.
LEMMA ShowType ==
    ASSUME lives \in [Gens -> Live], NEW g \in Gens, NEW f \in Flows, NEW pf \in Shown,
           lives' = [lives EXCEPT ![g].flows[f] = pf]
    PROVE  /\ lives' \in [Gens -> Live] /\ OnlyLive(g)
           /\ lives'[g].closed = lives[g].closed /\ lives'[g].msgs = lives[g].msgs
           /\ lives'[g].flows = [lives[g].flows EXCEPT ![f] = pf]
<1> DEFINE l == [lives[g] EXCEPT !.flows = [lives[g].flows EXCEPT ![f] = pf]]
<1>1. /\ l \in Live /\ l.closed = lives[g].closed /\ l.msgs = lives[g].msgs
      /\ l.flows = [lives[g].flows EXCEPT ![f] = pf]
  BY DEF Live
<1>2. lives' = [lives EXCEPT ![g] = l]
  OBVIOUS
<1> HIDE DEF l
<1>3. lives' \in [Gens -> Live] /\ lives'[g] = l /\ OnlyLive(g)
  BY <1>1, <1>2 DEF OnlyLive
<1> QED BY <1>1, <1>3

\* The flow is shown in the live session the call holds, unless that was stopped.
LEMMA PublishFacts ==
    ASSUME TypeInv, NEW h \in Pushes, Publish(h)
    PROVE  /\ TypeInv' /\ Stays(h, "publish", "meta") /\ handler[h].gen \in Gens
           /\ \/ lives[handler[h].gen].closed /\ lives' = lives
              \/ /\ ~lives[handler[h].gen].closed /\ OnlyLive(handler[h].gen)
                 /\ Shows(lives[handler[h].gen], lives'[handler[h].gen], h[1])
<1> DEFINE f == h[1]
           g == handler[h].gen
           old == lives[g].flows[f]
           pf == carried(old, [row |-> handler[h].row, count |-> 0])
<1>1. handler[h] \in Call /\ CallOK(h) /\ f \in Flows /\ handler[h].at = "publish"
  BY PushFacts DEF TypeInv, Publish
<1>2. handler[h].row \in Rows /\ g \in Gens
  BY <1>1 DEF CallOK, FlowSteps, Call
<1>3. lives[g] \in Live /\ old \in Shown \cup {None}
  BY <1>1, <1>2 DEF TypeInv, GatewayTypes, Live
<1>4. pf \in Shown /\ (old = None => pf.count = 0) /\ (old # None => pf.count = old.count)
  <2> HIDE DEF old
  <2> QED BY <1>2, <1>3 DEF carried, Shown
<1>5. /\ handler' \in [Pushes -> Call] /\ (\A q \in Pushes : CallOK(q)')
      /\ handler'[h] = [handler[h] EXCEPT !.at = "meta"] /\ Others(h)
  BY <1>1, GotoStep DEF Publish, Steps
<1>6. handler'[h].at = "meta" /\ handler'[h].gen = handler[h].gen
  BY <1>1, <1>5 DEF Call
<1>7. \/ lives[g].closed /\ lives' = lives
      \/ ~lives[g].closed /\ lives' = [lives EXCEPT ![g].flows[f] = pf]
  BY DEF Publish
<1>8. CASE lives[g].closed /\ lives' = lives
  <2>1. lives' \in [Gens -> Live]
    BY <1>8 DEF TypeInv, GatewayTypes
  <2>2. ClientTypes' /\ GatewayTypes' /\ BundleTypes'
    BY <2>1 DEF Publish, TypeInv, ClientTypes, GatewayTypes, BundleTypes, client, session, bundle
  <2> QED BY <1>1, <1>2, <1>5, <1>6, <1>8, <2>2 DEF TypeInv, Stays
<1>9. CASE ~lives[g].closed /\ lives' = [lives EXCEPT ![g].flows[f] = pf]
  <2>1. /\ lives' \in [Gens -> Live] /\ OnlyLive(g)
        /\ lives'[g].closed = lives[g].closed /\ lives'[g].msgs = lives[g].msgs
        /\ lives'[g].flows = [lives[g].flows EXCEPT ![f] = pf]
    <3>1. PICK shown \in Shown : shown = pf
      BY <1>4
    <3>2. lives' = [lives EXCEPT ![g].flows[f] = shown] /\ lives \in [Gens -> Live]
      BY <1>9, <3>1 DEF TypeInv, GatewayTypes
    <3>3. f \in Flows /\ g \in Gens
      BY <1>1, <1>2
    <3>4. /\ lives' \in [Gens -> Live] /\ OnlyLive(g)
          /\ lives'[g].closed = lives[g].closed /\ lives'[g].msgs = lives[g].msgs
          /\ lives'[g].flows = [lives[g].flows EXCEPT ![f] = shown]
      <4> HIDE DEF f, g
      <4> QED BY ONLY <3>3, <3>2, ShowType, ZenonT(60)
    <3> QED BY ONLY <3>1, <3>4
  <2>2. Shows(lives[g], lives'[g], f)
    <3> HIDE DEF pf
    <3> QED BY <1>4, <2>1 DEF Shows
  <2>3. ClientTypes' /\ GatewayTypes' /\ BundleTypes'
    BY <2>1 DEF Publish, TypeInv, ClientTypes, GatewayTypes, BundleTypes, client, session, bundle
  <2> QED BY <1>1, <1>2, <1>5, <1>6, <1>9, <2>1, <2>2, <2>3 DEF TypeInv, Stays
<1> QED BY <1>7, <1>8, <1>9

\* The push of a flow is over.
LEMMA MetaFacts ==
    ASSUME TypeInv, NEW h \in Pushes, RecordWSMeta(h)
    PROVE  /\ TypeInv' /\ Others(h)
           /\ handler[h].at = "meta" /\ handler'[h].at = "done" /\ handler'[h].gen = None
<1>1. handler' \in [Pushes -> Call] /\ (\A q \in Pushes : CallOK(q)') /\ Others(h)
      /\ handler'[h].at = "done" /\ handler'[h].gen = None
  BY EndStep DEF RecordWSMeta
<1>2. Undecided \in States
  <2>1. << >> \in Seq(Cell)
    BY EmptySeq
  <2> QED BY <2>1 DEF Undecided, Framer, States, Bufs
<1>3. wsStates' \in [Flows -> States \cup {None}]
  BY <1>2, PushFacts DEF RecordWSMeta, TypeInv, GatewayTypes
<1>4. ClientTypes' /\ GatewayTypes' /\ BundleTypes'
  BY <1>3 DEF RecordWSMeta, TypeInv, ClientTypes, GatewayTypes, BundleTypes, client, session, bundle
<1> QED BY <1>1, <1>4 DEF TypeInv, RecordWSMeta

\* What a framer gives and keeps.
LEMMA FeedType ==
    ASSUME NEW bufs \in Bufs, NEW up \in BOOLEAN, NEW cells \in Seq(Cell)
    PROVE  Feed(bufs, up, cells).bufs \in Bufs /\ Feed(bufs, up, cells).out \in Seq(Outs)
<1> DEFINE res == fed(bufs[side(up)], cells)
<1>1. bufs[side(up)] \in Seq(Cell) /\ side(up) \in {"up", "down"}
  BY DEF Bufs, side
<1>2. res \in Framing
  BY <1>1, FedType
<1>3. Feed(bufs, up, cells) = [bufs |-> [bufs EXCEPT ![side(up)] = res.buf], out |-> res.out]
  BY DEF Feed
<1>4. res.buf \in Seq(Cell) /\ res.out \in Seq(Outs)
  <2> HIDE DEF res
  <2> QED BY <1>2 DEF Framing
<1>5. [bufs EXCEPT ![side(up)] = res.buf] \in Bufs
  <2> HIDE DEF res
  <2> QED BY <1>1, <1>4 DEF Bufs
<1> QED BY <1>3, <1>4, <1>5

\* The messages of the frames that came out.
LEMMA FramesType ==
    ASSUME NEW h \in Pushes, push(h).what = "frame", NEW out \in Seq(Outs)
    PROVE  frames(h, out) \in Seq(Msgs)
<1>1. h[2] \in Nat /\ push(h).up \in BOOLEAN
  BY PushFacts
<1>2. DOMAIN out = 1..Len(out) /\ Len(out) \in Nat /\ \A j \in 1..Len(out) : out[j] \in Outs
  BY LenProperties, ElementOfSeq
<1>3. frames(h, out) \in [1..Len(out) -> Msgs]
  BY <1>1, <1>2 DEF frames, Msgs
<1> QED BY <1>2, <1>3, SeqDef

\* A message becomes the messages of the frames it completes, or itself.
LEMMA DecodeFacts ==
    ASSUME TypeInv, NEW h \in Pushes, Decode(h)
    PROVE  TypeInv' /\ Stays(h, "feed", "store")
<1> DEFINE f == h[1]
           p == push(h)
           Out(msgs) == handler' = [handler EXCEPT ![h].at = "store", ![h].out = msgs]
<1>1. /\ handler[h] \in Call /\ CallOK(h) /\ f \in Flows /\ handler[h].at = "feed"
      /\ p.what = "frame" /\ p.up \in BOOLEAN /\ p.cells \in Seq(Cell)
  BY PushFacts DEF TypeInv, CallOK, FrameSteps, Decode
<1>2. verbatim \in Outs
  BY DEF verbatim, Outs
<1>3. asIs(h) \in Seq(Msgs)
  <2>1. <<verbatim>> \in Seq(Outs)
    BY <1>2
  <2> QED BY <1>1, <2>1, FramesType DEF asIs
<1>4. ASSUME NEW st \in States
      PROVE  /\ [st EXCEPT !.bufs = Feed(st.bufs, p.up, p.cells).bufs] \in States
             /\ frames(h, Feed(st.bufs, p.up, p.cells).out) \in Seq(Msgs)
  <2>1. /\ Feed(st.bufs, p.up, p.cells).bufs \in Bufs
        /\ Feed(st.bufs, p.up, p.cells).out \in Seq(Outs)
    BY <1>1, FeedType DEF States
  <2>2. frames(h, Feed(st.bufs, p.up, p.cells).out) \in Seq(Msgs)
    BY <1>1, <2>1, FramesType
  <2> QED BY <2>1, <2>2 DEF States
<1>5. ASSUME wsStates[f] # None PROVE wsDecision(h) \in States
  <2>1. wsStates[f] \in States
    BY <1>1, <1>5 DEF TypeInv, GatewayTypes
  <2> DEFINE d == IF wsStates[f].dec THEN TRUE ELSE f \in Claimed
  <2>2. d \in BOOLEAN
    <3>1. CASE wsStates[f].dec
      BY <3>1
    <3>2. CASE ~wsStates[f].dec
      BY <3>2
    <3> QED BY <3>1, <3>2
  <2>3. wsDecision(h) = [wsStates[f] EXCEPT !.decided = TRUE, !.dec = d]
    BY DEF wsDecision
  <2> HIDE DEF d
  <2> QED BY <2>1, <2>2, <2>3 DEF States
<1>6. /\ tcpStates' \in [Flows -> States \cup {None}] /\ wsStates' \in [Flows -> States \cup {None}]
      /\ \E msgs \in Seq(Msgs) : Out(msgs)
  <2>1. CASE /\ tcpClaims(h)
             /\ tcpStates' = [tcpStates EXCEPT
                                  ![f].bufs = Feed(tcpStates[f].bufs, p.up, p.cells).bufs]
             /\ Out(frames(h, Feed(tcpStates[f].bufs, p.up, p.cells).out))
             /\ UNCHANGED wsStates
    <3>1. tcpStates[f] \in States
      BY <1>1, <2>1 DEF tcpClaims, TypeInv, GatewayTypes
    <3> DEFINE st == [tcpStates[f] EXCEPT !.bufs = Feed(tcpStates[f].bufs, p.up, p.cells).bufs]
    <3>2. st \in States /\ tcpStates' = [tcpStates EXCEPT ![f] = st]
      BY <1>4, <2>1, <3>1
    <3> HIDE DEF st
    <3>3. tcpStates' \in [Flows -> States \cup {None}]
      BY <3>2 DEF TypeInv, GatewayTypes
    <3> QED BY <1>4, <2>1, <3>1, <3>3 DEF TypeInv, GatewayTypes
  <2>2. CASE /\ wsStates[f] # None /\ wsDecision(h).dec
             /\ wsStates' = [wsStates EXCEPT ![f] =
                   [wsDecision(h) EXCEPT !.bufs = Feed(wsDecision(h).bufs, p.up, p.cells).bufs]]
             /\ Out(frames(h, Feed(wsDecision(h).bufs, p.up, p.cells).out))
             /\ UNCHANGED tcpStates
    <3>1. wsDecision(h) \in States
      BY <1>5, <2>2
    <3> DEFINE st == [wsDecision(h) EXCEPT !.bufs = Feed(wsDecision(h).bufs, p.up, p.cells).bufs]
    <3>2. st \in States /\ wsStates' = [wsStates EXCEPT ![f] = st]
      BY <1>4, <2>2, <3>1
    <3> HIDE DEF st
    <3>3. wsStates' \in [Flows -> States \cup {None}]
      BY <3>2 DEF TypeInv, GatewayTypes
    <3> QED BY <1>4, <2>2, <3>1, <3>3 DEF TypeInv, GatewayTypes
  <2>3. CASE /\ wsStates[f] # None /\ wsStates' = [wsStates EXCEPT ![f] = wsDecision(h)]
             /\ Out(asIs(h)) /\ UNCHANGED tcpStates
    <3>1. wsDecision(h) \in States
      BY <1>5, <2>3
    <3>2. wsStates' \in [Flows -> States \cup {None}]
      BY <2>3, <3>1 DEF TypeInv, GatewayTypes
    <3> QED BY <1>3, <2>3, <3>2 DEF TypeInv, GatewayTypes
  <2>4. CASE Out(asIs(h)) /\ UNCHANGED <<tcpStates, wsStates>>
    BY <1>3, <2>4 DEF TypeInv, GatewayTypes
  <2> QED BY <2>1, <2>2, <2>3, <2>4 DEF Decode
<1>7. PICK msgs \in Seq(Msgs) : Out(msgs)
  BY <1>6
<1> DEFINE c == [handler[h] EXCEPT !.at = "store", !.out = msgs]
<1>8. handler' = [handler EXCEPT ![h] = c]
  BY <1>7
<1>9. c \in Call /\ c.at = "store" /\ c.gen = handler[h].gen
  BY <1>1 DEF Call, Steps
<1>10. handler' \in [Pushes -> Call] /\ \A q \in Pushes : CallOK(q)'
  <2> HIDE DEF c
  <2> QED BY <1>1, <1>8, <1>9, CallStep DEF TypeInv, CallOK, FlowSteps, FrameSteps
<1>11. handler'[h] = c /\ Others(h)
  BY <1>8 DEF TypeInv, Others
<1>12. ClientTypes' /\ GatewayTypes' /\ BundleTypes'
  BY <1>6 DEF Decode, TypeInv, ClientTypes, GatewayTypes, BundleTypes, client, session, bundle
<1> QED BY <1>1, <1>9, <1>10, <1>11, <1>12 DEF TypeInv, Stays

\* They are appended to those of the flow.
LEMMA StoreFacts ==
    ASSUME TypeInv, NEW h \in Pushes, InsertMessages(h)
    PROVE  /\ TypeInv' /\ Others(h) /\ push(h).what = "frame"
           /\ messages[h[1]] \in Seq(Msgs) /\ handler[h].out \in Seq(Msgs)
           /\ messages' = [messages EXCEPT ![h[1]] = messages[h[1]] \o handler[h].out]
           /\ handler[h].at = "store"
           /\ \/ handler'[h].at = "done" /\ handler'[h].gen = None
              \/ Stays(h, "store", "fanout") /\ handler'[h].out = handler[h].out
<1>1. /\ handler[h] \in Call /\ CallOK(h) /\ h[1] \in Flows /\ handler[h].at = "store"
      /\ messages[h[1]] \in Seq(Msgs) /\ handler[h].out \in Seq(Msgs)
  BY PushFacts DEF TypeInv, InsertMessages, BundleTypes, Call
<1>2. messages[h[1]] \o handler[h].out \in Seq(Msgs)
  BY <1>1, ConcatProperties
<1>3. ClientTypes' /\ GatewayTypes' /\ BundleTypes'
  BY <1>2
     DEF InsertMessages, TypeInv, ClientTypes, GatewayTypes, BundleTypes, client, session, gateway
<1>4. CASE handler[h].out = << >>
  <2>1. handler' \in [Pushes -> Call] /\ (\A q \in Pushes : CallOK(q)') /\ Others(h)
        /\ handler'[h].at = "done" /\ handler'[h].gen = None
    BY <1>4, EndStep DEF InsertMessages
  <2> QED BY <1>1, <1>3, <2>1 DEF TypeInv, InsertMessages, CallOK, FrameSteps
<1>5. CASE handler[h].out # << >>
  <2>1. /\ handler' \in [Pushes -> Call] /\ (\A q \in Pushes : CallOK(q)')
        /\ handler'[h] = [handler[h] EXCEPT !.at = "fanout"] /\ Others(h)
    BY <1>1, <1>5, GotoStep DEF InsertMessages, Steps
  <2>2. /\ handler'[h].at = "fanout" /\ handler'[h].gen = handler[h].gen
        /\ handler'[h].out = handler[h].out
    BY <1>1, <2>1 DEF Call
  <2> QED BY <1>1, <1>3, <2>1, <2>2 DEF TypeInv, InsertMessages, CallOK, FrameSteps, Stays
<1> QED BY <1>4, <1>5

\* The count of a flow that is shown goes up by one.
LEMMA BumpType == \A old \in Shown : bumped(old) \in Shown /\ bumped(old).count = old.count + 1
<1> SUFFICES ASSUME NEW old \in Shown
             PROVE  bumped(old) \in Shown /\ bumped(old).count = old.count + 1
  OBVIOUS
<1>1. bumped(old) = [old EXCEPT !.count = old.count + 1]
  BY NoneIsNone DEF bumped
<1>2. old.count + 1 \in Nat
  BY DEF Shown
<1> QED BY <1>1, <1>2 DEF Shown

\* A message is shown in a live session, and counted if its flow is.
LEMMA ShowMessageType ==
    ASSUME lives \in [Gens -> Live], NEW g \in Gens, NEW f \in Flows, NEW m \in Msgs,
           lives' = [lives EXCEPT ![g].msgs[f] = Append(@, m), ![g].flows[f] = bumped(@)]
    PROVE  lives' \in [Gens -> Live] /\ OnlyLive(g) /\ Adds(lives[g], lives'[g], f, m)
<1> DEFINE b == bumped(lives[g].flows[f])
           a == Append(lives[g].msgs[f], m)
           l == [lives[g] EXCEPT !.msgs = [lives[g].msgs EXCEPT ![f] = a],
                                 !.flows = [lives[g].flows EXCEPT ![f] = b]]
<1>1. lives[g] \in Live /\ a \in Seq(Msgs)
  BY DEF Live
<1>2. b \in Shown \cup {None}
  BY <1>1 DEF bumped, Live, Shown
<1>3. l \in Live /\ Adds(lives[g], l, f, m)
  <2>1. /\ l \in Live /\ l.closed = lives[g].closed
        /\ l.msgs = [lives[g].msgs EXCEPT ![f] = a] /\ l.flows = [lives[g].flows EXCEPT ![f] = b]
    <3> HIDE DEF a, b
    <3> QED BY <1>1, <1>2 DEF Live
  <2> QED BY <2>1 DEF Adds
<1>4. g \in DOMAIN lives
  OBVIOUS
<1>5. [lives EXCEPT ![g].msgs[f] = Append(@, m), ![g].flows[f] = bumped(@)]
        = [lives EXCEPT ![g] = l]
  BY <1>4, Zenon
<1>6. lives' = [lives EXCEPT ![g] = l]
  BY ONLY <1>5, lives' = [lives EXCEPT ![g].msgs[f] = Append(@, m), ![g].flows[f] = bumped(@)]
<1> HIDE DEF l
<1> QED BY <1>3, <1>6 DEF OnlyLive

\* The first of them that was not shown is shown, unless the live session was stopped.
LEMMA FanoutFacts ==
    ASSUME TypeInv, NEW h \in Pushes, PublishMessage(h)
    PROVE  /\ TypeInv' /\ Others(h) /\ push(h).what = "frame" /\ handler[h].gen \in Gens
           /\ handler[h].at = "fanout" /\ handler[h].out \in Seq(Msgs) /\ handler[h].out # << >>
           /\ \/ lives[handler[h].gen].closed /\ lives' = lives
              \/ /\ ~lives[handler[h].gen].closed /\ OnlyLive(handler[h].gen)
                 /\ Adds(lives[handler[h].gen], lives'[handler[h].gen], h[1], Head(handler[h].out))
           /\ \/ handler'[h].at = "done" /\ handler'[h].gen = None
              \/ Stays(h, "fanout", "fanout") /\ handler'[h].out = Tail(handler[h].out)
<1> DEFINE g == handler[h].gen
           out == handler[h].out
<1>1. /\ handler[h] \in Call /\ CallOK(h) /\ h[1] \in Flows /\ handler[h].at = "fanout"
      /\ out \in Seq(Msgs) /\ out # << >> /\ push(h).what = "frame" /\ g \in Gens
  BY PushFacts DEF TypeInv, PublishMessage, Call, CallOK, FrameSteps
<1>2. /\ Head(out) \in Msgs /\ Tail(out) \in Seq(Msgs)
      /\ Len(Tail(out)) = Len(out) - 1 /\ Len(out) \in Nat
  BY <1>1, HeadTailProperties, LenProperties
<1>3. \/ lives[g].closed /\ lives' = lives
      \/ /\ ~lives[g].closed
         /\ lives' = [lives EXCEPT ![g].msgs[h[1]] = Append(@, Head(out)),
                                   ![g].flows[h[1]] = bumped(@)]
  BY DEF PublishMessage
<1>4. /\ lives' \in [Gens -> Live]
      /\ \/ lives[g].closed /\ lives' = lives
         \/ ~lives[g].closed /\ OnlyLive(g) /\ Adds(lives[g], lives'[g], h[1], Head(out))
  <2>1. CASE ~lives[g].closed
    <3> HIDE DEF g, out
    <3> QED BY <1>1, <1>2, <1>3, <2>1, ShowMessageType DEF TypeInv, GatewayTypes
  <2>2. CASE lives[g].closed
    BY <1>3, <2>2 DEF TypeInv, GatewayTypes
  <2> QED BY <2>1, <2>2
<1>5. lives' \in [Gens -> Live]
  BY <1>4
<1>6. ClientTypes' /\ GatewayTypes' /\ BundleTypes'
  BY <1>5
     DEF PublishMessage, TypeInv, ClientTypes, GatewayTypes, BundleTypes, client, session, bundle
<1>7. CASE Len(out) = 1
  <2>1. handler' \in [Pushes -> Call] /\ (\A q \in Pushes : CallOK(q)') /\ Others(h)
        /\ handler'[h].at = "done" /\ handler'[h].gen = None
    BY <1>7, EndStep DEF PublishMessage
  <2> QED BY <1>1, <1>4, <1>6, <2>1 DEF TypeInv
<1>8. CASE Len(out) # 1
  <2> DEFINE c == [handler[h] EXCEPT !.out = Tail(out)]
  <2>1. handler' = [handler EXCEPT ![h] = c]
    BY <1>8 DEF PublishMessage
  <2>2. /\ c \in Call /\ c.at = "fanout" /\ c.gen = handler[h].gen /\ c.out = Tail(out)
        /\ c.out # << >>
    <3>1. Len(out) # 0
      BY <1>1, <1>2, EmptySeq
    <3>2. Len(Tail(out)) # 0
      BY <1>2, <1>8, <3>1
    <3>3. Len(<< >>) = 0
      OBVIOUS
    <3>4. Tail(out) # << >>
      BY ONLY <3>2, <3>3
    <3> QED BY <1>1, <1>2, <3>4 DEF Call
  <2>3. handler' \in [Pushes -> Call] /\ \A q \in Pushes : CallOK(q)'
    <3> HIDE DEF c
    <3> QED BY <1>1, <2>1, <2>2, CallStep DEF TypeInv, CallOK, FlowSteps, FrameSteps
  <2>4. handler'[h] = c /\ Others(h)
    BY <2>1 DEF TypeInv, Others
  <2> QED BY <1>1, <1>4, <1>6, <2>2, <2>3, <2>4 DEF TypeInv, Stays
<1> QED BY <1>7, <1>8

\* A call whose store call failed is over.
LEMMA StoreFailsFacts ==
    ASSUME TypeInv, NEW h \in Pushes, StoreFails(h)
    PROVE  TypeInv' /\ Others(h) /\ handler'[h].at = "failed" /\ handler'[h].gen = None
<1>1. handler' \in [Pushes -> Call] /\ (\A q \in Pushes : CallOK(q)') /\ Others(h)
      /\ handler'[h].at = "failed" /\ handler'[h].gen = None
  BY EndStep DEF StoreFails
<1>2. ClientTypes' /\ GatewayTypes' /\ BundleTypes'
  BY PushFacts
     DEF StoreFails, TypeInv, ClientTypes, GatewayTypes, BundleTypes,
         client, session, bundle, gateway
<1> QED BY <1>1, <1>2 DEF TypeInv

-----------------------------------------------------------------------------
(* The client's steps.                                                       *)

\* The next push of a flow is sent.
LEMMA SendFacts ==
    ASSUME TypeInv, Awaits, NEW f \in Flows, Send(f)
    PROVE  /\ TypeInv' /\ ~waiting[f] /\ next[f] + 1 \in 1..Len(Script[f])
           /\ next' = [next EXCEPT ![f] = next[f] + 1] /\ waiting' = [waiting EXCEPT ![f] = TRUE]
           /\ <<f, next[f] + 1>> \in Pushes /\ Others(<<f, next[f] + 1>>)
           /\ handler[<<f, next[f] + 1>>].at = "none"
           /\ handler'[<<f, next[f] + 1>>] = [handler[<<f, next[f] + 1>>] EXCEPT !.at = "sent"]
           /\ handler'[<<f, next[f] + 1>>].at = "sent"
           /\ handler'[<<f, next[f] + 1>>].gen = handler[<<f, next[f] + 1>>].gen
<1> DEFINE k == next[f] + 1
           h == <<f, k>>
<1>1. next[f] \in Nat /\ Len(Script[f]) \in Nat /\ next[f] < Len(Script[f]) /\ ~waiting[f]
  BY PushAssumption, LenProperties DEF TypeInv, ClientTypes, Send
<1>2. k \in 1..Len(Script[f]) /\ k > next[f]
  BY <1>1
<1>3. h \in Pushes /\ handler[h].at = "none"
  BY <1>2, AwaitedFacts DEF Awaits, Begun
<1>4. Goto(h, "sent")
  BY DEF Send, Goto
<1>5. /\ handler' \in [Pushes -> Call] /\ (\A q \in Pushes : CallOK(q)')
      /\ handler'[h] = [handler[h] EXCEPT !.at = "sent"] /\ Others(h)
  <2> HIDE DEF h
  <2> QED BY <1>3, <1>4, GotoStep DEF Steps
<1>6. handler'[h].at = "sent" /\ handler'[h].gen = handler[h].gen
  BY <1>3, <1>5 DEF TypeInv, Call
<1>7. ClientTypes' /\ GatewayTypes' /\ BundleTypes'
  BY <1>1 DEF Send, TypeInv, ClientTypes, GatewayTypes, BundleTypes, gateway, session, bundle
<1> QED BY <1>1, <1>2, <1>3, <1>5, <1>6, <1>7 DEF TypeInv, Send

\* The awaited push is lost.
LEMMA LoseFacts ==
    ASSUME TypeInv, Awaits, NEW f \in Flows, Lose(f)
    PROVE  /\ TypeInv' /\ awaited(f) \in Pushes /\ Others(awaited(f))
           /\ handler'[awaited(f)] = [handler[awaited(f)] EXCEPT !.at = "lost"]
           /\ handler[awaited(f)].at = "sent" /\ handler'[awaited(f)].at = "lost"
           /\ handler'[awaited(f)].gen = handler[awaited(f)].gen
<1>1. next[f] \in 1..Len(Script[f])
  BY PushAssumption, LenProperties DEF Awaits, Lose
<1>2. awaited(f) \in Pushes /\ handler[awaited(f)].at = "sent"
  BY <1>1, AwaitedFacts DEF awaited, Lose
<1>3. /\ handler' \in [Pushes -> Call] /\ (\A q \in Pushes : CallOK(q)')
      /\ handler'[awaited(f)] = [handler[awaited(f)] EXCEPT !.at = "lost"] /\ Others(awaited(f))
  BY <1>2, GotoStep DEF Lose, Steps
<1>4. handler'[awaited(f)].at = "lost" /\ handler'[awaited(f)].gen = handler[awaited(f)].gen
  BY <1>2, <1>3 DEF TypeInv, Call
<1>5. ClientTypes' /\ GatewayTypes' /\ BundleTypes'
  BY DEF Lose, TypeInv, ClientTypes, GatewayTypes, BundleTypes, client, gateway, session, bundle
<1> QED BY <1>2, <1>3, <1>4, <1>5 DEF TypeInv

\* The awaited push is cancelled, wherever it is.
LEMMA TimesOutFacts ==
    ASSUME TypeInv, Awaits, NEW f \in Flows, TimesOut(f)
    PROVE  /\ TypeInv' /\ awaited(f) \in Pushes /\ Others(awaited(f))
           /\ handler'[awaited(f)] = [handler[awaited(f)] EXCEPT !.cancelled = TRUE]
           /\ handler'[awaited(f)].at = handler[awaited(f)].at
           /\ handler'[awaited(f)].gen = handler[awaited(f)].gen
           /\ handler'[awaited(f)].out = handler[awaited(f)].out
<1> DEFINE h == awaited(f)
           c == [handler[h] EXCEPT !.cancelled = TRUE]
<1>1. next[f] \in 1..Len(Script[f])
  BY PushAssumption, LenProperties DEF Awaits, TimesOut
<1>2. h \in Pushes
  BY <1>1, AwaitedFacts DEF awaited
<1>3. handler' = [handler EXCEPT ![h] = c]
  BY DEF TimesOut
<1>4. handler[h] \in Call /\ CallOK(h)
  BY <1>2 DEF TypeInv
<1>5. /\ c \in Call /\ c.at = handler[h].at /\ c.gen = handler[h].gen
      /\ c.row = handler[h].row /\ c.out = handler[h].out
  BY <1>4 DEF Call
<1>6. handler' \in [Pushes -> Call] /\ \A q \in Pushes : CallOK(q)'
  <2> HIDE DEF c, h
  <2> QED BY <1>2, <1>3, <1>4, <1>5, CallStep DEF TypeInv, CallOK, FlowSteps, FrameSteps
<1>7. handler'[h] = c /\ Others(h)
  BY <1>2, <1>3 DEF TypeInv, Others
<1>8. ClientTypes' /\ GatewayTypes' /\ BundleTypes'
  BY DEF TimesOut, TypeInv, ClientTypes, GatewayTypes, BundleTypes, gateway, session, bundle
<1> QED BY <1>2, <1>5, <1>6, <1>7, <1>8 DEF TypeInv
-----------------------------------------------------------------------------
(* What is in a sequence.                                                    *)

\* An appended message is added to those there are.
LEMMA ToSetAppend ==
    ASSUME NEW S, NEW s \in Seq(S), NEW e \in S
    PROVE  ToSet(Append(s, e)) \subseteq ToSet(s) \cup {e}
<1>1. /\ DOMAIN Append(s, e) = 1..Len(s) + 1 /\ DOMAIN s = 1..Len(s) /\ Len(s) \in Nat
      /\ \A j \in 1..Len(s) + 1 : Append(s, e)[j] = IF j <= Len(s) THEN s[j] ELSE e
  BY AppendProperties, LenProperties
<1>2. ASSUME NEW j \in DOMAIN Append(s, e) PROVE Append(s, e)[j] \in ToSet(s) \cup {e}
  BY <1>1, <1>2 DEF ToSet
<1> QED BY <1>2 DEF ToSet

\* So are those of a batch.
LEMMA ToSetConcat ==
    ASSUME NEW S, NEW s \in Seq(S), NEW t \in Seq(S)
    PROVE  ToSet(s) \subseteq ToSet(s \o t) /\ ToSet(t) \subseteq ToSet(s \o t)
<1>1. /\ DOMAIN (s \o t) = 1..Len(s) + Len(t) /\ DOMAIN s = 1..Len(s) /\ DOMAIN t = 1..Len(t)
      /\ Len(s) \in Nat /\ Len(t) \in Nat
      /\ \A j \in 1..Len(s) + Len(t) :
            (s \o t)[j] = IF j <= Len(s) THEN s[j] ELSE t[j - Len(s)]
  BY ConcatProperties, LenProperties
<1>2. ASSUME NEW j \in DOMAIN s PROVE s[j] \in ToSet(s \o t)
  <2>1. j \in DOMAIN (s \o t) /\ (s \o t)[j] = s[j]
    BY <1>1
  <2> QED BY <2>1 DEF ToSet
<1>3. ASSUME NEW j \in DOMAIN t PROVE t[j] \in ToSet(s \o t)
  <2>1. Len(s) + j \in DOMAIN (s \o t) /\ (s \o t)[Len(s) + j] = t[j]
    BY <1>1
  <2> QED BY <2>1 DEF ToSet
<1> QED BY <1>2, <1>3 DEF ToSet

\* What is left to show, and what is shown now, was to be shown.
LEMMA ToSetTail ==
    ASSUME NEW S, NEW s \in Seq(S), s # << >>
    PROVE  ToSet(Tail(s)) \subseteq ToSet(s) /\ Head(s) \in ToSet(s)
<1>1. /\ DOMAIN s = 1..Len(s) /\ Len(s) \in Nat /\ Len(s) # 0
      /\ Tail(s) \in Seq(S) /\ Len(Tail(s)) = Len(s) - 1 /\ Head(s) = s[1]
      /\ \A j \in 1..Len(Tail(s)) : Tail(s)[j] = s[j + 1]
  BY HeadTailProperties, LenProperties, EmptySeq
<1>2. DOMAIN Tail(s) = 1..Len(s) - 1
  BY <1>1, LenProperties
<1>3. ASSUME NEW j \in DOMAIN Tail(s) PROVE Tail(s)[j] \in ToSet(s)
  <2>1. j + 1 \in DOMAIN s /\ Tail(s)[j] = s[j + 1]
    BY <1>1, <1>2
  <2> QED BY <2>1 DEF ToSet
<1>4. Head(s) \in ToSet(s)
  BY <1>1 DEF ToSet
<1> QED BY <1>3, <1>4 DEF ToSet

-----------------------------------------------------------------------------
(* What a step of one call keeps of each part of the invariant.              *)

\* A call that has begun goes on or ends.
LEMMA AwaitsStep ==
    ASSUME TypeInv, Awaits, NEW h \in Pushes, Others(h), UNCHANGED <<next, waiting>>,
           disturbed \subseteq disturbed',
           handler[h].at \notin {"none", "done"}, handler'[h].at # "none",
           handler'[h].at \in {"lost", "failed"} => h[1] \in disturbed'
    PROVE  Awaits'
<1>1. ASSUME NEW f \in Flows, NEW k \in 1..Len(Script[f]) PROVE Begun(f, k)'
  <2>1. <<f, k>> \in Pushes /\ <<f, k>>[1] = f /\ <<f, k>>[2] = k /\ Begun(f, k)
    BY AwaitedFacts DEF Awaits
  <2>2. CASE <<f, k>> # h
    BY <2>1, <2>2 DEF Begun, Others
  <2>3. CASE <<f, k>> = h
    BY <2>1, <2>3 DEF Begun
  <2> QED BY <2>2, <2>3
<1> QED BY <1>1 DEF Awaits

\* A call's live session is its own or nobody's; no other one changes.
LEMMA UsedStep ==
    ASSUME TypeInv, NEW h \in Pushes, Others(h), handler'[h].gen \in {handler[h].gen, None},
           \A g \in Gens : g # handler[h].gen => lives'[g] = lives[g]
    PROVE  \A g \in Gens : Used(g)' => Used(g)
<1> SUFFICES ASSUME NEW g \in Gens, Used(g)' PROVE Used(g)
  OBVIOUS
<1>1. None \notin Gens
  BY PushAssumption DEF Gens
<1> QED BY <1>1 DEF Used, Others

\* Which live sessions are used, and whether the hub's is closed, is as it was.
LEMMA OneLiveStep ==
    ASSUME OneLive, UNCHANGED <<hub, closing>>, \A g \in Gens : Used(g)' => Used(g),
           hub # None => lives'[hub].closed = lives[hub].closed
    PROVE  OneLive'
  BY DEF OneLive

\* No row changes, and no call gets past its insert.
LEMMA KeptStep ==
    ASSUME Kept, NEW h \in Pushes, Others(h), rows' = rows, disturbed \subseteq disturbed',
           Inserted(h)' => Inserted(h)
    PROVE  Kept'
<1> SUFFICES ASSUME NEW q \in Pushes, Inserted(q)'
             PROVE  rows'[q[1]] # None /\ (q[1] \notin disturbed' => rows'[q[1]].push >= q[2])
  BY DEF Kept
<1>1. Inserted(q)
  BY DEF Inserted, Others
<1> QED BY <1>1 DEF Kept

\* Messages are only added, and what a call has to show was among them.
LEMMA OnTheWayStep ==
    ASSUME OnTheWay, NEW h \in Pushes, Others(h),
           \A f \in Flows : ToSet(messages[f]) \subseteq ToSet(messages'[f]),
           handler'[h].at = "fanout" => ToSet(handler'[h].out) \subseteq ToSet(messages'[h[1]])
    PROVE  OnTheWay'
<1> SUFFICES ASSUME NEW q \in Pushes, handler'[q].at = "fanout"
             PROVE  ToSet(handler'[q].out) \subseteq ToSet(messages'[q[1]])
  BY DEF OnTheWay
<1>1. CASE q = h
  BY <1>1
<1>2. CASE q # h
  <2>1. q[1] \in Flows
    BY PushFacts
  <2> QED BY <1>2, <2>1 DEF OnTheWay, Others
<1> QED BY <1>1, <1>2

\* What a flow shows and says is as it was, unless it is disturbed.
LEMMA CountsStep ==
    ASSUME Awaits, LiveCounts, NEW h \in Pushes, Others(h), UNCHANGED <<hub, lives, closing>>,
           disturbed \subseteq disturbed',
           \/ h[1] \in disturbed'
           \/ /\ handler'[h].at \in {"none", "sent"} \/ handler[h].at \notin {"none", "sent"}
              /\ handler'[h].at \in {"meta", "done"} =>
                    push(h).what = "frame" \/ handler[h].at \in {"meta", "done"}
    PROVE  LiveCounts'
<1> SUFFICES ASSUME NEW f \in Flows, f \notin disturbed', closing = "no" PROVE CountOK(f)'
  BY DEF LiveCounts
<1>1. f \notin disturbed /\ CountOK(f)
  BY DEF LiveCounts
<1>2. CASE hub = None
  <2>1. ASSUME NEW k \in 1..Len(Script[f]) PROVE handler'[<<f, k>>].at \in {"none", "sent"}
    <3>1. <<f, k>> \in Pushes /\ <<f, k>>[1] = f /\ handler[<<f, k>>].at \in {"none", "sent"}
      BY <1>1, <1>2, AwaitedFacts DEF CountOK
    <3> QED BY <3>1 DEF Others
  <2> QED BY <1>2, <2>1 DEF CountOK
<1>3. CASE hub # None
  <2>1. ASSUME <<f, 1>> \in Pushes, handler'[<<f, 1>>].at \in {"meta", "done"}
        PROVE  handler[<<f, 1>>].at \in {"meta", "done"}
    <3>1. CASE <<f, 1>> = h
      <4>1. h[1] = f /\ h[2] = 1 /\ push(h).what = "flow"
        BY <3>1, PushFacts
      <4> QED BY <2>1, <3>1, <4>1
    <3>2. CASE <<f, 1>> # h
      BY <2>1, <3>2 DEF Others
    <3> QED BY <3>1, <3>2
  <2> QED BY <1>1, <1>3, <2>1 DEF CountOK
<1> QED BY <1>2, <1>3
\* A step of a call that touches neither the bundle nor the live sessions.
LEMMA QuietStep ==
    ASSUME PushInv, TypeInv', Awaits', NEW h \in Pushes, Others(h),
           UNCHANGED <<hub, lives, analysis, created, rows, messages>>,
           UNCHANGED <<status, counted, closing, restarts>>,
           disturbed \subseteq disturbed', handler'[h].gen \in {handler[h].gen, None},
           Inserted(h)' => Inserted(h),
           handler'[h].at = "fanout" =>
              handler[h].at = "fanout" /\ handler'[h].out = handler[h].out,
           \/ h[1] \in disturbed'
           \/ /\ handler'[h].at \in {"none", "sent"} \/ handler[h].at \notin {"none", "sent"}
              /\ handler'[h].at \in {"meta", "done"} =>
                    push(h).what = "frame" \/ handler[h].at \in {"meta", "done"}
    PROVE  PushInv'
<1>1. OneLive'
  <2>1. \A g \in Gens : Used(g)' => Used(g)
    BY UsedStep DEF PushInv
  <2> QED BY <2>1, OneLiveStep DEF PushInv
<1>2. Kept'
  BY KeptStep DEF PushInv
<1>3. OnTheWay'
  <2>1. \A f \in Flows : ToSet(messages[f]) \subseteq ToSet(messages'[f])
    OBVIOUS
  <2>2. handler'[h].at = "fanout" => ToSet(handler'[h].out) \subseteq ToSet(messages'[h[1]])
    BY DEF PushInv, OnTheWay
  <2> QED BY <2>1, <2>2, OnTheWayStep DEF PushInv
<1>4. LiveCounts'
  BY CountsStep DEF PushInv
<1>5. Analyses' /\ CloseOrder' /\ StoredFirst'
  BY DEF PushInv, Analyses, CloseOrder, StoredFirst
<1> QED BY <1>1, <1>2, <1>3, <1>4, <1>5 DEF PushInv

-----------------------------------------------------------------------------
(* The steps of a call.                                                      *)

\* A batch is received: its call gets the live session there is, or a fresh one.
LEMMA ReceiveStep ==
    ASSUME PushInv, NEW h \in Pushes, Receive(h)
    PROVE  PushInv'
<1>1. /\ TypeInv' /\ Others(h)
      /\ handler[h].at = "sent" /\ handler'[h].at = AfterAnalysis(h) /\ handler'[h].gen = hub'
  BY ReceiveFacts DEF PushInv
<1>2. AfterAnalysis(h) \in {"claim", "feed"}
  BY DEF AfterAnalysis
<1>3. /\ UNCHANGED <<next, waiting, lives, rows, messages, disturbed>>
      /\ UNCHANGED <<status, counted, closing, restarts>>
  BY DEF Receive, client, session, bounds
<1>4. /\ hub' \in Gens /\ hub' # None /\ (hub # None => hub' = hub)
      /\ hub = None => ~Used(hub') /\ lives[hub'] = Empty
  BY StartFacts DEF PushInv, Receive
<1>5. Awaits'
  BY <1>1, <1>2, <1>3, AwaitsStep DEF PushInv
<1>6. OneLive'
  <2>1. \A g \in Gens : Used(g)' => Used(g) \/ g = hub'
    <3> SUFFICES ASSUME NEW g \in Gens, Used(g)', g # hub' PROVE Used(g)
      OBVIOUS
    <3> QED BY <1>1, <1>3 DEF Used, Others
  <2>2. ~lives'[hub'].closed
    BY <1>3, <1>4 DEF PushInv, OneLive, Empty
  <2>3. ASSUME closing' = "no", NEW g \in Gens, Used(g)' PROVE g = hub'
    <3>1. ASSUME Used(g) PROVE g = hub'
      <4>1. g = hub
        BY <1>3, <2>3, <3>1 DEF PushInv, OneLive
      <4>2. None \notin Gens
        BY PushAssumption DEF Gens
      <4> QED BY <1>4, <4>1, <4>2
    <3> QED BY <2>1, <2>3, <3>1
  <2> QED BY <1>4, <2>2, <2>3 DEF OneLive
<1>7. Kept'
  <2>1. ~Inserted(h)'
    BY <1>1, <1>2 DEF Inserted
  <2> QED BY <1>1, <1>3, <2>1, KeptStep DEF PushInv
<1>8. OnTheWay'
  BY <1>1, <1>2, <1>3, OnTheWayStep DEF PushInv
<1>9. LiveCounts'
  <2>1. CASE hub # None
    <3>1. UNCHANGED <<hub, lives, closing>>
      BY <1>3, <1>4, <2>1
    <3> SUFFICES ASSUME NEW f \in Flows, f \notin disturbed', closing = "no" PROVE CountOK(f)'
      BY <1>3 DEF LiveCounts
    <3>2. CountOK(f)
      BY <1>3 DEF PushInv, LiveCounts
    <3>3. ASSUME <<f, 1>> \in Pushes, handler'[<<f, 1>>].at \in {"meta", "done"}
          PROVE  handler[<<f, 1>>].at \in {"meta", "done"}
      BY <1>1, <1>2, <3>3 DEF Others
    <3> QED BY <2>1, <3>1, <3>2, <3>3 DEF CountOK
  <2>2. CASE hub = None
    <3> SUFFICES ASSUME NEW f \in Flows, f \notin disturbed', closing = "no" PROVE CountOK(f)'
      BY <1>3 DEF LiveCounts
    <3>1. CountOK(f)
      BY <1>3 DEF PushInv, LiveCounts
    <3>2. lives'[hub'].flows[f] = None /\ lives'[hub'].msgs[f] = << >>
      BY <1>3, <1>4, <2>2 DEF Empty, NoMessages
    <3>3. ASSUME <<f, 1>> \in Pushes PROVE handler'[<<f, 1>>].at \notin {"meta", "done"}
      <4>1. 1 \in 1..Len(Script[f])
        BY <3>3, PushFacts
      <4>2. handler[<<f, 1>>].at \in {"none", "sent"}
        BY <2>2, <3>1, <4>1 DEF CountOK
      <4> QED BY <1>1, <1>2, <3>3, <4>2 DEF Others
    <3> QED BY <1>4, <3>2, <3>3 DEF CountOK
  <2> QED BY <2>1, <2>2
<1>10. Analyses'
  <2>1. CASE analysis # None
    BY <1>3, <2>1 DEF Receive, pushAnalysis, PushInv, Analyses
  <2>2. CASE analysis = None
    <3> DEFINE n == Cardinality(created)
    <3>1. /\ n \in Nat /\ n <= restarts /\ restarts \in Nat
          /\ IsFiniteSet(created) /\ created \subseteq Nat
      BY <2>2, FS_CardinalityType DEF PushInv, Analyses
    <3>2. created' = created \cup {n + 1} /\ analysis' = n + 1
      BY <2>2 DEF Receive, pushAnalysis, newAnalysis
    <3>3. IsFiniteSet(created') /\ Cardinality(created') <= n + 1
      <4>1. /\ IsFiniteSet(created \cup {n + 1})
            /\ Cardinality(created \cup {n + 1}) = IF n + 1 \in created THEN n ELSE n + 1
        <5> HIDE DEF n
        <5>1. n = Cardinality(created)
          BY DEF n
        <5> QED BY <3>1, <5>1, FS_AddElement
      <4> QED BY <3>1, <3>2, <4>1
    <3>4. analysis' # None /\ created' \subseteq Nat
      <4> HIDE DEF n
      <4> QED BY <3>1, <3>2, NoneIsNone
    <3>5. Cardinality(created') \in Nat
      BY <3>3, FS_CardinalityType
    <3> HIDE DEF n
    <3> QED BY <1>3, <3>1, <3>3, <3>4, <3>5 DEF Analyses
  <2> QED BY <2>1, <2>2
<1>11. CloseOrder' /\ StoredFirst'
  BY <1>3 DEF PushInv, CloseOrder, StoredFirst
<1> QED BY <1>1, <1>5, <1>6, <1>7, <1>8, <1>9, <1>10, <1>11 DEF PushInv
\* A batch whose analysis cannot be made fails, with a live session registered.
LEMMA ReceiveFailsStep ==
    ASSUME PushInv, NEW h \in Pushes, ReceiveFails(h)
    PROVE  PushInv'
<1>1. /\ TypeInv' /\ Others(h)
      /\ handler[h].at = "sent" /\ handler'[h].at = "failed" /\ handler'[h].gen = None
  BY ReceiveFailsFacts DEF PushInv
<1>2. /\ UNCHANGED <<next, waiting, lives, analysis, created, rows, messages>>
      /\ UNCHANGED <<status, counted, closing, restarts>> /\ disturbed' = disturbed \cup {h[1]}
  BY DEF ReceiveFails, client, bundle, session
<1>3. /\ hub' \in Gens /\ hub' # None /\ (hub # None => hub' = hub)
      /\ hub = None => ~Used(hub') /\ lives[hub'] = Empty
  BY StartFacts DEF PushInv, ReceiveFails
<1>4. Awaits'
  BY <1>1, <1>2, AwaitsStep DEF PushInv
<1>5. OneLive'
  <2>1. \A g \in Gens : Used(g)' => Used(g)
    BY <1>1, <1>2, UsedStep DEF PushInv
  <2>2. ~lives'[hub'].closed
    BY <1>2, <1>3 DEF PushInv, OneLive, Empty
  <2>3. ASSUME closing' = "no", NEW g \in Gens, Used(g)' PROVE g = hub'
    <3>1. g = hub
      BY <1>2, <2>1, <2>3 DEF PushInv, OneLive
    <3> QED BY <1>3, <3>1, NoneIsNone
  <2> QED BY <1>3, <2>2, <2>3 DEF OneLive
<1>6. Kept'
  <2>1. ~Inserted(h)'
    BY <1>1 DEF Inserted
  <2> QED BY <1>1, <1>2, <2>1, KeptStep DEF PushInv
<1>7. OnTheWay'
  BY <1>1, <1>2, OnTheWayStep DEF PushInv
<1>8. LiveCounts'
  <2>0. SUFFICES ASSUME NEW f \in Flows, f \notin disturbed', closing = "no" PROVE CountOK(f)'
    BY <1>2 DEF LiveCounts
  <2>1. CountOK(f) /\ f # h[1]
    BY <1>2, <2>0 DEF PushInv, LiveCounts
  <2>2. ASSUME NEW k \in 1..Len(Script[f]) PROVE handler'[<<f, k>>] = handler[<<f, k>>]
    <3>1. <<f, k>> \in Pushes /\ <<f, k>>[1] = f
      BY AwaitedFacts
    <3> QED BY <1>1, <2>1, <3>1 DEF Others
  <2>3. <<f, 1>> \in Pushes => 1 \in 1..Len(Script[f])
    BY PushFacts
  <2>4. CASE hub # None
    BY <1>2, <1>3, <2>1, <2>2, <2>3, <2>4 DEF CountOK
  <2>5. CASE hub = None
    <3>1. lives'[hub'].flows[f] = None /\ lives'[hub'].msgs[f] = << >>
      BY <1>2, <1>3, <2>5 DEF Empty, NoMessages
    <3>2. <<f, 1>> \in Pushes => handler'[<<f, 1>>].at \notin {"meta", "done"}
      BY <2>1, <2>2, <2>3, <2>5 DEF CountOK
    <3> QED BY <1>3, <3>1, <3>2 DEF CountOK
  <2> QED BY <2>4, <2>5
<1>9. Analyses' /\ CloseOrder' /\ StoredFirst'
  BY <1>2 DEF PushInv, Analyses, CloseOrder, StoredFirst
<1> QED BY <1>1, <1>4, <1>5, <1>6, <1>7, <1>8, <1>9 DEF PushInv

\* The claim.
LEMMA ClaimStep ==
    ASSUME PushInv, NEW h \in Pushes, ClaimPushedTCP(h)
    PROVE  PushInv'
<1>1. TypeInv' /\ Stays(h, "claim", "insert")
  BY ClaimFacts DEF PushInv
<1>2. /\ UNCHANGED <<next, waiting, hub, lives, analysis, created, rows, messages, disturbed>>
      /\ UNCHANGED <<status, counted, closing, restarts>>
  BY DEF ClaimPushedTCP, client, bundle, session, bounds
<1>3. Awaits'
  BY <1>1, <1>2, AwaitsStep DEF PushInv, Stays
<1>4. ~Inserted(h)'
  BY <1>1 DEF Inserted, Stays
<1> QED BY <1>1, <1>2, <1>3, <1>4, QuietStep DEF Stays

\* The insert of a flow: its row is of the latest of its awaited pushes, which this is.
LEMMA InsertStep ==
    ASSUME PushInv, NEW h \in Pushes, InsertFlows(h)
    PROVE  PushInv'
<1>1. /\ TypeInv' /\ Stays(h, "insert", "publish") /\ Others(h)
      /\ rows' = [rows EXCEPT ![h[1]] = handler[h].row]
      /\ handler[h].row \in Rows /\ handler[h].row.push = h[2]
  BY InsertFacts DEF PushInv, Stays
<1>2. /\ UNCHANGED <<next, waiting, hub, lives, analysis, created, messages, disturbed>>
      /\ UNCHANGED <<status, counted, closing, restarts>>
  BY DEF InsertFlows, client, gateway, session, bounds
<1>3. Awaits'
  BY <1>1, <1>2, AwaitsStep DEF PushInv, Stays
<1>4. \A f \in Flows : rows'[f] = IF f = h[1] THEN handler[h].row ELSE rows[f]
  BY <1>1 DEF PushInv, TypeInv, BundleTypes
<1>5. Kept'
  <2> SUFFICES ASSUME NEW q \in Pushes, Inserted(q)'
               PROVE  rows'[q[1]] # None /\ (q[1] \notin disturbed => rows'[q[1]].push >= q[2])
    BY <1>2 DEF Kept
  <2>1. q[1] \in Flows /\ q[2] \in Nat /\ q[2] \in 1..Len(Script[q[1]]) /\ q = <<q[1], q[2]>>
        /\ h[2] \in 1..Len(Script[h[1]]) /\ h = <<h[1], h[2]>> /\ h[1] \in Flows /\ h[2] \in Nat
    BY PushFacts
  <2>2. CASE q[1] = h[1]
    <3>1. rows'[q[1]] # None /\ rows'[q[1]].push = h[2]
      BY <1>1, <1>4, <2>1, <2>2, NoneIsNone
    <3>2. ASSUME q[1] \notin disturbed PROVE h[2] >= q[2]
      <4>1. Begun(q[1], q[2])' /\ Begun(h[1], h[2])
        BY <1>3, <2>1 DEF PushInv, Awaits
      <4>2. handler'[q].at # "none" /\ handler[h].at = "insert"
        BY <1>1 DEF Inserted, Stays
      <4>3. next[h[1]] \in Nat /\ next'[q[1]] = next[h[1]]
        BY <1>2, <2>1, <2>2 DEF PushInv, TypeInv, ClientTypes
      <4>4. ~(q[2] > next[h[1]])
        BY <2>1, <4>1, <4>2, <4>3 DEF Begun
      <4>5. ~(h[2] < next[h[1]])
        BY <2>1, <2>2, <3>2, <4>1, <4>2, <4>3 DEF Begun
      <4> QED BY <2>1, <4>3, <4>4, <4>5
    <3> QED BY <2>1, <3>1, <3>2
  <2>3. CASE q[1] # h[1]
    <3>1. Inserted(q) /\ rows'[q[1]] = rows[q[1]]
      BY <1>1, <1>4, <2>1, <2>3 DEF Inserted, Others
    <3> QED BY <3>1 DEF PushInv, Kept
  <2> QED BY <2>2, <2>3
<1>6. OneLive'
  <2>1. \A g \in Gens : Used(g)' => Used(g)
    BY <1>1, <1>2, UsedStep DEF PushInv, Stays
  <2> QED BY <1>2, <2>1, OneLiveStep DEF PushInv
<1>7. OnTheWay'
  BY <1>1, <1>2, OnTheWayStep DEF PushInv, Stays
<1>8. LiveCounts'
  BY <1>1, <1>2, CountsStep DEF PushInv, Stays
<1>9. StoredFirst'
  <2>1. \A f \in Flows : rows[f] # None => rows'[f] # None
    BY <1>1, <1>4, NoneIsNone
  <2> QED BY <1>2, <2>1 DEF PushInv, StoredFirst
<1>10. Analyses' /\ CloseOrder'
  BY <1>2 DEF PushInv, Analyses, CloseOrder
<1> QED BY <1>1, <1>3, <1>5, <1>6, <1>7, <1>8, <1>9, <1>10 DEF PushInv

\* A call that shows something shows it in the hub's live session, before the close.
LEMMA ShowsInHub ==
    ASSUME PushInv, NEW h \in Pushes, handler[h].gen \in Gens, closing = "no"
    PROVE  handler[h].gen = hub /\ hub # None
<1>1. Used(handler[h].gen)
  BY DEF Used
<1> QED BY <1>1, NoneIsNone DEF PushInv, OneLive

\* A flow is shown after it was stored.
LEMMA PublishStep ==
    ASSUME PushInv, NEW h \in Pushes, Publish(h)
    PROVE  PushInv'
<1>0. PICK g, f : g = handler[h].gen /\ f = h[1]
  OBVIOUS
<1>1. /\ TypeInv' /\ Stays(h, "publish", "meta") /\ Others(h) /\ g \in Gens
      /\ \/ lives[g].closed /\ lives' = lives
         \/ ~lives[g].closed /\ OnlyLive(g) /\ Shows(lives[g], lives'[g], f)
  BY <1>0, PublishFacts DEF PushInv, Stays
<1>2. /\ UNCHANGED <<next, waiting, hub, analysis, created, rows, messages, disturbed>>
      /\ UNCHANGED <<status, counted, closing, restarts>>
  BY DEF Publish, client, bundle, session, bounds
<1>3. Awaits'
  BY <1>1, <1>2, AwaitsStep DEF PushInv, Stays
<1>4. f \in Flows /\ push(h).what = "flow" /\ h = <<f, h[2]>>
  BY <1>0, <1>1, PushFacts DEF PushInv, TypeInv, CallOK, Stays, FlowSteps
<1>5. \A k \in Gens : lives'[k].closed = lives[k].closed /\ (k # g => lives'[k] = lives[k])
  BY <1>1 DEF OnlyLive, Shows
<1>6. OneLive'
  <2>1. \A k \in Gens : Used(k)' => Used(k)
    BY <1>0, <1>1, <1>5, UsedStep DEF PushInv, Stays
  <2>2. hub # None => lives'[hub].closed = lives[hub].closed
    BY <1>5 DEF PushInv, TypeInv, GatewayTypes
  <2> QED BY <1>2, <2>1, <2>2, OneLiveStep DEF PushInv
<1>7. Kept'
  <2>1. Inserted(h)
    BY <1>1 DEF Inserted, Stays
  <2> QED BY <1>1, <1>2, <2>1, KeptStep DEF PushInv
<1>8. OnTheWay'
  BY <1>1, <1>2, OnTheWayStep DEF PushInv, Stays
<1>9. StoredFirst'
  <2>1. rows[f] # None
    BY <1>0, <1>1, <1>4 DEF PushInv, Kept, Inserted, Stays
  <2>2. ASSUME NEW k \in Gens, NEW e \in Flows
        PROVE  /\ lives'[k].flows[e] # None => rows[e] # None
               /\ ToSet(lives'[k].msgs[e]) \subseteq ToSet(messages[e])
    <3>1. /\ lives[k].flows[e] # None => rows[e] # None
          /\ ToSet(lives[k].msgs[e]) \subseteq ToSet(messages[e])
      BY DEF PushInv, StoredFirst
    <3>2. CASE lives'[k] = lives[k]
      BY <3>1, <3>2
    <3>3. CASE k = g /\ Shows(lives[g], lives'[g], f)
      <4>1. lives[g].flows \in [Flows -> Shown \cup {None}]
        BY <1>1 DEF PushInv, TypeInv, GatewayTypes, Live
      <4>2. lives'[g].msgs = lives[g].msgs /\ (e # f => lives'[g].flows[e] = lives[g].flows[e])
        BY <3>3, <4>1 DEF Shows
      <4> QED BY <2>1, <3>1, <3>3, <4>2
    <3> QED BY <1>1, <1>5, <3>2, <3>3
  <2> QED BY <1>2, <2>2 DEF StoredFirst
<1>10. LiveCounts'
  <2>0. SUFFICES ASSUME NEW e \in Flows, e \notin disturbed, closing = "no" PROVE CountOK(e)'
    BY <1>2 DEF LiveCounts
  <2>1. CountOK(e) /\ g = hub /\ hub # None /\ ~lives[hub].closed
    BY <1>0, <1>1, <2>0, ShowsInHub DEF PushInv, LiveCounts, OneLive
  <2>2. Shows(lives[g], lives'[g], f)
    BY <1>1, <2>1
  <2>3. lives[g].flows \in [Flows -> Shown \cup {None}] /\ lives[g].msgs \in [Flows -> Seq(Msgs)]
    BY <1>1 DEF PushInv, TypeInv, GatewayTypes, Live
  <2>4. CASE e # f
    <3>1. lives'[g].flows[e] = lives[g].flows[e] /\ lives'[g].msgs[e] = lives[g].msgs[e]
      BY <2>2, <2>3, <2>4 DEF Shows
    <3>2. <<e, 1>> \in Pushes => handler'[<<e, 1>>] = handler[<<e, 1>>]
      BY <1>1, <1>4, <2>4 DEF Others
    <3> QED BY <1>2, <2>1, <3>1, <3>2 DEF CountOK
  <2>5. CASE e = f
    <3>1. PICK pf \in Shown :
             /\ lives'[g].flows[f] = pf /\ lives'[g].msgs[f] = lives[g].msgs[f]
             /\ lives[g].flows[f] = None => pf.count = 0
             /\ lives[g].flows[f] # None => pf.count = lives[g].flows[f].count
      BY <1>4, <2>2, <2>3 DEF Shows
    <3>2. lives'[g].flows[f] # None
      BY <3>1, NoneIsNone
    <3>3. pf.count = Len(lives[g].msgs[f])
      <4>1. CASE lives[g].flows[f] = None
        <5>1. lives[g].msgs[f] = << >> /\ pf.count = 0
          BY <2>1, <2>5, <3>1, <4>1 DEF CountOK
        <5> QED BY <5>1
      <4>2. CASE lives[g].flows[f] # None
        BY <2>1, <2>5, <3>1, <4>2 DEF CountOK
      <4> QED BY <4>1, <4>2
    <3> QED BY <1>2, <2>1, <2>5, <3>1, <3>2, <3>3 DEF CountOK
  <2> QED BY <2>4, <2>5
<1>11. Analyses' /\ CloseOrder'
  BY <1>2 DEF PushInv, Analyses, CloseOrder
<1> QED BY <1>1, <1>3, <1>6, <1>7, <1>8, <1>9, <1>10, <1>11 DEF PushInv

\* recordWSMeta ends the push of a flow.
LEMMA MetaStep ==
    ASSUME PushInv, NEW h \in Pushes, RecordWSMeta(h)
    PROVE  PushInv'
<1>1. /\ TypeInv' /\ Others(h)
      /\ handler[h].at = "meta" /\ handler'[h].at = "done" /\ handler'[h].gen = None
  BY MetaFacts DEF PushInv
<1>2. /\ UNCHANGED <<next, waiting, hub, lives, analysis, created, rows, messages, disturbed>>
      /\ UNCHANGED <<status, counted, closing, restarts>>
  BY DEF RecordWSMeta, client, bundle, session, bounds
<1>3. Awaits'
  BY <1>1, <1>2, AwaitsStep DEF PushInv
<1>4. Inserted(h)
  BY <1>1 DEF Inserted
<1> QED BY <1>1, <1>2, <1>3, <1>4, QuietStep

\* A message is framed.
LEMMA DecodeStep ==
    ASSUME PushInv, NEW h \in Pushes, Decode(h)
    PROVE  PushInv'
<1>1. TypeInv' /\ Stays(h, "feed", "store")
  BY DecodeFacts DEF PushInv
<1>2. /\ UNCHANGED <<next, waiting, hub, lives, analysis, created, rows, messages, disturbed>>
      /\ UNCHANGED <<status, counted, closing, restarts>>
  BY DEF Decode, client, bundle, session, bounds
<1>3. Awaits'
  BY <1>1, <1>2, AwaitsStep DEF PushInv, Stays
<1>4. ~Inserted(h)'
  BY <1>1 DEF Inserted, Stays
<1> QED BY <1>1, <1>2, <1>3, <1>4, QuietStep DEF Stays
\* The messages are stored, then the call has them to show.
LEMMA StoreStep ==
    ASSUME PushInv, NEW h \in Pushes, InsertMessages(h)
    PROVE  PushInv'
<1> DEFINE f == h[1]
<1>1. /\ TypeInv' /\ Others(h) /\ push(h).what = "frame"
      /\ messages[f] \in Seq(Msgs) /\ handler[h].out \in Seq(Msgs)
      /\ messages' = [messages EXCEPT ![f] = messages[f] \o handler[h].out]
      /\ handler[h].at = "store"
      /\ \/ handler'[h].at = "done" /\ handler'[h].gen = None
         \/ Stays(h, "store", "fanout") /\ handler'[h].out = handler[h].out
  BY StoreFacts DEF PushInv
<1>2. /\ UNCHANGED <<next, waiting, hub, lives, analysis, created, rows, disturbed>>
      /\ UNCHANGED <<status, counted, closing, restarts>>
  BY DEF InsertMessages, client, gateway, session, bounds
<1>3. /\ handler'[h].at \in {"done", "fanout"} /\ handler'[h].gen \in {handler[h].gen, None}
      /\ handler'[h].at = "fanout" => handler'[h].out = handler[h].out
  BY <1>1 DEF Stays
<1>4. f \in Flows /\ messages \in [Flows -> Seq(Msgs)]
  BY PushFacts DEF PushInv, TypeInv, BundleTypes
<1>5. \A e \in Flows : ToSet(messages[e]) \subseteq ToSet(messages'[e])
  <2> SUFFICES ASSUME NEW e \in Flows PROVE ToSet(messages[e]) \subseteq ToSet(messages'[e])
    OBVIOUS
  <2>1. CASE e = f
    BY <1>1, <1>4, <2>1, ToSetConcat
  <2>2. CASE e # f
    BY <1>1, <1>4, <2>2
  <2> QED BY <2>1, <2>2
<1>6. ToSet(handler[h].out) \subseteq ToSet(messages'[f])
  BY <1>1, <1>4, ToSetConcat
<1>7. Awaits'
  BY <1>1, <1>2, <1>3, AwaitsStep DEF PushInv
<1>8. OneLive'
  <2>1. \A g \in Gens : Used(g)' => Used(g)
    BY <1>1, <1>2, <1>3, UsedStep DEF PushInv
  <2> QED BY <1>2, <2>1, OneLiveStep DEF PushInv
<1>9. Kept'
  <2>1. ~Inserted(h)'
    BY <1>1, <1>3 DEF Inserted
  <2> QED BY <1>1, <1>2, <2>1, KeptStep DEF PushInv
<1>10. OnTheWay'
  BY <1>1, <1>3, <1>5, <1>6, OnTheWayStep DEF PushInv
<1>11. LiveCounts'
  BY <1>1, <1>2, CountsStep DEF PushInv
<1>12. StoredFirst'
  BY <1>2, <1>5 DEF PushInv, StoredFirst
<1>13. Analyses' /\ CloseOrder'
  BY <1>2 DEF PushInv, Analyses, CloseOrder
<1> QED BY <1>1, <1>7, <1>8, <1>9, <1>10, <1>11, <1>12, <1>13 DEF PushInv

\* A message is shown after it was stored, and counted.
LEMMA FanoutStep ==
    ASSUME PushInv, NEW h \in Pushes, PublishMessage(h)
    PROVE  PushInv'
<1>0. PICK g, f, m : g = handler[h].gen /\ f = h[1] /\ m = Head(handler[h].out)
  OBVIOUS
<1>1. /\ TypeInv' /\ Others(h) /\ push(h).what = "frame" /\ g \in Gens
      /\ handler[h].at = "fanout" /\ handler[h].out \in Seq(Msgs) /\ handler[h].out # << >>
      /\ \/ lives[g].closed /\ lives' = lives
         \/ ~lives[g].closed /\ OnlyLive(g) /\ Adds(lives[g], lives'[g], f, m)
      /\ \/ handler'[h].at = "done" /\ handler'[h].gen = None
         \/ Stays(h, "fanout", "fanout") /\ handler'[h].out = Tail(handler[h].out)
  BY <1>0, FanoutFacts DEF PushInv
<1>2. /\ UNCHANGED <<next, waiting, hub, analysis, created, rows, messages, disturbed>>
      /\ UNCHANGED <<status, counted, closing, restarts>>
  BY DEF PublishMessage, client, bundle, session, bounds
<1>3. /\ handler'[h].at \in {"done", "fanout"} /\ handler'[h].gen \in {g, None}
      /\ handler'[h].at = "fanout" => handler'[h].out = Tail(handler[h].out)
  BY <1>0, <1>1 DEF Stays
<1>4. f \in Flows /\ h = <<f, h[2]>> /\ h[2] \in 1..Len(Script[f]) /\ h[2] # 1 /\ h[2] \in Nat
  BY <1>0, <1>1, PushFacts
<1>5. \A k \in Gens : lives'[k].closed = lives[k].closed /\ (k # g => lives'[k] = lives[k])
  BY <1>1 DEF OnlyLive, Adds
<1>6. ToSet(Tail(handler[h].out)) \subseteq ToSet(messages[f]) /\ m \in ToSet(messages[f])
  <2>1. ToSet(handler[h].out) \subseteq ToSet(messages[f])
    BY <1>0, <1>1 DEF PushInv, OnTheWay
  <2> QED BY <1>0, <1>1, <2>1, ToSetTail
<1>7. Awaits'
  BY <1>1, <1>2, <1>3, AwaitsStep DEF PushInv
<1>8. OneLive'
  <2>1. \A k \in Gens : Used(k)' => Used(k)
    BY <1>0, <1>1, <1>3, <1>5, UsedStep DEF PushInv
  <2>2. hub # None => lives'[hub].closed = lives[hub].closed
    BY <1>5 DEF PushInv, TypeInv, GatewayTypes
  <2> QED BY <1>2, <2>1, <2>2, OneLiveStep DEF PushInv
<1>9. Kept'
  <2>1. ~Inserted(h)'
    BY <1>1, <1>3 DEF Inserted
  <2> QED BY <1>1, <1>2, <2>1, KeptStep DEF PushInv
<1>10. OnTheWay'
  BY <1>0, <1>1, <1>2, <1>3, <1>6, OnTheWayStep DEF PushInv
<1>11. lives[g].flows \in [Flows -> Shown \cup {None}] /\ lives[g].msgs \in [Flows -> Seq(Msgs)]
  BY <1>1 DEF PushInv, TypeInv, GatewayTypes, Live
<1>12. m \in Msgs
  BY <1>0, <1>1, HeadTailProperties
<1>13. StoredFirst'
  <2>1. ASSUME NEW k \in Gens, NEW e \in Flows
        PROVE  /\ lives'[k].flows[e] # None => rows[e] # None
               /\ ToSet(lives'[k].msgs[e]) \subseteq ToSet(messages[e])
    <3>1. /\ lives[k].flows[e] # None => rows[e] # None
          /\ ToSet(lives[k].msgs[e]) \subseteq ToSet(messages[e])
      BY DEF PushInv, StoredFirst
    <3>2. CASE lives'[k] = lives[k]
      BY <3>1, <3>2
    <3>3. CASE k = g /\ Adds(lives[g], lives'[g], f, m)
      <4>1. CASE e # f
        <5>1. lives'[g].flows[e] = lives[g].flows[e] /\ lives'[g].msgs[e] = lives[g].msgs[e]
          BY <1>11, <3>3, <4>1 DEF Adds
        <5> QED BY <3>1, <3>3, <5>1
      <4>2. CASE e = f
        <5>1. /\ lives'[g].flows[f] = bumped(lives[g].flows[f])
              /\ lives'[g].msgs[f] = Append(lives[g].msgs[f], m)
          BY <1>4, <1>11, <3>3 DEF Adds
        <5>2. ToSet(lives'[g].msgs[f]) \subseteq ToSet(lives[g].msgs[f]) \cup {m}
          <6>1. lives[g].msgs[f] \in Seq(Msgs)
            BY <1>4, <1>11
          <6>2. ToSet(Append(lives[g].msgs[f], m)) \subseteq ToSet(lives[g].msgs[f]) \cup {m}
            BY ONLY <1>12, <6>1, ToSetAppend
          <6> QED BY ONLY <5>1, <6>2
        <5>3. lives'[g].flows[f] # None => lives[g].flows[f] # None
          BY <5>1 DEF bumped
        <5> QED BY <1>6, <3>1, <3>3, <4>2, <5>2, <5>3
      <4> QED BY <4>1, <4>2
    <3> QED BY <1>1, <1>5, <3>2, <3>3
  <2> QED BY <1>2, <2>1 DEF StoredFirst
<1>14. LiveCounts'
  <2>0. SUFFICES ASSUME NEW e \in Flows, e \notin disturbed, closing = "no" PROVE CountOK(e)'
    BY <1>2 DEF LiveCounts
  <2>1. CountOK(e) /\ g = hub /\ hub # None /\ ~lives[hub].closed
    BY <1>0, <1>1, <2>0, ShowsInHub DEF PushInv, LiveCounts, OneLive
  <2>2. Adds(lives[g], lives'[g], f, m)
    BY <1>1, <2>1
  <2>3. <<e, 1>> \in Pushes => handler'[<<e, 1>>] = handler[<<e, 1>>]
    BY <1>1, <1>4 DEF Others
  <2>4. CASE e # f
    <3>1. lives'[g].flows[e] = lives[g].flows[e] /\ lives'[g].msgs[e] = lives[g].msgs[e]
      BY <1>11, <2>2, <2>4 DEF Adds
    <3> QED BY <1>2, <2>1, <2>3, <3>1 DEF CountOK
  <2>5. CASE e = f
    <3>1. lives[g].flows[f] # None
      <4>1. <<f, 1>> \in Pushes /\ 1 \in 1..Len(Script[f])
        <5>1. 1 \in 1..Len(Script[f])
          BY <1>4
        <5> QED BY <1>4, <5>1, AwaitedFacts
      <4>2. Begun(f, 1) /\ Begun(f, h[2])
        BY <1>4, <4>1 DEF PushInv, Awaits
      <4>3. next[f] \in Nat /\ ~(h[2] > next[f])
        BY <1>1, <1>4, <4>2 DEF Begun, PushInv, TypeInv, ClientTypes
      <4>4. 1 < next[f]
        BY <1>4, <4>3
      <4>5. handler[<<f, 1>>].at = "done"
        BY <2>0, <2>5, <4>2, <4>3, <4>4 DEF Begun
      <4> QED BY <2>1, <2>5, <4>1, <4>5 DEF CountOK
    <3>2. /\ lives'[g].flows[f] = bumped(lives[g].flows[f])
          /\ lives'[g].msgs[f] = Append(lives[g].msgs[f], m)
      BY <1>4, <1>11, <2>2 DEF Adds
    <3>3. lives[g].flows[f] \in Shown /\ lives[g].flows[f].count = Len(lives[g].msgs[f])
      BY <1>4, <1>11, <2>1, <2>5, <3>1 DEF CountOK
    <3>4. bumped(lives[g].flows[f]) \in Shown
          /\ bumped(lives[g].flows[f]).count = lives[g].flows[f].count + 1
      BY <3>3, BumpType
    <3>5. Len(Append(lives[g].msgs[f], m)) = Len(lives[g].msgs[f]) + 1
      BY <1>4, <1>11, <1>12, AppendProperties
    <3>6. lives'[g].flows[f] # None /\ lives'[g].flows[f].count = Len(lives'[g].msgs[f])
      BY <3>2, <3>3, <3>4, <3>5, NoneIsNone
    <3> QED BY <1>2, <2>1, <2>5, <3>6 DEF CountOK
  <2> QED BY <2>4, <2>5
<1>15. Analyses' /\ CloseOrder'
  BY <1>2 DEF PushInv, Analyses, CloseOrder
<1> QED BY <1>1, <1>7, <1>8, <1>9, <1>10, <1>13, <1>14, <1>15 DEF PushInv

\* A store call fails.
LEMMA StoreFailsStep ==
    ASSUME PushInv, NEW h \in Pushes, StoreFails(h)
    PROVE  PushInv'
<1>1. TypeInv' /\ Others(h) /\ handler'[h].at = "failed" /\ handler'[h].gen = None
  BY StoreFailsFacts DEF PushInv
<1>2. /\ UNCHANGED <<next, waiting, hub, lives, analysis, created, rows, messages>>
      /\ UNCHANGED <<status, counted, closing, restarts>> /\ disturbed' = disturbed \cup {h[1]}
      /\ handler[h].at \in {"insert", "store"}
  BY DEF StoreFails, client, gateway, bundle, session
<1>3. Awaits'
  BY <1>1, <1>2, AwaitsStep DEF PushInv
<1>4. ~Inserted(h)'
  BY <1>1 DEF Inserted
<1> QED BY <1>1, <1>2, <1>3, <1>4, QuietStep

-----------------------------------------------------------------------------
(* The steps of the client.                                                  *)

\* A hook of a flow pushes, the one before having been answered or given up.
LEMMA SendStep ==
    ASSUME PushInv, NEW f \in Flows, Send(f)
    PROVE  PushInv'
<1>0. PICK n, h : n = next[f] + 1 /\ h = <<f, n>>
  OBVIOUS
<1>1. /\ TypeInv' /\ ~waiting[f] /\ n \in 1..Len(Script[f])
      /\ next' = [next EXCEPT ![f] = n] /\ waiting' = [waiting EXCEPT ![f] = TRUE]
      /\ h \in Pushes /\ Others(h) /\ handler[h].at = "none"
      /\ handler'[h].at = "sent" /\ handler'[h].gen = handler[h].gen
  BY <1>0, SendFacts DEF PushInv
<1>2. /\ UNCHANGED <<hub, lives, analysis, created, rows, messages, disturbed>>
      /\ UNCHANGED <<status, counted, closing, restarts>>
  BY DEF Send, gateway, bundle, session, bounds
<1>3. next[f] \in Nat /\ Len(Script[f]) \in Nat
  BY PushAssumption, LenProperties DEF PushInv, TypeInv, ClientTypes
<1>4. Awaits'
  <2>1. ASSUME NEW e \in Flows, NEW k \in 1..Len(Script[e]) PROVE Begun(e, k)'
    <3>1. <<e, k>> \in Pushes /\ Begun(e, k) /\ k \in Nat
      BY AwaitedFacts DEF PushInv, Awaits
    <3>2. CASE e # f
      <4>1. next'[e] = next[e] /\ waiting'[e] = waiting[e] /\ handler'[<<e, k>>] = handler[<<e, k>>]
        BY <1>0, <1>1, <3>1, <3>2 DEF PushInv, TypeInv, ClientTypes, Others
      <4> QED BY <1>2, <3>1, <4>1 DEF Begun
    <3>3. CASE e = f
      <4>1. next'[f] = n /\ waiting'[f]
        BY <1>1 DEF PushInv, TypeInv, ClientTypes
      <4>2. CASE k = n
        BY <1>0, <1>1, <1>3, <3>3, <4>1, <4>2 DEF Begun
      <4>3. CASE k # n
        <5>1. handler'[<<f, k>>] = handler[<<f, k>>]
          BY <1>0, <1>1, <3>1, <3>3, <4>3 DEF Others
        <5>2. k > n => k > next[f]
          BY <1>0, <1>3, <3>1
        <5>3. k <= n => k <= next[f]
          BY <1>0, <1>3, <3>1, <4>3
        <5> QED BY <1>1, <1>2, <3>1, <3>3, <4>1, <5>1, <5>2, <5>3 DEF Begun
      <4> QED BY <4>2, <4>3
    <3> QED BY <3>2, <3>3
  <2>2. ASSUME NEW e \in Flows
        PROVE  next'[e] \in 0..Len(Script[e]) /\ (waiting'[e] => next'[e] > 0)
    <3>1. CASE e # f
      <4>1. next'[e] = next[e] /\ waiting'[e] = waiting[e]
        BY <1>1, <3>1 DEF PushInv, TypeInv, ClientTypes
      <4> QED BY <4>1 DEF PushInv, Awaits
    <3>2. CASE e = f
      <4>1. next'[f] = n
        BY <1>1 DEF PushInv, TypeInv, ClientTypes
      <4> QED BY <1>0, <1>1, <1>3, <3>2, <4>1
    <3> QED BY <3>1, <3>2
  <2> QED BY <2>1, <2>2 DEF Awaits
<1>5. ~Inserted(h)'
  BY <1>1 DEF Inserted
<1> QED BY <1>1, <1>2, <1>4, <1>5, QuietStep

\* A hook goes on, its push answered or given up.
LEMMA HookGoesOn ==
    ASSUME PushInv, NEW f \in Flows, next' = next, waiting' = [waiting EXCEPT ![f] = FALSE],
           disturbed \subseteq disturbed',
           \A q \in Pushes : handler'[q].at = handler[q].at,
           f \in disturbed' \/ handler[awaited(f)].at \in {"done", "failed"}
    PROVE  Awaits'
<1>1. ASSUME NEW e \in Flows, NEW k \in 1..Len(Script[e]) PROVE Begun(e, k)'
  <2>1. <<e, k>> \in Pushes /\ Begun(e, k) /\ k \in Nat /\ next[e] \in Nat
    BY AwaitedFacts DEF PushInv, Awaits, TypeInv, ClientTypes
  <2>2. handler'[<<e, k>>].at = handler[<<e, k>>].at /\ next'[e] = next[e]
    BY <2>1
  <2>3. CASE e # f
    <3>1. waiting'[e] = waiting[e]
      BY <2>3 DEF PushInv, TypeInv, ClientTypes
    <3> QED BY <2>1, <2>2, <3>1 DEF Begun
  <2>4. CASE e = f
    <3>1. CASE e \in disturbed'
      BY <2>1, <2>2, <3>1 DEF Begun
    <3>2. CASE e \notin disturbed' /\ k = next[e]
      <4>1. handler[<<e, k>>].at \in {"done", "failed"}
        BY <2>4, <3>2 DEF awaited
      <4> QED BY <2>1, <2>2, <3>2, <4>1 DEF Begun
    <3>3. CASE e \notin disturbed' /\ k # next[e]
      <4>1. k <= next[e] => k < next[e]
        BY <2>1, <3>3
      <4> QED BY <2>1, <2>2, <3>3, <4>1 DEF Begun
    <3> QED BY <3>1, <3>2, <3>3
  <2> QED BY <2>3, <2>4
<1>2. ASSUME NEW e \in Flows PROVE waiting'[e] => waiting[e]
  BY DEF PushInv, TypeInv, ClientTypes
<1> QED BY <1>1, <1>2 DEF PushInv, Awaits

\* The reply.
LEMMA ReturnsStep ==
    ASSUME PushInv, NEW f \in Flows, Returns(f)
    PROVE  PushInv'
<1>1. /\ UNCHANGED <<next, handler, hub, lives, analysis, created, rows, messages, disturbed>>
      /\ UNCHANGED <<tcpStates, wsStates, status, counted, closing, restarts>>
      /\ waiting' = [waiting EXCEPT ![f] = FALSE]
      /\ handler[awaited(f)].at \in {"done", "failed"}
  BY DEF Returns, Ended, gateway, bundle, session, bounds
<1>2. TypeInv'
  <2>1. \A q \in Pushes : CallOK(q)'
    BY <1>1 DEF PushInv, TypeInv, CallOK
  <2> QED BY <1>1, <2>1 DEF PushInv, TypeInv, ClientTypes, GatewayTypes, BundleTypes
<1>3. Awaits'
  BY <1>1, HookGoesOn
<1>4. UNCHANGED <<hub, lives, handler, closing>>
  BY <1>1
<1>5. OneLive'
  BY <1>4 DEF PushInv, OneLive, Used
<1>6. Kept' /\ OnTheWay'
  BY <1>1 DEF PushInv, Kept, Inserted, OnTheWay
<1>7. LiveCounts'
  BY <1>1 DEF PushInv, LiveCounts, CountOK
<1>8. Analyses' /\ CloseOrder' /\ StoredFirst'
  BY <1>1 DEF PushInv, Analyses, CloseOrder, StoredFirst
<1> QED BY <1>2, <1>3, <1>5, <1>6, <1>7, <1>8 DEF PushInv

\* A batch does not arrive.
LEMMA LoseStep ==
    ASSUME PushInv, NEW f \in Flows, Lose(f)
    PROVE  PushInv'
<1>0. PICK h : h = awaited(f)
  OBVIOUS
<1>1. /\ TypeInv' /\ h \in Pushes /\ Others(h) /\ h[1] = f
      /\ handler[h].at = "sent" /\ handler'[h].at = "lost" /\ handler'[h].gen = handler[h].gen
  BY <1>0, LoseFacts DEF PushInv, awaited
<1>2. /\ UNCHANGED <<next, waiting, hub, lives, analysis, created, rows, messages>>
      /\ UNCHANGED <<status, counted, closing, restarts>> /\ disturbed' = disturbed \cup {f}
  BY DEF Lose, client, gateway, bundle, session
<1>3. Awaits'
  BY <1>1, <1>2, AwaitsStep DEF PushInv
<1>4. ~Inserted(h)'
  BY <1>1 DEF Inserted
<1> QED BY <1>1, <1>2, <1>3, <1>4, QuietStep

\* PUSH_TIMEOUT.
LEMMA TimesOutStep ==
    ASSUME PushInv, NEW f \in Flows, TimesOut(f)
    PROVE  PushInv'
<1>0. PICK h : h = awaited(f)
  OBVIOUS
<1>1. /\ TypeInv' /\ h \in Pushes /\ Others(h) /\ h[1] = f
      /\ handler'[h].at = handler[h].at /\ handler'[h].gen = handler[h].gen
      /\ handler'[h].out = handler[h].out
  BY <1>0, TimesOutFacts DEF PushInv, awaited
<1>2. /\ UNCHANGED <<next, hub, lives, analysis, created, rows, messages>>
      /\ UNCHANGED <<status, counted, closing, restarts>> /\ disturbed' = disturbed \cup {f}
      /\ waiting' = [waiting EXCEPT ![f] = FALSE]
  BY DEF TimesOut, gateway, bundle, session
<1>3. Awaits'
  <2>1. \A q \in Pushes : handler'[q].at = handler[q].at
    BY <1>1 DEF Others
  <2> QED BY <1>2, <2>1, HookGoesOn
<1>4. Inserted(h)' => Inserted(h)
  BY <1>1 DEF Inserted
<1> QED BY <1>1, <1>2, <1>3, <1>4, QuietStep
-----------------------------------------------------------------------------
(* The close and the restart.                                                *)

\* hub.stop: what was shown is let go, and no live session is the hub's.
LEMMA HubStopStep ==
    ASSUME PushInv, HubStop
    PROVE  PushInv'
<1>1. /\ UNCHANGED <<next, waiting, handler, analysis, created, rows, messages, disturbed>>
      /\ UNCHANGED <<tcpStates, wsStates, status, counted, restarts>>
      /\ hub' = None /\ closing = "no" /\ closing' = "stopped"
      /\ lives' = IF hub = None THEN lives ELSE [lives EXCEPT ![hub] = Closed]
  BY DEF HubStop, client, bundle, bounds
<1>2. Closed \in Live /\ \A f \in Flows : Closed.flows[f] = None /\ Closed.msgs[f] = << >>
  <2>1. << >> \in Seq(Msgs)
    BY EmptySeq
  <2> QED BY <2>1 DEF Closed, Empty, NoMessages, Live
<1>3. /\ lives' \in [Gens -> Live]
      /\ \A g \in Gens : lives'[g] = IF g = hub THEN Closed ELSE lives[g]
  BY <1>1, <1>2, NoneIsNone DEF PushInv, TypeInv, GatewayTypes
<1>4. TypeInv'
  <2>1. \A q \in Pushes : CallOK(q)'
    BY <1>1 DEF PushInv, TypeInv, CallOK
  <2> QED BY <1>1, <1>3, <2>1 DEF PushInv, TypeInv, ClientTypes, GatewayTypes, BundleTypes
<1>5. Awaits'
  BY <1>1 DEF PushInv, Awaits, Begun
<1>6. OneLive'
  <2>1. ASSUME NEW g \in Gens, Used(g)' PROVE g = hub
    <3> SUFFICES ASSUME g # hub PROVE FALSE
      OBVIOUS
    <3>1. Used(g)
      BY <1>1, <1>3, <2>1 DEF Used
    <3> QED BY <1>1, <3>1 DEF PushInv, OneLive
  <2> QED BY <1>1, <2>1 DEF OneLive
<1>7. Kept' /\ OnTheWay'
  BY <1>1 DEF PushInv, Kept, Inserted, OnTheWay
<1>8. StoredFirst'
  <2>1. ASSUME NEW g \in Gens, NEW f \in Flows
        PROVE  /\ lives'[g].flows[f] # None => rows[f] # None
               /\ ToSet(lives'[g].msgs[f]) \subseteq ToSet(messages[f])
    <3>1. CASE g = hub
      <4>1. lives'[g].flows[f] = None /\ lives'[g].msgs[f] = << >>
        BY <1>2, <1>3, <3>1
      <4> QED BY <4>1 DEF ToSet
    <3>2. CASE g # hub
      BY <1>3, <3>2 DEF PushInv, StoredFirst
    <3> QED BY <3>1, <3>2
  <2> QED BY <1>1, <2>1 DEF StoredFirst
<1>9. Analyses' /\ CloseOrder' /\ LiveCounts'
  BY <1>1 DEF PushInv, Analyses, CloseOrder, LiveCounts
<1> QED BY <1>4, <1>5, <1>6, <1>7, <1>8, <1>9 DEF PushInv

\* CountFlows and FinishSession.
LEMMA CloseSteps ==
    ASSUME PushInv, CountFlows \/ FinishSession
    PROVE  PushInv'
<1>1. /\ UNCHANGED <<next, waiting, handler, hub, lives, analysis, created, rows, messages>>
      /\ UNCHANGED <<tcpStates, wsStates, restarts, disturbed>>
      /\ closing # "no" /\ closing' # "no"
  BY DEF CountFlows, FinishSession, client, gateway, bundle, bounds
<1>2. Cardinality(stored) \in Nat
  <2>1. IsFiniteSet(stored)
    BY PushAssumption, FS_Subset DEF stored
  <2> QED BY <2>1, FS_CardinalityType
<1>3. CloseOrder' /\ closing' \in {"counted", "done"} /\ status' \in {"open", "closed"}
  BY <1>2 DEF PushInv, CloseOrder, CountFlows, FinishSession, TypeInv, BundleTypes
<1>4. TypeInv'
  <2>1. \A q \in Pushes : CallOK(q)'
    BY <1>1 DEF PushInv, TypeInv, CallOK
  <2> QED BY <1>1, <1>3, <2>1 DEF PushInv, TypeInv, ClientTypes, GatewayTypes, BundleTypes
<1>5. Awaits'
  BY <1>1 DEF PushInv, Awaits, Begun
<1>6. OneLive'
  BY <1>1 DEF PushInv, OneLive, Used
<1>7. Kept' /\ OnTheWay'
  BY <1>1 DEF PushInv, Kept, Inserted, OnTheWay
<1>8. Analyses' /\ StoredFirst' /\ LiveCounts'
  BY <1>1 DEF PushInv, Analyses, StoredFirst, LiveCounts
<1> QED BY <1>3, <1>4, <1>5, <1>6, <1>7, <1>8 DEF PushInv

\* The gateway dies: nothing in it is used any more, and every flow that had begun was
\* disturbed.
LEMMA RestartStep ==
    ASSUME PushInv, Restart
    PROVE  PushInv'
<1>1. /\ UNCHANGED <<next, waiting, created, rows, messages, status, counted, closing>>
      /\ restarts' = restarts + 1 /\ hub' = None /\ analysis' = None
      /\ lives' = [g \in Gens |-> Empty]
      /\ tcpStates' = [f \in Flows |-> None] /\ wsStates' = [f \in Flows |-> None]
      /\ disturbed' = disturbed \cup {f \in Flows : next[f] > 0}
  BY DEF Restart, client, bundle, session
<1>2. ASSUME NEW h \in Pushes
      PROVE  \/ handler'[h] = handler[h] /\ handler[h].at \in {"none", "lost", "done", "failed"}
             \/ /\ handler'[h] = [Idle EXCEPT !.at = "failed"]
                /\ handler[h].at \notin {"none", "lost", "done", "failed"}
  BY DEF Restart, Ended
<1>3. [Idle EXCEPT !.at = "failed"] \in Call
      /\ [Idle EXCEPT !.at = "failed"].at = "failed" /\ [Idle EXCEPT !.at = "failed"].gen = None
  BY IdleType DEF Steps, Idle
<1>4. ASSUME NEW h \in Pushes
      PROVE  /\ handler'[h] \in Call /\ handler'[h].gen = None /\ CallOK(h)'
             /\ \/ handler'[h].at = handler[h].at
                \/ handler'[h].at = "failed" /\ handler[h].at # "none"
             /\ handler'[h].at \in {"none", "lost", "done", "failed"}
  <2>1. handler[h] \in Call /\ CallOK(h)
    BY DEF PushInv, TypeInv
  <2>2. CASE handler'[h] = handler[h] /\ handler[h].at \in {"none", "lost", "done", "failed"}
    BY <2>1, <2>2 DEF CallOK, FlowSteps, FrameSteps
  <2>3. CASE /\ handler'[h] = [Idle EXCEPT !.at = "failed"]
             /\ handler[h].at \notin {"none", "lost", "done", "failed"}
    BY <1>3, <2>3 DEF CallOK, FlowSteps, FrameSteps
  <2> QED BY <1>2, <2>2, <2>3
<1>5. Empty \in Live /\ \A f \in Flows : Empty.flows[f] = None /\ Empty.msgs[f] = << >>
  <2>1. << >> \in Seq(Msgs)
    BY EmptySeq
  <2> QED BY <2>1 DEF Empty, NoMessages, Live
<1>6. TypeInv'
  <2>1. handler' \in [Pushes -> Call]
    <3>1. \E c : handler' = [h \in Pushes |-> c[h]]
      <4>1. handler' = [h \in Pushes |-> handler'[h]]
        BY DEF Restart
      <4> QED BY <4>1
    <3> QED BY <1>4, <3>1
  <2>2. lives' \in [Gens -> Live]
    BY <1>1, <1>5
  <2>3. GatewayTypes'
    BY <1>1, <2>2 DEF GatewayTypes
  <2>4. ClientTypes' /\ BundleTypes'
    BY <1>1 DEF PushInv, TypeInv, ClientTypes, BundleTypes
  <2> QED BY <1>4, <2>1, <2>3, <2>4 DEF TypeInv
<1>7. Awaits'
  <2>1. ASSUME NEW f \in Flows, NEW k \in 1..Len(Script[f]) PROVE Begun(f, k)'
    <3>1. <<f, k>> \in Pushes /\ Begun(f, k) /\ k \in Nat /\ k > 0 /\ next[f] \in Nat
      BY AwaitedFacts DEF PushInv, Awaits, TypeInv, ClientTypes
    <3>2. f \notin disturbed' => ~(k <= next[f])
      BY <1>1, <3>1
    <3>3. handler[<<f, k>>].at = "none" => handler'[<<f, k>>].at = "none"
      BY <1>4, <3>1
    <3> QED BY <1>1, <3>1, <3>2, <3>3 DEF Begun
  <2> QED BY <1>1, <2>1 DEF PushInv, Awaits
<1>8. OneLive'
  <2>1. \A g \in Gens : ~Used(g)'
    BY <1>1, <1>4, NoneIsNone DEF Used
  <2> QED BY <1>1, <2>1 DEF OneLive
<1>9. Kept'
  <2>1. ASSUME NEW q \in Pushes, Inserted(q)' PROVE Inserted(q)
    BY <1>4, <2>1 DEF Inserted
  <2> QED BY <1>1, <2>1 DEF PushInv, Kept
<1>10. OnTheWay'
  <2>1. \A q \in Pushes : handler'[q].at # "fanout"
    BY <1>4
  <2> QED BY <2>1 DEF OnTheWay
<1>11. StoredFirst'
  <2>1. ASSUME NEW g \in Gens, NEW f \in Flows
        PROVE  lives'[g].flows[f] = None /\ ToSet(lives'[g].msgs[f]) = {}
    BY <1>1, <1>5 DEF ToSet
  <2> QED BY <2>1 DEF StoredFirst
<1>12. LiveCounts'
  <2>1. ASSUME NEW f \in Flows, f \notin disturbed', NEW k \in 1..Len(Script[f])
        PROVE  handler'[<<f, k>>].at = "none"
    <3>1. <<f, k>> \in Pushes /\ Begun(f, k) /\ k \in Nat /\ k > 0 /\ next[f] \in Nat
      BY AwaitedFacts DEF PushInv, Awaits, TypeInv, ClientTypes
    <3>2. handler[<<f, k>>].at = "none"
      BY <1>1, <2>1, <3>1 DEF Begun
    <3> QED BY <1>4, <3>1, <3>2
  <2> QED BY <1>1, <2>1 DEF LiveCounts, CountOK
<1>13. Analyses'
  <2>1. Cardinality(created) \in Nat
    BY FS_CardinalityType DEF PushInv, Analyses
  <2> QED BY <1>1, <2>1 DEF PushInv, Analyses
<1>14. CloseOrder'
  BY <1>1 DEF PushInv, CloseOrder
<1> QED BY <1>6, <1>7, <1>8, <1>9, <1>10, <1>11, <1>12, <1>13, <1>14 DEF PushInv

-----------------------------------------------------------------------------
(* The theorem.                                                              *)

\* It is so at first.
LEMMA PushInit == Init => PushInv
<1> SUFFICES ASSUME Init PROVE PushInv
  OBVIOUS
<1>1. /\ << >> \in Seq(Msgs) /\ Idle \in Call /\ Idle.at = "none" /\ Idle.gen = None
      /\ 1 \in Gens /\ 1 # None
  <2>2. Idle \in Call
    BY EmptySeq DEF Idle, Call, Steps
  <2>3. 1 \in Gens
    BY PushAssumption DEF Gens
  <2> QED BY <2>2, <2>3, EmptySeq, NoneIsNone DEF Idle
<1>2. Empty \in Live /\ \A f \in Flows : Empty.flows[f] = None /\ Empty.msgs[f] = << >>
  BY <1>1 DEF Empty, NoMessages, Live
<1>3. \A h \in Pushes : handler[h].at = "none" /\ handler[h].gen = None
  BY <1>1 DEF Init
<1>4. \A g \in Gens : lives[g] = Empty
  BY DEF Init
<1>5. TypeInv
  <2>1. \A h \in Pushes : CallOK(h)
    BY <1>3 DEF CallOK, FlowSteps, FrameSteps
  <2>2. ClientTypes /\ GatewayTypes /\ BundleTypes
    BY <1>1, <1>2 DEF Init, ClientTypes, GatewayTypes, BundleTypes, NoMessages
  <2>3. handler \in [Pushes -> Call]
    BY <1>1 DEF Init
  <2> QED BY <2>1, <2>2, <2>3 DEF TypeInv
<1>6. Awaits
  <2>1. ASSUME NEW f \in Flows, NEW k \in 1..Len(Script[f]) PROVE Begun(f, k)
    <3>1. <<f, k>> \in Pushes /\ next[f] = 0 /\ k > 0
      BY AwaitedFacts DEF Init
    <3> QED BY <1>3, <3>1 DEF Begun
  <2>2. ASSUME NEW f \in Flows PROVE next[f] \in 0..Len(Script[f]) /\ ~waiting[f]
    BY PushAssumption, LenProperties DEF Init
  <2> QED BY <2>1, <2>2 DEF Awaits
<1>7. OneLive
  <2>1. \A g \in Gens : ~Used(g)
    BY <1>3, <1>4, NoneIsNone DEF Used
  <2>2. hub = 1 /\ ~lives[1].closed
    BY <1>1, <1>4 DEF Init, Empty
  <2> QED BY <1>1, <2>1, <2>2 DEF OneLive
<1>8. Analyses /\ CloseOrder
  BY FS_EmptySet DEF Init, Analyses, CloseOrder
<1>9. Kept /\ OnTheWay
  BY <1>3 DEF Kept, Inserted, OnTheWay
<1>10. StoredFirst
  <2>1. ASSUME NEW g \in Gens, NEW f \in Flows
        PROVE  lives[g].flows[f] = None /\ ToSet(lives[g].msgs[f]) = {}
    BY <1>2, <1>4 DEF ToSet
  <2> QED BY <2>1 DEF StoredFirst
<1>11. LiveCounts
  <2>1. hub = 1
    BY DEF Init
  <2> QED BY <1>1, <1>2, <1>3, <1>4, <2>1 DEF LiveCounts, CountOK
<1> QED BY <1>5, <1>6, <1>7, <1>8, <1>9, <1>10, <1>11 DEF PushInv

\* Every step keeps it.
LEMMA PushNext == PushInv /\ [Next]_vars => PushInv'
<1> SUFFICES ASSUME PushInv, [Next]_vars PROVE PushInv'
  OBVIOUS
<1>1. ASSUME NEW f \in Flows, Send(f) PROVE PushInv'
  BY <1>1, SendStep
<1>2. ASSUME NEW f \in Flows, Returns(f) PROVE PushInv'
  BY <1>2, ReturnsStep
<1>3. ASSUME NEW f \in Flows, TimesOut(f) PROVE PushInv'
  BY <1>3, TimesOutStep
<1>4. ASSUME NEW h \in Pushes, Receive(h) PROVE PushInv'
  BY <1>4, ReceiveStep
<1>5. ASSUME NEW h \in Pushes, ClaimPushedTCP(h) PROVE PushInv'
  BY <1>5, ClaimStep
<1>6. ASSUME NEW h \in Pushes, InsertFlows(h) PROVE PushInv'
  BY <1>6, InsertStep
<1>7. ASSUME NEW h \in Pushes, Publish(h) PROVE PushInv'
  BY <1>7, PublishStep
<1>8. ASSUME NEW h \in Pushes, RecordWSMeta(h) PROVE PushInv'
  BY <1>8, MetaStep
<1>9. ASSUME NEW h \in Pushes, Decode(h) PROVE PushInv'
  BY <1>9, DecodeStep
<1>10. ASSUME NEW h \in Pushes, InsertMessages(h) PROVE PushInv'
  BY <1>10, StoreStep
<1>11. ASSUME NEW h \in Pushes, PublishMessage(h) PROVE PushInv'
  BY <1>11, FanoutStep
<1>12. CASE HubStop
  BY <1>12, HubStopStep
<1>13. CASE CountFlows \/ FinishSession
  BY <1>13, CloseSteps
<1>14. CASE Restart
  BY <1>14, RestartStep
<1>15. ASSUME NEW f \in Flows, Lose(f) PROVE PushInv'
  BY <1>15, LoseStep
<1>16. ASSUME NEW h \in Pushes, ReceiveFails(h) PROVE PushInv'
  BY <1>16, ReceiveFailsStep
<1>17. ASSUME NEW h \in Pushes, StoreFails(h) PROVE PushInv'
  BY <1>17, StoreFailsStep
<1>18. CASE UNCHANGED vars
  <2>1. /\ UNCHANGED <<next, waiting, handler, hub, lives, analysis, created, rows, messages>>
        /\ UNCHANGED <<tcpStates, wsStates, status, counted, closing, restarts, disturbed>>
    BY <1>18 DEF vars, client, gateway, bundle, session, bounds
  <2>2. \A q \in Pushes : CallOK(q)'
    BY <2>1 DEF PushInv, TypeInv, CallOK
  <2>3. TypeInv' /\ Awaits' /\ OneLive'
    BY <2>1, <2>2
       DEF PushInv, TypeInv, ClientTypes, GatewayTypes, BundleTypes, Awaits, Begun, OneLive, Used
  <2>4. Analyses' /\ CloseOrder' /\ Kept' /\ OnTheWay'
    BY <2>1 DEF PushInv, Analyses, CloseOrder, Kept, Inserted, OnTheWay
  <2>5. StoredFirst' /\ LiveCounts'
    BY <2>1 DEF PushInv, StoredFirst, LiveCounts, CountOK
  <2> QED BY <2>3, <2>4, <2>5 DEF PushInv
<1> QED BY <1>1, <1>2, <1>3, <1>4, <1>5, <1>6, <1>7, <1>8, <1>9, <1>10, <1>11, <1>12, <1>13,
           <1>14, <1>15, <1>16, <1>17, <1>18 DEF Next, Hooks, Handlers, Handle, Closing

\* What the runs check follows.
LEMMA StoredByInv == PushInv => PushesAreStored
<1> SUFFICES ASSUME PushInv PROVE PushesAreStored
  OBVIOUS
<1>1. TypeOK
  <2>1. ASSUME NEW h \in Pushes
        PROVE  /\ handler[h].at \in Steps
               /\ handler[h].at \in FlowSteps \cup FrameSteps => handler[h].gen \in Gens
               /\ handler[h].at \in {"insert", "publish", "meta"} => handler[h].row \in Rows
    <3>1. handler[h] \in Call /\ CallOK(h)
      BY DEF PushInv, TypeInv
    <3> QED BY <3>1 DEF Call, CallOK
  <2>2. hub \in Gens \cup {None} /\ \A f \in Flows : rows[f] \in Rows \cup {None}
    BY DEF PushInv, TypeInv, GatewayTypes, BundleTypes
  <2>3. (hub # None => ~lives[hub].closed) /\ (status = "closed" => counted \in Nat)
    BY DEF PushInv, OneLive, CloseOrder
  <2> QED BY <2>1, <2>2, <2>3 DEF TypeOK, Steps, FlowSteps, FrameSteps
<1>2. OneAnalysis
  BY DEF PushInv, Analyses, OneAnalysis
<1>3. AckedIsStored
  BY DEF PushInv, Kept, Inserted, AckedIsStored
<1>4. LiveCountTrue
  BY DEF PushInv, LiveCounts, CountOK, LiveCountTrue
<1> QED BY <1>1, <1>2, <1>3, <1>4 DEF PushInv, PushesAreStored

\* PushesAreStored: what was acknowledged of a pushed session is in its bundle, and while
\* its pushes are awaited with the last one's row (PushFlows answers after insertFlows);
\* what a viewer was shown of it was stored before (insert, then publish); its live counts
\* are those of the messages shown (publish carries them over a re-push); and a gateway
\* process puts it all under one analysis (pushAnalysis).  For any flows, pushes, and any
\* number of timeouts, failures, lost pushes and restarts.
THEOREM PushesStored == Spec => []PushesAreStored
<1>1. Spec => []PushInv
  BY PushInit, PushNext, PTL DEF Spec
<1> QED BY <1>1, StoredByInv, PTL

-----------------------------------------------------------------------------
(* A claim, and the rows it gives.                                            *)

NamedFlow(f, j) == j \in 1..Len(Script[f]) /\ Script[f][j].what = "flow" /\ Script[f][j].named

\* A push of a flow whose turn came has begun.
Begins ==
    \A h \in Pushes : h[2] <= next[h[1]] => handler[h].at # "none"

\* What was decided, and on what grounds.
TcpDecided(f) ==
    tcpStates[f] # None =>
        /\ Transport[f] = "TCP"
        /\ tcpStates[f].dec => f \in Claimed /\ \E j \in 1..next[f] : NamedFlow(f, j)
WsDecided(f) ==
    wsStates[f] # None => Transport[f] # "HTTP" /\ (wsStates[f].dec => f \in Claimed)

\* The row a call is about to store says what was decided.
WithRow == {"insert", "publish", "meta"}
RowDecided(h) ==
    IF Transport[h[1]] # "TCP" THEN handler[h].row.proto \notin {"MAX", "TCP"}
    ELSE /\ tcpStates[h[1]] # None
         /\ IF tcpStates[h[1]].dec
            THEN handler[h].row.proto = "MAX" /\ ~handler[h].row.outcome
            ELSE handler[h].row.proto # "MAX"
RowsDecided == \A h \in Pushes : handler[h].at \in WithRow => RowDecided(h)

\* A claim that was stored is in force, or was, before a restart, and will be taken again
\* by whichever push comes first: those that still can come after one with the name.
Before == {"none", "sent", "claim"}
Again(f) ==
    \E j \in 1..Len(Script[f]) :
        NamedFlow(f, j) /\ \A k \in 1..j : handler[<<f, k>>].at \notin Before
Lasts(f) ==
    (rows[f] # None /\ rows[f].proto = "MAX") =>
        /\ ~rows[f].outcome /\ Transport[f] = "TCP" /\ f \in Claimed
        /\ tcpStates[f] # None => tcpStates[f].dec
        /\ tcpStates[f] = None => Again(f)

ClaimInv ==
    /\ Begins /\ RowsDecided
    /\ \A f \in Flows : TcpDecided(f) /\ WsDecided(f) /\ Lasts(f)

\* What Awaits and Begins say of one push.
LEMMA PushTurn ==
    ASSUME PushInv, NEW h \in Pushes
    PROVE  /\ h[1] \in Flows /\ h[2] \in 1..Len(Script[h[1]]) /\ h = <<h[1], h[2]>>
           /\ next[h[1]] \in Nat /\ h[2] \in Nat /\ h[2] > 0
           /\ handler[h].at # "none" => h[2] <= next[h[1]]
<1>1. /\ h[1] \in Flows /\ h[2] \in 1..Len(Script[h[1]]) /\ h = <<h[1], h[2]>> /\ h[2] \in Nat
      /\ next[h[1]] \in Nat
  BY PushFacts DEF PushInv, TypeInv, ClientTypes
<1>2. Begun(h[1], h[2])
  BY <1>1 DEF PushInv, Awaits
<1> QED BY <1>1, <1>2 DEF Begun

\* A step that stores no row and decides nothing of a TCP flow keeps what is known of
\* claims.
LEMMA ClaimQuiet ==
    ASSUME PushInv, ClaimInv, rows' = rows,
           Begins',
           \A f \in Flows : next[f] \in Nat /\ next'[f] \in Nat /\ next[f] <= next'[f],
           \A f \in Flows : WsDecided(f)',
           \A f \in Flows : /\ tcpStates'[f] = None <=> tcpStates[f] = None
                            /\ tcpStates[f] # None => tcpStates'[f].dec = tcpStates[f].dec,
           \A h \in Pushes :
              /\ handler'[h].at \in WithRow =>
                    handler[h].at \in WithRow /\ handler'[h].row = handler[h].row
              /\ handler[h].at \notin Before => handler'[h].at \notin Before
    PROVE  ClaimInv'
<1>1. RowsDecided'
  <2> SUFFICES ASSUME NEW h \in Pushes, handler'[h].at \in WithRow PROVE RowDecided(h)'
    BY DEF RowsDecided, WithRow
  <2>1. h[1] \in Flows /\ RowDecided(h) /\ handler'[h].row = handler[h].row
    BY PushFacts DEF ClaimInv, RowsDecided
  <2> QED BY <2>1 DEF RowDecided
<1>2. ASSUME NEW f \in Flows PROVE TcpDecided(f)' /\ Lasts(f)'
  <2>1. TcpDecided(f) /\ Lasts(f) /\ next[f] \in Nat /\ next'[f] \in Nat /\ next[f] <= next'[f]
    BY DEF ClaimInv
  <2>2. TcpDecided(f)'
    <3>1. ASSUME NEW j \in 1..next[f] PROVE j \in 1..next'[f]
      BY <2>1
    <3> QED BY <2>1, <3>1 DEF TcpDecided, NamedFlow
  <2>3. Again(f) => Again(f)'
    <3>1. ASSUME NEW j \in 1..Len(Script[f]), NEW k \in 1..j,
                 handler[<<f, k>>].at \notin Before
          PROVE  handler'[<<f, k>>].at \notin Before
      <4>1. k \in 1..Len(Script[f])
        BY PushAssumption, LenProperties
      <4>2. <<f, k>> \in Pushes
        BY <4>1, AwaitedFacts
      <4> QED BY <3>1, <4>2
    <3> QED BY <3>1 DEF Again, NamedFlow, Before
  <2> QED BY <2>1, <2>2, <2>3 DEF Lasts
<1> QED BY <1>1, <1>2 DEF ClaimInv

\* One call's step, by which the flow's pushes stay as far as they are.
LEMMA BeginsStep ==
    ASSUME Begins, NEW h \in Pushes, Others(h), next' = next, handler'[h].at # "none"
    PROVE  Begins'
  BY DEF Begins, Others

\* A step of a call that decides nothing and has no row, or keeps its own.
LEMMA ClaimKept ==
    ASSUME PushInv, ClaimInv, NEW h \in Pushes, Others(h),
           UNCHANGED <<next, rows, tcpStates>>, \A f \in Flows : WsDecided(f)',
           handler'[h].at # "none",
           handler'[h].at \in WithRow =>
              handler[h].at \in WithRow /\ handler'[h].row = handler[h].row,
           handler[h].at \notin Before => handler'[h].at \notin Before
    PROVE  ClaimInv'
<1>1. Begins'
  BY BeginsStep DEF ClaimInv
<1>2. \A f \in Flows : next[f] \in Nat
  BY DEF PushInv, TypeInv, ClientTypes
<1>3. \A q \in Pushes :
        /\ handler'[q].at \in WithRow =>
              handler[q].at \in WithRow /\ handler'[q].row = handler[q].row
        /\ handler[q].at \notin Before => handler'[q].at \notin Before
  BY DEF Others
<1> QED BY <1>1, <1>2, <1>3, ClaimQuiet

\* The decisions on WebSockets are as they were.
LEMMA WsKept ==
    ASSUME ClaimInv, wsStates' = wsStates
    PROVE  \A f \in Flows : WsDecided(f)'
  BY DEF ClaimInv, WsDecided

\* The claim is taken on the first push that comes to it and holds for all.
LEMMA ClaimClaims ==
    ASSUME PushInv, ClaimInv, NEW h \in Pushes, ClaimPushedTCP(h)
    PROVE  ClaimInv'
<1> DEFINE f == h[1]
           st == IF tcpStates[f] = None THEN decision(h) ELSE tcpStates[f]
           r == IF Transport[f] = "TCP" /\ st.dec THEN pushed(h, "MAX", FALSE) ELSE wireRow(h)
<1>1. /\ Others(h) /\ handler[h].at = "claim" /\ handler'[h].at = "insert"
      /\ handler'[h].row = r /\ UNCHANGED <<next, rows, wsStates>>
  <2>1. TypeInv' /\ Stays(h, "claim", "insert")
    BY ClaimFacts DEF PushInv
  <2>2. handler'[h].row = r
    <3>1. handler[h] \in Call /\ handler \in [Pushes -> Call]
      BY DEF PushInv, TypeInv
    <3> DEFINE c == [handler[h] EXCEPT !.at = "insert", !.row = r]
    <3>2. handler' = [handler EXCEPT ![h] = c]
      BY DEF ClaimPushedTCP
    <3>3. c.row = r
      <4> HIDE DEF r
      <4> QED BY <3>1 DEF Call
    <3> HIDE DEF c
    <3> QED BY <3>1, <3>2, <3>3
  <2>3. UNCHANGED <<next, rows, wsStates>>
    BY DEF ClaimPushedTCP, client, bundle
  <2> QED BY <2>1, <2>2, <2>3 DEF Stays
<1>2. /\ f \in Flows /\ h[2] \in 1..next[f] /\ h[2] \in 1..Len(Script[f]) /\ h = <<f, h[2]>>
      /\ next[f] \in Nat /\ push(h).what = "flow" /\ push(h).named \in BOOLEAN
      /\ push(h) = Script[f][h[2]]
  <2>1. CallOK(h)
    BY DEF PushInv, TypeInv
  <2> QED BY <1>1, <2>1, PushTurn, PushFacts DEF CallOK, FlowSteps, push
<1>3. /\ tcpStates' = IF Transport[f] = "TCP" THEN [tcpStates EXCEPT ![f] = st] ELSE tcpStates
      /\ \A e \in Flows :
            tcpStates'[e] = IF e = f /\ Transport[f] = "TCP" THEN st ELSE tcpStates[e]
  <2>1. tcpStates' = IF Transport[f] = "TCP" THEN [tcpStates EXCEPT ![f] = st] ELSE tcpStates
    BY DEF ClaimPushedTCP
  <2>2. tcpStates \in [Flows -> States \cup {None}]
    BY DEF PushInv, TypeInv, GatewayTypes
  <2> HIDE DEF st
  <2> QED BY <1>2, <2>1, <2>2
<1>4. st # None /\ st.dec \in BOOLEAN
  <2>1. CASE tcpStates[f] # None
    BY <1>2, <2>1 DEF PushInv, TypeInv, GatewayTypes, States
  <2>2. CASE tcpStates[f] = None
    <3>1. st = decision(h) /\ st.dec = (f \in Claimed /\ push(h).named)
      BY <1>2, <2>2 DEF decision, Undecided
    <3>2. decision(h) \in States
      <4>1. << >> \in Seq(Cell)
        BY EmptySeq
      <4> QED BY <1>2, <4>1 DEF decision, Undecided, Framer, States, Bufs
    <3> QED BY <1>2, <3>1, <3>2, NoneIsNone
  <2> QED BY <2>1, <2>2
<1>5. tcpStates[f] # None => st = tcpStates[f]
  OBVIOUS
<1>6. tcpStates[f] = None /\ st.dec => f \in Claimed /\ push(h).named
  <2>1. tcpStates[f] = None => st.dec = (f \in Claimed /\ push(h).named)
    BY DEF decision, Undecided
  <2> QED BY <2>1
<1>7. tcpStates[f] = None /\ f \in Claimed /\ push(h).named => st.dec
  BY DEF decision, Undecided
<1>8. /\ (Transport[f] = "TCP" /\ st.dec) => r.proto = "MAX" /\ ~r.outcome
      /\ ~(Transport[f] = "TCP" /\ st.dec) => r.proto # "MAX"
      /\ Transport[f] # "TCP" => r.proto # "TCP"
  <2> HIDE DEF st
  <2> QED BY <1>2, PushAssumption DEF pushed, wireRow
<1> HIDE DEF st, r
<1>9. Begins'
  BY <1>1, BeginsStep DEF ClaimInv
<1>10. ASSUME NEW q \in Pushes, handler'[q].at \in WithRow PROVE RowDecided(q)'
  <2>1. q[1] \in Flows
    BY PushFacts
  <2>2. CASE q = h
    BY <1>1, <1>2, <1>3, <1>4, <1>8, <2>2 DEF RowDecided
  <2>3. CASE q # h
    <3>1. RowDecided(q) /\ handler'[q] = handler[q]
      BY <1>1, <1>10, <2>3 DEF ClaimInv, RowsDecided, Others
    <3>2. tcpStates[q[1]] # None => tcpStates'[q[1]] = tcpStates[q[1]]
      BY <1>3, <1>5, <2>1
    <3> QED BY <3>1, <3>2 DEF RowDecided
  <2> QED BY <2>2, <2>3
<1>11. ASSUME NEW e \in Flows PROVE TcpDecided(e)'
  <2>1. TcpDecided(e)
    BY DEF ClaimInv
  <2>2. CASE e = f /\ tcpStates[f] = None
    <3>1. st.dec => NamedFlow(f, h[2])
      BY <1>2, <1>6, <2>2 DEF NamedFlow
    <3> QED BY <1>1, <1>2, <1>3, <1>6, <2>2, <3>1 DEF TcpDecided, NamedFlow
  <2>3. CASE ~(e = f /\ tcpStates[f] = None)
    <3>1. tcpStates'[e] = tcpStates[e]
      BY <1>3, <1>5, <2>3
    <3> QED BY <1>1, <2>1, <3>1 DEF TcpDecided, NamedFlow
  <2> QED BY <2>2, <2>3
<1>12. ASSUME NEW e \in Flows, rows[e] # None, rows[e].proto = "MAX" PROVE Lasts(e)'
  <2>1. Lasts(e)
    BY DEF ClaimInv
  <2>2. CASE e = f /\ tcpStates[f] = None
    <3>1. PICK j \in 1..Len(Script[f]) :
            NamedFlow(f, j) /\ \A k \in 1..j : handler[<<f, k>>].at \notin Before
      BY <1>12, <2>1, <2>2 DEF Lasts, Again
    <3>2. Len(Script[f]) \in Nat
      BY <1>2, PushAssumption, LenProperties
    <3>3. j < h[2]
      <4>1. CASE h[2] \in 1..j
        BY <1>1, <1>2, <3>1, <4>1 DEF Before
      <4> QED BY <1>2, <3>2, <4>1
    <3>4. f \in Claimed /\ Script[f][h[2]].named
      <4>1. f \in Claimed
        BY <1>12, <2>1, <2>2 DEF Lasts
      <4>2. DOMAIN Script[f] = 1..Len(Script[f])
        BY <1>2, PushAssumption, LenProperties
      <4> QED BY <1>2, <3>1, <3>3, <4>1, <4>2, StreamAssumption DEF NamedFlow
    <3>5. st.dec
      BY <1>2, <1>7, <2>2, <3>4
    <3>6. tcpStates'[f] = st
      BY <1>2, <1>3, <1>12, <2>1, <2>2 DEF Lasts
    <3> QED BY <1>1, <1>4, <1>12, <2>1, <2>2, <3>5, <3>6 DEF Lasts
  <2>3. CASE ~(e = f /\ tcpStates[f] = None)
    <3>1. tcpStates'[e] = tcpStates[e] /\ rows'[e] = rows[e]
      BY <1>1, <1>3, <1>5, <2>3
    <3>2. Again(e) => Again(e)'
      <4>1. ASSUME NEW j \in 1..Len(Script[e]), NEW k \in 1..j,
                   handler[<<e, k>>].at \notin Before
            PROVE  handler'[<<e, k>>].at \notin Before
        <5>1. <<e, k>> \in Pushes
          <6>1. k \in 1..Len(Script[e])
            BY PushAssumption, LenProperties
          <6> QED BY <6>1, AwaitedFacts
        <5> QED BY <1>1, <4>1, <5>1 DEF Others, Before
      <4> QED BY <4>1 DEF Again, NamedFlow, Before
    <3> QED BY <2>1, <3>1, <3>2 DEF Lasts
  <2> QED BY <2>2, <2>3
<1>13. \A e \in Flows : WsDecided(e)'
  BY <1>1, WsKept
<1> QED BY <1>1, <1>9, <1>10, <1>11, <1>12, <1>13 DEF ClaimInv, RowsDecided, Lasts

\* A row is stored as it was decided.
LEMMA ClaimInserts ==
    ASSUME PushInv, ClaimInv, NEW h \in Pushes, InsertFlows(h)
    PROVE  ClaimInv'
<1>1. /\ Others(h) /\ handler[h].at = "insert" /\ handler'[h].at = "publish"
      /\ handler'[h].row = handler[h].row /\ handler[h].row \in Rows
      /\ UNCHANGED <<next, tcpStates, wsStates>> /\ h[1] \in Flows
      /\ \A f \in Flows : rows'[f] = IF f = h[1] THEN handler[h].row ELSE rows[f]
  <2>1. /\ TypeInv' /\ Stays(h, "insert", "publish") /\ handler[h].row \in Rows
        /\ rows' = [rows EXCEPT ![h[1]] = handler[h].row]
    BY InsertFacts DEF PushInv
  <2>2. handler'[h] = [handler[h] EXCEPT !.at = "publish"] /\ handler[h] \in Call
    <3>1. handler \in [Pushes -> Call]
      BY DEF PushInv, TypeInv
    <3> QED BY <3>1 DEF InsertFlows, Goto
  <2>3. handler'[h].row = handler[h].row
    BY <2>2 DEF Call
  <2>4. UNCHANGED <<next, tcpStates, wsStates>> /\ rows \in [Flows -> Rows \cup {None}]
    BY DEF InsertFlows, client, gateway, PushInv, TypeInv, BundleTypes
  <2> QED BY <2>1, <2>3, <2>4, PushFacts DEF Stays
<1>2. Begins'
  BY <1>1, BeginsStep DEF ClaimInv
<1>3. ASSUME NEW q \in Pushes, handler'[q].at \in WithRow PROVE RowDecided(q)'
  <2>1. handler[q].at \in WithRow /\ handler'[q].row = handler[q].row
    BY <1>1, <1>3 DEF WithRow, Others
  <2>2. RowDecided(q)
    BY <2>1 DEF ClaimInv, RowsDecided
  <2> QED BY <1>1, <2>1, <2>2 DEF RowDecided
<1>4. ASSUME NEW f \in Flows PROVE TcpDecided(f)' /\ WsDecided(f)' /\ Lasts(f)'
  <2>1. TcpDecided(f) /\ WsDecided(f) /\ Lasts(f)
    BY DEF ClaimInv
  <2>2. TcpDecided(f)' /\ WsDecided(f)'
    BY <1>1, <2>1 DEF TcpDecided, WsDecided, NamedFlow
  <2>3. CASE f = h[1]
    <3>1. RowDecided(h)
      BY <1>1 DEF ClaimInv, RowsDecided, WithRow
    <3> QED BY <1>1, <2>1, <2>2, <2>3, <3>1 DEF Lasts, RowDecided, TcpDecided
  <2>4. CASE f # h[1]
    <3>1. Again(f) => Again(f)'
      <4>1. ASSUME NEW j \in 1..Len(Script[f]), NEW k \in 1..j
            PROVE  handler'[<<f, k>>] = handler[<<f, k>>]
        <5>1. k \in 1..Len(Script[f])
          BY PushAssumption, LenProperties
        <5>2. <<f, k>> \in Pushes /\ <<f, k>> # h
          BY <2>4, <5>1, AwaitedFacts
        <5> QED BY <1>1, <5>2 DEF Others
      <4> QED BY <4>1 DEF Again, NamedFlow
    <3> QED BY <1>1, <2>1, <2>2, <2>4, <3>1 DEF Lasts
  <2> QED BY <2>2, <2>3, <2>4
<1> QED BY <1>2, <1>3, <1>4 DEF ClaimInv, RowsDecided

\* A flow that is pushed is known to the framer of WebSockets, undecided.
LEMMA ClaimMeta ==
    ASSUME PushInv, ClaimInv, NEW h \in Pushes, RecordWSMeta(h)
    PROVE  ClaimInv'
<1>1. Others(h) /\ handler[h].at = "meta" /\ handler'[h].at = "done"
  BY MetaFacts DEF PushInv
<1>2. UNCHANGED <<next, rows, tcpStates>>
  BY DEF RecordWSMeta, client, bundle
<1>3. ASSUME NEW f \in Flows PROVE WsDecided(f)'
  <2>1. WsDecided(f) /\ wsStates \in [Flows -> States \cup {None}] /\ h[1] \in Flows
    BY PushFacts DEF ClaimInv, PushInv, TypeInv, GatewayTypes
  <2>2. \/ wsStates'[f] = wsStates[f]
        \/ f = h[1] /\ Transport[f] # "HTTP" /\ wsStates'[f] = Undecided
    BY <2>1 DEF RecordWSMeta
  <2>3. ~Undecided.dec
    BY DEF Undecided
  <2> QED BY <2>1, <2>2, <2>3 DEF WsDecided
<1> QED BY <1>1, <1>2, <1>3, ClaimKept DEF WithRow, Before

\* What the framers do to what is known of a flow: their buffers, and whether a WebSocket
\* is claimed.
LEMMA DecodeStates ==
    ASSUME PushInv, ClaimInv, NEW h \in Pushes, Decode(h)
    PROVE  /\ \A f \in Flows : /\ tcpStates'[f] = None <=> tcpStates[f] = None
                               /\ tcpStates[f] # None => tcpStates'[f].dec = tcpStates[f].dec
           /\ \A f \in Flows : WsDecided(f)'
<1> DEFINE e == h[1]
           tcp(b) == [tcpStates EXCEPT ![e].bufs = b]
           ws(st) == [wsStates EXCEPT ![e] = st]
           wsb(b) == [wsDecision(h) EXCEPT !.bufs = b]
<1>1. /\ tcpStates \in [Flows -> States \cup {None}] /\ wsStates \in [Flows -> States \cup {None}]
      /\ tcpStates' \in [Flows -> States \cup {None}] /\ e \in Flows
  <2>1. TypeInv'
    BY DecodeFacts DEF PushInv
  <2> QED BY <2>1, PushFacts DEF PushInv, TypeInv, GatewayTypes
<1>2. \/ tcpStates' = tcpStates
      \/ \E b \in Bufs : tcpStates' = tcp(b) /\ tcpStates[e] # None
  <2>1. CASE tcpStates[e] # None /\ push(h).up \in BOOLEAN /\ push(h).cells \in Seq(Cell)
    <3> DEFINE B == Feed(tcpStates[e].bufs, push(h).up, push(h).cells).bufs
    <3>1. B \in Bufs
      BY <1>1, <2>1, FeedType DEF States
    <3>2. tcpStates' = tcpStates \/ tcpStates' = tcp(B)
      BY DEF Decode
    <3> HIDE DEF B, tcp
    <3> QED BY <2>1, <3>1, <3>2
  <2>2. CASE tcpStates[e] = None
    BY <2>2 DEF Decode, tcpClaims
  <2>3. push(h).what = "frame"
    <3>1. CallOK(h)
      BY DEF PushInv, TypeInv
    <3> QED BY <3>1 DEF CallOK, FrameSteps, Decode
  <2> QED BY <2>1, <2>2, <2>3, PushFacts
<1>3. \/ wsStates' = wsStates
      \/ /\ wsStates[e] # None
         /\ wsStates' = ws(wsDecision(h)) \/ \E b : wsStates' = ws(wsb(b))
  BY DEF Decode
<1>4. ASSUME NEW f \in Flows
      PROVE  /\ tcpStates'[f] = None <=> tcpStates[f] = None
             /\ tcpStates[f] # None => tcpStates'[f].dec = tcpStates[f].dec
  <2>1. CASE f # e
    BY <1>1, <1>2, <2>1
  <2>2. CASE f = e
    <3>1. ASSUME NEW b \in Bufs, tcpStates' = tcp(b), tcpStates[e] # None
          PROVE  tcpStates'[e] # None /\ tcpStates'[e].dec = tcpStates[e].dec
      <4>1. tcpStates'[e] = [tcpStates[e] EXCEPT !.bufs = b] /\ tcpStates[e] \in States
        BY <1>1, <3>1
      <4>2. tcpStates'[e].dec = tcpStates[e].dec /\ tcpStates'[e] \in States
        BY <4>1 DEF States
      <4> QED BY <4>2, NoneIsNone
    <3> QED BY <1>2, <2>2, <3>1
  <2> QED BY <2>1, <2>2
<1>5. ASSUME NEW f \in Flows PROVE WsDecided(f)'
  <2>1. WsDecided(f)
    BY DEF ClaimInv
  <2>2. CASE f # e
    BY <1>1, <1>3, <2>1, <2>2 DEF WsDecided
  <2>3. CASE f = e /\ wsStates' # wsStates
    <3>1. wsStates[e] \in States /\ Transport[e] # "HTTP"
      BY <1>1, <1>3, <2>1, <2>3 DEF WsDecided
    <3>2. /\ wsDecision(h) \in States
          /\ wsDecision(h).dec => e \in Claimed
      <4>1. wsStates[e].dec \in BOOLEAN /\ (wsStates[e].dec => e \in Claimed)
        BY <1>3, <2>1, <2>3, <3>1 DEF States, WsDecided
      <4> DEFINE X(d) == [[wsStates[e] EXCEPT !.decided = TRUE] EXCEPT !.dec = d]
      <4>2. wsDecision(h) = X(e \in Claimed)
        <5>1. (IF wsStates[e].dec THEN TRUE ELSE e \in Claimed) = (e \in Claimed)
          BY <4>1
        <5>2. wsDecision(h) = X(IF wsStates[e].dec THEN TRUE ELSE e \in Claimed)
          BY DEF wsDecision
        <5> QED BY <5>1, <5>2
      <4>3. \A d \in BOOLEAN : X(d) \in States /\ X(d).dec = d
        BY <3>1 DEF States
      <4> HIDE DEF X
      <4>4. (e \in Claimed) \in BOOLEAN
        OBVIOUS
      <4> QED BY <4>2, <4>3, <4>4
    <3>3. \A b : wsb(b).dec = wsDecision(h).dec
      BY <3>2 DEF States
    <3>4. wsStates'[e] = wsDecision(h) \/ \E b : wsStates'[e] = wsb(b)
      <4>1. \A st : ws(st)[e] = st
        BY <1>1
      <4>2. CASE wsStates' = ws(wsDecision(h))
        BY <4>1, <4>2
      <4>3. ASSUME NEW b, wsStates' = ws(wsb(b)) PROVE wsStates'[e] = wsb(b)
        <5> HIDE DEF ws, wsb
        <5> QED BY <4>1, <4>3
      <4> QED BY <1>3, <2>3, <4>2, <4>3
    <3> QED BY <2>3, <3>1, <3>2, <3>3, <3>4 DEF WsDecided
  <2> QED BY <2>1, <2>2, <2>3 DEF WsDecided
<1> QED BY <1>4, <1>5

\* A message is framed, or kept as it came.
LEMMA ClaimDecodes ==
    ASSUME PushInv, ClaimInv, NEW h \in Pushes, Decode(h)
    PROVE  ClaimInv'
<1>1. Others(h) /\ handler[h].at = "feed" /\ handler'[h].at = "store"
  BY DecodeFacts DEF PushInv, Stays
<1>2. UNCHANGED <<next, rows>>
  BY DEF Decode, client, bundle
<1>3. Begins'
  BY <1>1, <1>2, BeginsStep DEF ClaimInv
<1>4. \A f \in Flows : next[f] \in Nat
  BY DEF PushInv, TypeInv, ClientTypes
<1>5. \A q \in Pushes :
        /\ handler'[q].at \in WithRow =>
              handler[q].at \in WithRow /\ handler'[q].row = handler[q].row
        /\ handler[q].at \notin Before => handler'[q].at \notin Before
  BY <1>1 DEF Others, WithRow, Before
<1> QED BY <1>2, <1>3, <1>4, <1>5, DecodeStates, ClaimQuiet

\* A restart forgets the decisions; a claim that was stored was taken by a push before
\* which no other is left.
LEMMA ClaimRestarts ==
    ASSUME PushInv, ClaimInv, Restart
    PROVE  ClaimInv'
<1>1. /\ UNCHANGED <<next, rows>>
      /\ \A f \in Flows : tcpStates'[f] = None /\ wsStates'[f] = None
  BY DEF Restart, client, bundle
<1>2. ASSUME NEW q \in Pushes
      PROVE  /\ handler'[q].at \notin WithRow
             /\ handler[q].at # "none" => handler'[q].at \notin Before
  <2>1. \/ handler'[q] = handler[q] /\ handler[q].at \in {"none", "lost", "done", "failed"}
        \/ handler'[q].at = "failed"
    BY DEF Restart, Ended, Idle
  <2> QED BY <2>1 DEF WithRow, Before
<1>3. Begins'
  BY <1>1, <1>2 DEF ClaimInv, Begins, Before
<1>4. ASSUME NEW f \in Flows PROVE Lasts(f)'
  <2>1. TcpDecided(f) /\ Lasts(f)
    BY DEF ClaimInv
  <2> SUFFICES ASSUME rows[f] # None, rows[f].proto = "MAX" PROVE Again(f)'
    BY <1>1, <2>1 DEF Lasts
  <2>2. ASSUME NEW j \in 1..Len(Script[f]), NEW k \in 1..j
        PROVE  <<f, k>> \in Pushes /\ <<f, k>>[1] = f /\ <<f, k>>[2] = k
    <3>1. k \in 1..Len(Script[f])
      BY PushAssumption, LenProperties
    <3> QED BY <3>1, AwaitedFacts
  <2>3. CASE tcpStates[f] # None
    <3>1. PICK j \in 1..next[f] : NamedFlow(f, j)
      BY <2>1, <2>3 DEF Lasts, TcpDecided
    <3>2. j \in 1..Len(Script[f]) /\ next[f] \in Nat
      BY <3>1 DEF NamedFlow, PushInv, TypeInv, ClientTypes
    <3>3. ASSUME NEW k \in 1..j PROVE handler'[<<f, k>>].at \notin Before
      <4>1. <<f, k>> \in Pushes /\ <<f, k>>[1] = f /\ <<f, k>>[2] = k /\ k <= next[f]
        BY <2>2, <3>1, <3>2
      <4>2. handler[<<f, k>>].at # "none"
        BY <4>1 DEF ClaimInv, Begins
      <4> QED BY <1>2, <4>1, <4>2
    <3> QED BY <3>1, <3>2, <3>3 DEF Again, NamedFlow, Before
  <2>4. CASE tcpStates[f] = None
    <3>1. PICK j \in 1..Len(Script[f]) :
            NamedFlow(f, j) /\ \A k \in 1..j : handler[<<f, k>>].at \notin Before
      BY <2>1, <2>4 DEF Lasts, Again
    <3>2. ASSUME NEW k \in 1..j PROVE handler'[<<f, k>>].at \notin Before
      BY <1>2, <2>2, <3>1 DEF Before
    <3> QED BY <3>1, <3>2 DEF Again, NamedFlow, Before
  <2> QED BY <2>3, <2>4
<1> QED BY <1>1, <1>2, <1>3, <1>4 DEF ClaimInv, RowsDecided, TcpDecided, WsDecided, WithRow

\* The other steps of a call: no row, no decision.
LEMMA ClaimCalls ==
    ASSUME PushInv, ClaimInv, NEW h \in Pushes,
           Receive(h) \/ ReceiveFails(h) \/ Publish(h) \/ InsertMessages(h)
              \/ PublishMessage(h) \/ StoreFails(h)
    PROVE  ClaimInv'
<1>1. UNCHANGED <<next, rows, tcpStates, wsStates>>
  <2>1. CASE Receive(h) \/ ReceiveFails(h)
    BY <2>1 DEF Receive, ReceiveFails, client, bundle
  <2>2. CASE Publish(h)
    BY <2>2 DEF Publish, client, bundle
  <2>3. CASE InsertMessages(h) \/ StoreFails(h)
    BY <2>3 DEF InsertMessages, StoreFails, client, gateway, bundle
  <2>4. CASE PublishMessage(h)
    BY <2>4 DEF PublishMessage, client, bundle
  <2> QED BY <2>1, <2>2, <2>3, <2>4
<1>2. \A f \in Flows : WsDecided(f)'
  BY <1>1, WsKept
<1>3. CASE Receive(h)
  <2>1. Others(h) /\ handler[h].at = "sent" /\ handler'[h].at \in {"claim", "feed"}
    BY <1>3, ReceiveFacts DEF PushInv, AfterAnalysis
  <2> QED BY <1>1, <1>2, <2>1, ClaimKept DEF WithRow, Before
<1>4. CASE ReceiveFails(h)
  <2>1. Others(h) /\ handler'[h].at = "failed"
    BY <1>4, ReceiveFailsFacts DEF PushInv
  <2> QED BY <1>1, <1>2, <2>1, ClaimKept DEF WithRow, Before
<1>5. CASE Publish(h)
  <2>1. Others(h) /\ handler[h].at = "publish" /\ handler'[h].at = "meta"
    BY <1>5, PublishFacts DEF PushInv, Stays
  <2>2. handler'[h].row = handler[h].row
    <3>1. handler \in [Pushes -> Call]
      BY DEF PushInv, TypeInv
    <3>2. handler'[h] = [handler[h] EXCEPT !.at = "meta"]
      BY <1>5, <3>1 DEF Publish, Goto
    <3> QED BY <3>1, <3>2 DEF Call
  <2> QED BY <1>1, <1>2, <2>1, <2>2, ClaimKept DEF WithRow, Before
<1>6. CASE InsertMessages(h)
  <2>1. Others(h) /\ handler'[h].at \in {"done", "fanout"}
    BY <1>6, StoreFacts DEF PushInv, Stays
  <2> QED BY <1>1, <1>2, <2>1, ClaimKept DEF WithRow, Before
<1>7. CASE PublishMessage(h)
  <2>1. Others(h) /\ handler'[h].at \in {"done", "fanout"}
    BY <1>7, FanoutFacts DEF PushInv, Stays
  <2> QED BY <1>1, <1>2, <2>1, ClaimKept DEF WithRow, Before
<1>8. CASE StoreFails(h)
  <2>1. Others(h) /\ handler'[h].at = "failed"
    BY <1>8, StoreFailsFacts DEF PushInv
  <2> QED BY <1>1, <1>2, <2>1, ClaimKept DEF WithRow, Before
<1> QED BY <1>3, <1>4, <1>5, <1>6, <1>7, <1>8, Zenon

\* The steps of the client, and of the close.
LEMMA ClaimClients ==
    ASSUME PushInv, ClaimInv, NEW f \in Flows,
           Send(f) \/ Returns(f) \/ TimesOut(f) \/ Lose(f) \/ Closing
    PROVE  ClaimInv'
<1>1. UNCHANGED <<rows, tcpStates, wsStates>>
  BY DEF Send, Returns, TimesOut, Lose, Closing, HubStop, CountFlows, FinishSession,
         gateway, bundle
<1>2. \A e \in Flows : WsDecided(e)'
  BY <1>1, WsKept
<1>3. next \in [Flows -> Nat]
  BY DEF PushInv, TypeInv, ClientTypes
<1>4. CASE Send(f)
  <2>0. PICK n, h : n = next[f] + 1 /\ h = <<f, n>>
    OBVIOUS
  <2>1. /\ next' = [next EXCEPT ![f] = n] /\ h \in Pushes /\ Others(h)
        /\ handler[h].at = "none" /\ handler'[h].at = "sent"
    BY <1>4, <2>0, SendFacts DEF PushInv
  <2>2. n \in Nat /\ next[f] < n /\ next[f] \in Nat
    BY <1>3, <2>0
  <2>3. \A e \in Flows : next[e] \in Nat /\ next'[e] \in Nat /\ next[e] <= next'[e]
    BY <1>3, <2>1, <2>2
  <2>4. Begins'
    <3> SUFFICES ASSUME NEW q \in Pushes, q[2] <= next'[q[1]] PROVE handler'[q].at # "none"
      BY DEF Begins
    <3>1. q[1] \in Flows /\ q[2] \in Nat /\ q = <<q[1], q[2]>>
      BY PushFacts
    <3>2. CASE q = h
      BY <2>1, <3>2
    <3>3. CASE q # h
      <4>1. q[2] <= next[q[1]]
        BY <1>3, <2>0, <2>1, <2>2, <3>1, <3>3
      <4> QED BY <2>1, <3>3, <4>1 DEF ClaimInv, Begins, Others
    <3> QED BY <3>2, <3>3
  <2>5. \A q \in Pushes :
          /\ handler'[q].at \in WithRow =>
                handler[q].at \in WithRow /\ handler'[q].row = handler[q].row
          /\ handler[q].at \notin Before => handler'[q].at \notin Before
    BY <2>1 DEF Others, WithRow, Before
  <2> QED BY <1>1, <1>2, <2>3, <2>4, <2>5, ClaimQuiet
<1>5. CASE Returns(f) \/ Closing
  <2>1. next' = next /\ handler' = handler
    BY <1>5 DEF Returns, Closing, HubStop, CountFlows, FinishSession, client
  <2>2. Begins'
    BY <2>1 DEF ClaimInv, Begins
  <2> QED BY <1>1, <1>2, <1>3, <2>1, <2>2, ClaimQuiet
<1>6. CASE Lose(f)
  <2>1. /\ awaited(f) \in Pushes /\ Others(awaited(f)) /\ next' = next
        /\ handler[awaited(f)].at = "sent" /\ handler'[awaited(f)].at = "lost"
    BY <1>6, LoseFacts DEF PushInv, Lose, client
  <2> QED BY <1>1, <1>2, <2>1, ClaimKept DEF WithRow, Before
<1>7. CASE TimesOut(f)
  <2>1. /\ awaited(f) \in Pushes /\ Others(awaited(f)) /\ next' = next
        /\ handler'[awaited(f)] = [handler[awaited(f)] EXCEPT !.cancelled = TRUE]
        /\ handler'[awaited(f)].at = handler[awaited(f)].at
    BY <1>7, TimesOutFacts DEF PushInv, TimesOut
  <2>2. handler'[awaited(f)].row = handler[awaited(f)].row
    BY <2>1 DEF PushInv, TypeInv, Call
  <2>3. Begins'
    BY <2>1 DEF ClaimInv, Begins, Others
  <2>4. \A q \in Pushes : handler'[q].at = handler[q].at /\ handler'[q].row = handler[q].row
    BY <2>1, <2>2 DEF Others
  <2> QED BY <1>1, <1>2, <1>3, <2>1, <2>3, <2>4, ClaimQuiet
<1> QED BY <1>4, <1>5, <1>6, <1>7

\* It is so at first, and every step keeps it.
LEMMA ClaimInit == Init => ClaimInv
<1> SUFFICES ASSUME Init PROVE ClaimInv
  OBVIOUS
<1>1. \A h \in Pushes : handler[h].at = "none"
  BY DEF Init, Idle
<1>2. ASSUME NEW h \in Pushes PROVE ~(h[2] <= next[h[1]])
  BY PushFacts, PushAssumption, LenProperties DEF Init
<1> QED BY <1>1, <1>2
       DEF Init, ClaimInv, Begins, RowsDecided, TcpDecided, WsDecided, Lasts, WithRow

\* Every step keeps what is known of claims.
LEMMA ClaimNext == PushInv /\ ClaimInv /\ [Next]_vars => ClaimInv'
<1> SUFFICES ASSUME PushInv, ClaimInv, [Next]_vars PROVE ClaimInv'
  OBVIOUS
<1>1. ASSUME NEW f \in Flows, Send(f) \/ Returns(f) \/ TimesOut(f) \/ Lose(f) PROVE ClaimInv'
  BY <1>1, ClaimClients
<1>2. ASSUME NEW h \in Pushes, Handle(h) \/ ReceiveFails(h) \/ StoreFails(h) PROVE ClaimInv'
  BY <1>2, ClaimClaims, ClaimInserts, ClaimMeta, ClaimDecodes, ClaimCalls DEF Handle
<1>3. CASE Restart
  BY <1>3, ClaimRestarts
<1>4. CASE Closing \/ UNCHANGED vars
  <2>1. UNCHANGED <<next, handler, rows, tcpStates, wsStates>>
    BY <1>4 DEF Closing, HubStop, CountFlows, FinishSession, vars, client, gateway, bundle
  <2>2. Begins' /\ \A f \in Flows : next[f] \in Nat /\ WsDecided(f)'
    BY <2>1, WsKept DEF ClaimInv, Begins, PushInv, TypeInv, ClientTypes
  <2> QED BY <2>1, <2>2, ClaimQuiet
<1> QED BY <1>1, <1>2, <1>3, <1>4 DEF Next, Hooks, Handlers

\* Only an insert stores a row.
LEMMA RowsStay ==
    ASSUME [Next]_vars, \A h \in Pushes : ~InsertFlows(h)
    PROVE  rows' = rows
<1>1. ASSUME NEW h \in Pushes, Handle(h) \/ ReceiveFails(h) \/ StoreFails(h) PROVE rows' = rows
  <2>1. CASE Receive(h) \/ ReceiveFails(h) \/ StoreFails(h)
    BY <2>1 DEF Receive, ReceiveFails, StoreFails, bundle
  <2>2. CASE ClaimPushedTCP(h) \/ RecordWSMeta(h)
    BY <2>2 DEF ClaimPushedTCP, RecordWSMeta, bundle
  <2>3. CASE Publish(h)
    BY <2>3 DEF Publish, bundle
  <2>4. CASE Decode(h)
    BY <2>4 DEF Decode, bundle
  <2>5. CASE InsertMessages(h)
    BY <2>5 DEF InsertMessages, bundle
  <2>6. CASE PublishMessage(h)
    BY <2>6 DEF PublishMessage, bundle
  <2> QED BY <1>1, <2>1, <2>2, <2>3, <2>4, <2>5, <2>6 DEF Handle
<1>2. ASSUME NEW e \in Flows, Send(e) \/ Returns(e) \/ TimesOut(e) \/ Lose(e) PROVE rows' = rows
  <2>1. CASE Send(e) \/ Returns(e)
    BY <2>1 DEF Send, Returns, bundle
  <2>2. CASE TimesOut(e) \/ Lose(e)
    BY <2>2 DEF TimesOut, Lose, bundle
  <2> QED BY <1>2, <2>1, <2>2
<1>3. CASE Closing \/ Restart \/ UNCHANGED vars
  <2>1. CASE Closing
    BY <2>1 DEF Closing, HubStop, CountFlows, FinishSession, bundle
  <2>2. CASE Restart \/ UNCHANGED vars
    BY <2>2 DEF Restart, vars, bundle
  <2> QED BY <1>3, <2>1, <2>2
<1> QED BY <1>1, <1>2, <1>3 DEF Next, Hooks, Handlers

\* The row of a claimed connection changes to another such row at most.
LEMMA ClaimKeeps ==
    ASSUME PushInv, ClaimInv, ClaimInv', [Next]_vars, NEW f \in Flows,
           rows[f] # None, rows[f].proto = "MAX"
    PROVE  rows'[f].proto = "MAX" /\ ~rows'[f].outcome
<1>1. ~rows[f].outcome
  BY DEF ClaimInv, Lasts
<1>2. ASSUME NEW h \in Pushes, InsertFlows(h) PROVE rows'[f].proto = "MAX" /\ ~rows'[f].outcome
  <2>1. /\ handler[h].at = "insert" /\ rows' = [rows EXCEPT ![h[1]] = handler[h].row]
        /\ rows \in [Flows -> Rows \cup {None}]
    BY <1>2, InsertFacts DEF PushInv, Stays, TypeInv, BundleTypes
  <2>2. CASE f # h[1]
    BY <1>1, <2>1, <2>2
  <2>3. CASE f = h[1]
    <3>1. RowDecided(h) /\ Lasts(f)
      BY <2>1 DEF ClaimInv, RowsDecided, WithRow
    <3>2. handler[h].row.proto = "MAX" /\ ~handler[h].row.outcome
      BY <2>3, <3>1 DEF RowDecided, Lasts
    <3> QED BY <2>1, <2>3, <3>2
  <2> QED BY <2>2, <2>3
<1>3. CASE \A h \in Pushes : ~InsertFlows(h)
  BY <1>1, <1>3, RowsStay
<1> QED BY <1>2, <1>3

\* ClaimIsKept: no push of a claimed connection, late, repeated or after a restart, puts
\* the raw row back (claimPushedTCP decides once and applies it to every push, and a
\* gateway that forgot decides again by a name the source still has).  For any flows,
\* scripts, and any number of timeouts, failures, lost pushes and restarts.
THEOREM ClaimsKept == Spec => ClaimIsKept
<1>1. Spec => [](PushInv /\ ClaimInv)
  BY PushInit, PushNext, ClaimInit, ClaimNext, PTL DEF Spec
<1>2. PushInv /\ ClaimInv /\ ClaimInv' /\ [Next]_vars =>
        [\A f \in Flows : (rows[f] # None /\ rows[f].proto = "MAX")
                             => rows'[f].proto = "MAX" /\ ~rows'[f].outcome]_vars
  BY ClaimKeeps
<1> QED BY <1>1, <1>2, PTL DEF Spec, ClaimIsKept

-----------------------------------------------------------------------------
(* The chunks of a flow, one push after the other.                            *)

PushKinds == [what : {"flow"}, named : BOOLEAN]
               \cup [what : {"frame"}, up : BOOLEAN, op : {"binary", "text"}, cells : Seq(Cell)]
IsCells(up, k, acc) == acc \in Seq(Cell)
Joining == INSTANCE FoldFacts WITH Op <- LAMBDA up, acc, p : joined(up, acc, p), Inv <- IsCells

\* The chunks are a fold over the first pushes.
LEMMA ChunksAreFold ==
    ASSUME NEW f, NEW up, NEW n
    PROVE  chunksUpTo(f, up, n) = Joining!Fold(up, << >>, SubSeq(Script[f], 1, n))
  BY DEF chunksUpTo, Joining!Fold, Joining!Top, FoldLeft, MapThenFoldSet, Max

\* A flow's script is a sequence of pushes.
LEMMA ScriptFacts ==
    ASSUME NEW f \in Flows
    PROVE  /\ Script[f] \in Seq(PushKinds) /\ Len(Script[f]) \in Nat
           /\ \A k \in 1..Len(Script[f]) : Script[f][k] \in PushKinds
           /\ DOMAIN Script[f] = 1..Len(Script[f])
<1>1. Script[f] \in Seq(PushKinds)
  BY PushAssumption DEF PushKinds
<1> QED BY <1>1, LenProperties, ElementOfSeq

\* None before the first push; those of the next push are joined to them.
LEMMA ChunksStep ==
    ASSUME NEW f \in Flows, NEW up
    PROVE  /\ chunksUpTo(f, up, 0) = << >>
           /\ \A n \in 1..Len(Script[f]) :
                 chunksUpTo(f, up, n) = joined(up, chunksUpTo(f, up, n - 1), Script[f][n])
<1>1. chunksUpTo(f, up, 0) = << >>
  BY ScriptFacts, ChunksAreFold, Joining!Prefix, Joining!FoldOfNone
<1>2. ASSUME NEW n \in 1..Len(Script[f])
      PROVE  chunksUpTo(f, up, n) = joined(up, chunksUpTo(f, up, n - 1), Script[f][n])
  <2>1. n - 1 \in 0..Len(Script[f])
    BY ScriptFacts
  <2>2. /\ SubSeq(Script[f], 1, n - 1) \in Seq(PushKinds) /\ Script[f][n] \in PushKinds
        /\ SubSeq(Script[f], 1, n) = Append(SubSeq(Script[f], 1, n - 1), Script[f][n])
    BY <2>1, ScriptFacts, Joining!Prefix
  <2>3. Joining!Fold(up, << >>, Append(SubSeq(Script[f], 1, n - 1), Script[f][n]))
          = joined(up, Joining!Fold(up, << >>, SubSeq(Script[f], 1, n - 1)), Script[f][n])
    <3>1. PICK u, p : u = SubSeq(Script[f], 1, n - 1) /\ p = Script[f][n]
      OBVIOUS
    <3>2. u \in Seq(PushKinds) /\ p \in PushKinds
      BY <2>2, <3>1
    <3>3. Joining!Fold(up, << >>, Append(u, p)) = joined(up, Joining!Fold(up, << >>, u), p)
      BY <3>2, Joining!FoldOfMore
    <3> QED BY <3>1, <3>3
  <2> QED BY <2>2, <2>3, ChunksAreFold
<1> QED BY <1>1, <1>2

\* Chunks are cells.
LEMMA ChunksType ==
    ASSUME NEW f \in Flows, NEW up \in BOOLEAN, NEW n \in 0..Len(Script[f])
    PROVE  chunksUpTo(f, up, n) \in Seq(Cell)
<1> DEFINE s == SubSeq(Script[f], 1, n)
<1>1. s \in Seq(PushKinds)
  BY ScriptFacts, Joining!Prefix
<1>2. IsCells(up, 0, << >>)
  BY EmptySeq DEF IsCells
<1>3. ASSUME NEW p \in PushKinds, NEW acc \in Seq(Cell) PROVE joined(up, acc, p) \in Seq(Cell)
  <2>1. CASE p.what = "frame" /\ p.up = up /\ p.op = "binary"
    <3>1. p.cells \in Seq(Cell)
      BY <2>1 DEF PushKinds
    <3> QED BY <2>1, <3>1, ConcatProperties DEF joined
  <2> QED BY <2>1 DEF joined
<1>4. \A k \in 1..Len(s) : \A acc : IsCells(up, k - 1, acc) => IsCells(up, k, joined(up, acc, s[k]))
  BY <1>1, <1>3, ElementOfSeq DEF IsCells
<1> HIDE DEF s
<1>5. IsCells(up, Len(s), Joining!Fold(up, << >>, s))
  BY <1>1, <1>2, <1>4, Joining!FoldKeeps
<1> QED BY <1>5, ChunksAreFold DEF IsCells, s

-----------------------------------------------------------------------------
(* The framer, chunk by chunk and in one go.                                  *)

FramesOut == [frame : (DOMAIN Cells) \cup {None}, as : {"raw", "ack", "json"},
              limit : {"size", "depth", None}]

\* One cell more is fed.
LEMMA FedMore ==
    ASSUME NEW buf \in Seq(Cell), NEW s \in Seq(Cell), NEW cell \in Cell
    PROVE  fed(buf, Append(s, cell)) = nextFrame(fed(buf, s), cell)
<1> DEFINE base == [buf |-> buf, out |-> << >>]
<1>1. Feeding!Fold(0, base, Append(s, cell)) = nextFrame(Feeding!Fold(0, base, s), cell)
  <2> HIDE DEF base
  <2> QED BY Feeding!FoldOfMore
<1> QED BY <1>1, FedIsFold

\* Nothing fed, nothing out.
LEMMA FedNone == \A buf : fed(buf, << >>) = [buf |-> buf, out |-> << >>]
  BY FedIsFold, Feeding!FoldOfNone

\* A framer that has frames out already adds the others to them.
After(o, r) == [buf |-> r.buf, out |-> o \o r.out]
IsAfter(c, k, st) == st = After(c.out, fed(c.buf, SubSeq(c.cells, 1, k)))
FeedingOn == INSTANCE FoldFacts WITH Op <- LAMBDA c, st, cell : nextFrame(st, cell), Inv <- IsAfter

\* Appending to two sequences joined is appending to the second.
LEMMA AppendOn ==
    \A s, t \in Seq(Outs) : \A x \in Outs : Append(s \o t, x) = s \o Append(t, x)
<1> TAKE s, t \in Seq(Outs)
<1> TAKE x \in Outs
<1>1. PICK q : q = <<x>>
  OBVIOUS
<1>2. q \in Seq(Outs) /\ s \o t \in Seq(Outs)
  BY <1>1, ConcatProperties
<1>3. Append(t, x) = t \o q /\ Append(s \o t, x) = (s \o t) \o q
  BY <1>1, <1>2, AppendIsConcat
<1>4. (s \o t) \o q = s \o (t \o q)
  BY <1>2, ConcatAssociative
<1> QED BY <1>3, <1>4

\* One cell more, for a framer that has frames out already.
LEMMA NextFrameAfter ==
    ASSUME NEW o \in Seq(Outs), NEW r \in Framing, NEW cell \in Cell
    PROVE  nextFrame(After(o, r), cell) = After(o, nextFrame(r, cell))
<1> DEFINE b == Append(r.buf, cell)
           d == decodeFrame(b[1])
<1>1. r.buf \in Seq(Cell) /\ r.out \in Seq(Outs) /\ b \in Seq(Cell) /\ Len(b) > 0
  BY DEF Framing
<1>2. d \in Outs
  <2>1. b[1] \in Cell
    BY <1>1
  <2> HIDE DEF b
  <2> QED BY <2>1 DEF decodeFrame, Outs, Cell
<1>3. Append(o \o r.out, d) = o \o Append(r.out, d)
  <2> HIDE DEF d
  <2>1. PICK p : p = r.out
    OBVIOUS
  <2>2. p \in Seq(Outs)
    BY <1>1, <2>1
  <2>3. Append(o \o p, d) = o \o Append(p, d)
    BY ONLY <1>2, <2>2, o \in Seq(Outs), AppendOn
  <2> QED BY <2>1, <2>3
<1>4. CASE Len(b) < frameLen(b[1])
  <2>1. nextFrame(After(o, r), cell) = [After(o, r) EXCEPT !.buf = b]
    BY <1>4 DEF nextFrame, After
  <2>2. nextFrame(r, cell) = [r EXCEPT !.buf = b]
    BY <1>4 DEF nextFrame
  <2> HIDE DEF b
  <2>3. [r EXCEPT !.buf = b].buf = b /\ [r EXCEPT !.buf = b].out = r.out
    BY DEF Framing
  <2> QED BY <2>1, <2>2, <2>3 DEF After
<1>5. CASE ~(Len(b) < frameLen(b[1]))
  <2>1. nextFrame(After(o, r), cell) = [buf |-> << >>, out |-> Append(o \o r.out, d)]
    BY <1>5 DEF nextFrame, After
  <2>2. nextFrame(r, cell) = [buf |-> << >>, out |-> Append(r.out, d)]
    BY <1>5 DEF nextFrame
  <2> HIDE DEF b, d
  <2> QED BY <1>3, <2>1, <2>2 DEF After
<1> QED BY <1>4, <1>5

\* Two chunks, one after the other, give what they give in one piece.
LEMMA FedOn ==
    ASSUME NEW buf \in Seq(Cell), NEW s \in Seq(Cell), NEW t \in Seq(Cell)
    PROVE  /\ fed(buf, s).buf \in Seq(Cell)
           /\ fed(buf, s \o t) = After(fed(buf, s).out, fed(fed(buf, s).buf, t))
<1> DEFINE r == fed(buf, s)
           c == [out |-> r.out, buf |-> r.buf, cells |-> t]
<1>1. r \in Framing
  BY FedType
<1>2. r.buf \in Seq(Cell) /\ r.out \in Seq(Outs) /\ r = [buf |-> r.buf, out |-> r.out]
  <2> HIDE DEF r
  <2> QED BY <1>1 DEF Framing
<1> HIDE DEF r
<1>3. IsAfter(c, 0, r)
  <2>1. SubSeq(t, 1, 0) = << >>
    BY FeedingOn!Prefix
  <2>2. After(r.out, [buf |-> r.buf, out |-> << >>]) = r
    BY <1>2, ConcatEmptySeq DEF After
  <2> QED BY <2>1, <2>2, FedNone DEF IsAfter
<1>4. ASSUME NEW k \in 1..Len(t), NEW st, IsAfter(c, k - 1, st)
      PROVE  IsAfter(c, k, nextFrame(st, t[k]))
  <2>1. k - 1 \in 0..Len(t)
    BY LenProperties
  <2>2. /\ SubSeq(t, 1, k - 1) \in Seq(Cell) /\ t[k] \in Cell
        /\ SubSeq(t, 1, k) = Append(SubSeq(t, 1, k - 1), t[k])
    BY <2>1, FeedingOn!Prefix
  <2>3. fed(r.buf, SubSeq(t, 1, k - 1)) \in Framing
    BY <1>2, <2>2, FedType
  <2>4. nextFrame(st, t[k]) = After(r.out, nextFrame(fed(r.buf, SubSeq(t, 1, k - 1)), t[k]))
    BY <1>2, <1>4, <2>2, <2>3, NextFrameAfter DEF IsAfter
  <2>5. fed(r.buf, SubSeq(t, 1, k)) = nextFrame(fed(r.buf, SubSeq(t, 1, k - 1)), t[k])
    <3>1. PICK u : u = SubSeq(t, 1, k - 1)
      OBVIOUS
    <3>2. fed(r.buf, Append(u, t[k])) = nextFrame(fed(r.buf, u), t[k])
      BY <1>2, <2>2, <3>1, FedMore
    <3> QED BY <2>2, <3>1, <3>2
  <2>6. nextFrame(st, t[k]) = After(r.out, fed(r.buf, SubSeq(t, 1, k)))
    BY <2>4, <2>5
  <2> QED BY <2>6 DEF IsAfter
<1> HIDE DEF c
<1>5. IsAfter(c, Len(t), FeedingOn!Fold(c, r, t))
  <2>1. \A k \in 1..Len(t) : \A st : IsAfter(c, k - 1, st) => IsAfter(c, k, nextFrame(st, t[k]))
    BY <1>4
  <2> QED BY <1>3, <2>1, FeedingOn!FoldKeeps
<1>6. fed(buf, s \o t) = FeedingOn!Fold(c, r, t)
  <2> DEFINE base == [buf |-> buf, out |-> << >>]
  <2>1. \A x : fed(buf, x) = FeedingOn!Fold(c, base, x)
    BY DEF fed, FeedingOn!Fold, FeedingOn!Top, FoldLeft, MapThenFoldSet, Max
  <2> HIDE DEF base
  <2>2. FeedingOn!Fold(c, base, s \o t) = FeedingOn!Fold(c, FeedingOn!Fold(c, base, s), t)
    BY FeedingOn!FoldOfJoined
  <2> QED BY <2>1, <2>2 DEF r
<1>7. SubSeq(t, 1, Len(t)) = t
  BY FeedingOn!Prefix
<1> QED BY <1>2, <1>5, <1>6, <1>7 DEF IsAfter, c, r

\* A framer's frames: never a message kept as it came.
IsFrames(c, k, st) == st \in Framing /\ st.out \in Seq(FramesOut)
FeedingOut ==
    INSTANCE FoldFacts WITH Op <- LAMBDA c, st, cell : nextFrame(st, cell), Inv <- IsFrames

\* Of a chunk's frames, and the rest in the buffer.
LEMMA FedFrames ==
    ASSUME NEW buf \in Seq(Cell), NEW cells \in Seq(Cell)
    PROVE  fed(buf, cells).out \in Seq(FramesOut) /\ fed(buf, cells).buf \in Seq(Cell)
<1> DEFINE base == [buf |-> buf, out |-> << >>]
<1>1. IsFrames(0, 0, base)
  BY EmptySeq DEF IsFrames, Framing
<1>2. ASSUME NEW cell \in Cell, NEW st, IsFrames(0, 0, st)
      PROVE  IsFrames(0, 0, nextFrame(st, cell))
  <2> DEFINE b == Append(st.buf, cell)
             d == decodeFrame(b[1])
  <2>1. st \in Framing /\ st.out \in Seq(FramesOut) /\ nextFrame(st, cell) \in Framing
    BY <1>2, NextFrameType DEF IsFrames
  <2>2. b \in Seq(Cell) /\ Len(b) > 0
    BY <2>1 DEF Framing
  <2>3. d \in FramesOut
    <3>1. b[1] \in Cell
      BY <2>2
    <3> HIDE DEF b
    <3> QED BY <3>1 DEF decodeFrame, FramesOut, Cell
  <2>4. CASE Len(b) < frameLen(b[1])
    <3>1. nextFrame(st, cell) = [st EXCEPT !.buf = b]
      BY <2>4 DEF nextFrame
    <3> HIDE DEF b
    <3>2. nextFrame(st, cell).out = st.out
      BY <2>1, <3>1 DEF Framing
    <3> QED BY <2>1, <3>2 DEF IsFrames
  <2>5. CASE ~(Len(b) < frameLen(b[1]))
    <3>1. nextFrame(st, cell) = [buf |-> << >>, out |-> Append(st.out, d)]
      BY <2>5 DEF nextFrame
    <3> HIDE DEF b, d
    <3>2. nextFrame(st, cell).out \in Seq(FramesOut)
      BY <2>1, <2>3, <3>1
    <3> QED BY <2>1, <3>2 DEF IsFrames
  <2> QED BY <2>4, <2>5
<1>3. \A k \in 1..Len(cells) : \A st :
        IsFrames(0, k - 1, st) => IsFrames(0, k, nextFrame(st, cells[k]))
  BY <1>2, ElementOfSeq DEF IsFrames
<1>4. fed(buf, cells) = FeedingOut!Fold(0, base, cells)
  BY DEF fed, FeedingOut!Fold, FeedingOut!Top, FoldLeft, MapThenFoldSet, Max
<1> HIDE DEF base
<1>5. IsFrames(0, Len(cells), FeedingOut!Fold(0, base, cells))
  BY <1>1, <1>3, FeedingOut!FoldKeeps
<1> QED BY <1>4, <1>5 DEF IsFrames, Framing

\* The frames that end among cells, as a fold.
Ending == INSTANCE FoldFacts WITH Op <- LAMBDA c, acc, cell : ended(acc, cell), Inv <- IsCells

\* The frames that ended, one cell more.
LEMMA WholeMore ==
    /\ wholeFrames(<< >>) = << >>
    /\ \A s \in Seq(Cell), cell \in Cell :
          wholeFrames(Append(s, cell)) = ended(wholeFrames(s), cell)
<1>1. \A s : wholeFrames(s) = Ending!Fold(0, << >>, s)
  BY DEF wholeFrames, Ending!Fold, Ending!Top, FoldLeft, MapThenFoldSet, Max
<1>2. ASSUME NEW s \in Seq(Cell), NEW cell \in Cell
      PROVE  Ending!Fold(0, << >>, Append(s, cell)) = ended(Ending!Fold(0, << >>, s), cell)
  BY Ending!FoldOfMore
<1> QED BY <1>1, <1>2, Ending!FoldOfNone

\* Of cells that are frame after frame, the framer has given the frames that ended and
\* holds the cells of the one that has not.
HasEnded(cell) == cell[2] = Cells[cell[1]]
IsFramed(s, k, st) ==
    /\ st \in Framing /\ st.out = wholeFrames(SubSeq(s, 1, k))
    /\ (k = 0 \/ HasEnded(s[k])) => st.buf = << >>
    /\ ~(k = 0 \/ HasEnded(s[k])) =>
          /\ Len(st.buf) = s[k][2] /\ st.buf[1] = <<s[k][1], 1>>
          /\ s[k][2] > 0 /\ s[k][2] < Cells[s[k][1]]
FramingAll ==
    INSTANCE FoldFacts WITH Op <- LAMBDA c, st, cell : nextFrame(st, cell), Inv <- IsFramed

\* One cell more of a stream that is frame after frame.
LEMMA FramedMore ==
    ASSUME NEW s \in Seq(Cell), FrameAfterFrame(s), NEW k \in 1..Len(s), NEW st,
           IsFramed(s, k - 1, st)
    PROVE  IsFramed(s, k, nextFrame(st, s[k]))
<1> DEFINE cell == s[k]
           a == cell[1]
           n == cell[2]
           b == Append(st.buf, cell)
<1>1. /\ Len(s) \in Nat /\ k \in Nat /\ k - 1 \in 0..Len(s) /\ cell \in Cell /\ DOMAIN s = 1..Len(s)
      /\ SubSeq(s, 1, k - 1) \in Seq(Cell)
      /\ SubSeq(s, 1, k) = Append(SubSeq(s, 1, k - 1), cell)
  BY LenProperties, FramingAll!Prefix
<1>2. a \in DOMAIN Cells /\ n \in Nat /\ cell = <<a, n>> /\ Cells[a] \in Nat \ {0}
  BY <1>1, StreamAssumption DEF Cell
<1>3. st \in Framing /\ st.buf \in Seq(Cell) /\ nextFrame(st, cell) \in Framing
  BY <1>1, NextFrameType DEF IsFramed, Framing
<1>4. b \in Seq(Cell) /\ Len(b) = Len(st.buf) + 1 /\ Len(st.buf) \in Nat
      /\ b[Len(st.buf) + 1] = cell /\ \A i \in 1..Len(st.buf) : b[i] = st.buf[i]
  BY <1>1, <1>3, AppendProperties, LenProperties
<1>5. wholeFrames(SubSeq(s, 1, k)) = ended(st.out, cell)
  <2>1. PICK u : u = SubSeq(s, 1, k - 1)
    OBVIOUS
  <2>2. wholeFrames(Append(u, cell)) = ended(wholeFrames(u), cell)
    BY <1>1, <2>1, WholeMore
  <2> QED BY <1>1, <2>1, <2>2 DEF IsFramed
\* The cell belongs to the frame whose first cell is the first of the buffer.
<1>6. b[1] = <<a, 1>> /\ Len(b) = n
  <2>1. CASE k = 1 \/ HasEnded(s[k - 1])
    <3>1. st.buf = << >>
      BY <1>1, <2>1 DEF IsFramed
    <3>2. n = 1
      BY <1>1, <2>1 DEF FrameAfterFrame, HasEnded
    <3> QED BY <1>2, <1>4, <3>1, <3>2
  <2>2. CASE ~(k = 1 \/ HasEnded(s[k - 1]))
    <3>1. /\ Len(st.buf) = s[k - 1][2] /\ st.buf[1] = <<s[k - 1][1], 1>> /\ s[k - 1][2] > 0
      BY <1>1, <2>2 DEF IsFramed
    <3>2. cell = <<s[k - 1][1], s[k - 1][2] + 1>>
      BY <1>1, <2>2 DEF FrameAfterFrame, HasEnded
    <3> QED BY <1>4, <3>1, <3>2
  <2> QED BY <2>1, <2>2
<1>7. frameLen(b[1]) = Cells[a]
  BY <1>6 DEF frameLen
<1>8. CASE n < Cells[a]
  <2>1. nextFrame(st, cell) = [st EXCEPT !.buf = b]
    BY <1>6, <1>7, <1>8 DEF nextFrame
  <2>2. ended(st.out, cell) = st.out /\ ~HasEnded(cell)
    BY <1>2, <1>8 DEF ended, HasEnded
  <2> HIDE DEF b
  <2>3. nextFrame(st, cell).buf = b /\ nextFrame(st, cell).out = st.out
    BY <1>3, <2>1 DEF Framing
  <2>4. n > 0
    BY <1>4, <1>6
  <2> HIDE DEF cell
  <2> QED BY <1>1, <1>2, <1>3, <1>5, <1>6, <1>8, <2>2, <2>3, <2>4 DEF IsFramed, cell
<1>9. CASE ~(n < Cells[a])
  <2>1. nextFrame(st, cell) = [buf |-> << >>, out |-> Append(st.out, decodeFrame(b[1]))]
    BY <1>6, <1>7, <1>9 DEF nextFrame
  \* No frame is longer than it says.
  <2>2. n = Cells[a]
    <3>1. CASE k = 1 \/ HasEnded(s[k - 1])
      <4>1. n = 1
        BY <1>1, <3>1 DEF FrameAfterFrame, HasEnded
      <4> QED BY <1>2, <1>9, <4>1
    <3>2. CASE ~(k = 1 \/ HasEnded(s[k - 1]))
      <4>1. /\ s[k - 1][2] < Cells[s[k - 1][1]] /\ s[k - 1] \in Cell
        <5>1. k - 1 \in 1..Len(s)
          BY <1>1, <3>2
        <5> QED BY <1>1, <3>2, <5>1, ElementOfSeq DEF IsFramed
      <4>2. cell = <<s[k - 1][1], s[k - 1][2] + 1>>
        BY <1>1, <3>2 DEF FrameAfterFrame, HasEnded
      <4>3. s[k - 1][2] \in Nat
        BY <4>1 DEF Cell
      <4> QED BY <1>2, <1>9, <4>1, <4>2, <4>3
    <3> QED BY <3>1, <3>2
  <2>3. ended(st.out, cell) = Append(st.out, decodeFrame(<<a, 1>>)) /\ HasEnded(cell)
    BY <2>2 DEF ended, HasEnded
  <2> HIDE DEF b
  <2>4. nextFrame(st, cell).buf = << >> /\ nextFrame(st, cell).out = ended(st.out, cell)
    BY <1>6, <2>1, <2>3
  <2> HIDE DEF cell
  <2> QED BY <1>1, <1>3, <1>5, <2>3, <2>4 DEF IsFramed, cell
<1> QED BY <1>2, <1>8, <1>9

\* So the framer gives the stream's whole frames.
LEMMA FedIsWhole ==
    ASSUME NEW s \in Seq(Cell), FrameAfterFrame(s)
    PROVE  fed(<< >>, s).out = wholeFrames(s)
<1> DEFINE base == [buf |-> << >>, out |-> << >>]
<1>1. IsFramed(s, 0, base)
  <2>1. SubSeq(s, 1, 0) = << >>
    BY FramingAll!Prefix
  <2>2. base \in Framing
    BY EmptySeq DEF Framing
  <2> QED BY <2>1, <2>2, WholeMore DEF IsFramed
<1>2. \A k \in 1..Len(s) : \A st : IsFramed(s, k - 1, st) => IsFramed(s, k, nextFrame(st, s[k]))
  BY FramedMore
<1>3. fed(<< >>, s) = FramingAll!Fold(s, base, s)
  BY DEF fed, FramingAll!Fold, FramingAll!Top, FoldLeft, MapThenFoldSet, Max
<1> HIDE DEF base
<1>4. IsFramed(s, Len(s), FramingAll!Fold(s, base, s))
  BY <1>1, <1>2, FramingAll!FoldKeeps
<1>5. SubSeq(s, 1, Len(s)) = s
  BY FramingAll!Prefix
<1> QED BY <1>3, <1>4, <1>5 DEF IsFramed

-----------------------------------------------------------------------------
(* What is recorded of a direction.                                           *)

framedOf(up, ms) == FoldLeft(LAMBDA acc, m : framed(up, acc, m), << >>, ms)

\* New messages that are framed messages of the direction (mine), or none of which is.
IsRecord(c, k, acc) ==
    acc \in Seq(Outs) /\ acc = IF c.whose = "mine" THEN c.base \o SubSeq(c.out, 1, k) ELSE c.base
Recording == INSTANCE FoldFacts WITH Op <- LAMBDA c, acc, m : framed(c.up, acc, m), Inv <- IsRecord
IsOuts(c, k, acc) == acc \in Seq(Outs)
Outing == INSTANCE FoldFacts WITH Op <- LAMBDA up, acc, m : framed(up, acc, m), Inv <- IsOuts

\* What was framed of a direction is frames.
LEMMA FramedOfType ==
    ASSUME NEW up, NEW ms \in Seq(Msgs)
    PROVE  framedOf(up, ms) \in Seq(Outs)
<1>1. IsOuts(up, 0, << >>)
  BY EmptySeq DEF IsOuts
<1>2. \A k \in 1..Len(ms) : \A acc : IsOuts(up, k - 1, acc) => IsOuts(up, k, framed(up, acc, ms[k]))
  <2> SUFFICES ASSUME NEW k \in 1..Len(ms), NEW acc \in Seq(Outs)
               PROVE  framed(up, acc, ms[k]) \in Seq(Outs)
    BY DEF IsOuts
  <2>1. ms[k] \in Msgs
    BY ElementOfSeq
  <2>2. ms[k].msg \in Outs
    BY <2>1 DEF Msgs
  <2> QED BY <2>2 DEF framed
<1>3. framedOf(up, ms) = Outing!Fold(up, << >>, ms)
  BY DEF framedOf, Outing!Fold, Outing!Top, FoldLeft, MapThenFoldSet, Max
<1>4. IsOuts(up, Len(ms), Outing!Fold(up, << >>, ms))
  BY <1>1, <1>2, Outing!FoldKeeps
<1> QED BY <1>3, <1>4 DEF IsOuts

\* Of no messages none is framed.
LEMMA FramedOfNone == \A up : framedOf(up, << >>) = << >>
<1> TAKE up
<1>1. framedOf(up, << >>) = Outing!Fold(up, << >>, << >>)
  BY DEF framedOf, Outing!Fold, Outing!Top, FoldLeft, MapThenFoldSet, Max
<1> QED BY <1>1, Outing!FoldOfNone

\* New messages that carry what came out, and such that none counts.
Mine(up, new, out) ==
    /\ Len(out) = Len(new)
    /\ \A i \in 1..Len(new) : new[i].up = up /\ new[i].msg = out[i] /\ out[i] # verbatim
NotMine(up, new) == \A i \in 1..Len(new) : new[i].up # up \/ new[i].msg = verbatim

\* The frames that came out of a chunk are recorded in the chunk's direction.
LEMMA RecordOn ==
    ASSUME NEW up, NEW ms \in Seq(Msgs), NEW new \in Seq(Msgs), NEW out \in Seq(Outs),
           NEW whose \in {"mine", "other"},
           whose = "mine" => Mine(up, new, out), whose = "other" => NotMine(up, new)
    PROVE  framedOf(up, ms \o new)
             = IF whose = "mine" THEN framedOf(up, ms) \o out ELSE framedOf(up, ms)
<1> DEFINE base == framedOf(up, ms)
           c == [up |-> up, whose |-> whose, base |-> base, out |-> out]
<1>1. base \in Seq(Outs) /\ Len(new) \in Nat
  BY FramedOfType, LenProperties
<1>2. \A x : framedOf(up, x) = Recording!Fold(c, << >>, x)
  BY DEF framedOf, Recording!Fold, Recording!Top, FoldLeft, MapThenFoldSet, Max
<1> HIDE DEF base
<1>3. IsRecord(c, 0, base)
  <2>1. SubSeq(out, 1, 0) = << >>
    BY Recording!Prefix
  <2> QED BY <1>1, <2>1, ConcatEmptySeq DEF IsRecord
<1>4. ASSUME NEW k \in 1..Len(new), NEW acc, IsRecord(c, k - 1, acc)
      PROVE  IsRecord(c, k, framed(up, acc, new[k]))
  <2>1. CASE whose = "other"
    <3>1. framed(up, acc, new[k]) = acc
      BY <2>1 DEF framed, NotMine
    <3> QED BY <1>4, <2>1, <3>1 DEF IsRecord
  <2>2. CASE whose = "mine"
    <3>1. /\ SubSeq(out, 1, k - 1) \in Seq(Outs) /\ out[k] \in Outs
          /\ SubSeq(out, 1, k) = Append(SubSeq(out, 1, k - 1), out[k])
      <4>1. k \in 1..Len(out) /\ k - 1 \in 0..Len(out)
        BY <1>1, <2>2 DEF Mine
      <4> QED BY <4>1, Recording!Prefix
    <3>2. framed(up, acc, new[k]) = Append(acc, out[k]) /\ acc \in Seq(Outs)
      BY <1>4, <2>2 DEF framed, IsRecord, Mine
    <3>3. PICK u : u = SubSeq(out, 1, k - 1)
      OBVIOUS
    <3>4. acc = base \o u /\ u \in Seq(Outs)
      BY <1>4, <2>2, <3>1, <3>3 DEF IsRecord
    <3>5. Append(base \o u, out[k]) = base \o Append(u, out[k])
      <4>1. PICK b, x : b = base /\ x = out[k]
        OBVIOUS
      <4>2. b \in Seq(Outs) /\ x \in Outs
        BY <1>1, <3>1, <4>1
      <4>3. Append(b \o u, x) = b \o Append(u, x)
        BY ONLY <3>4, <4>2, AppendOn
      <4> QED BY <4>1, <4>3
    <3>6. Append(acc, out[k]) \in Seq(Outs)
      BY <3>1, <3>2
    <3> QED BY <2>2, <3>1, <3>2, <3>3, <3>4, <3>5, <3>6 DEF IsRecord
  <2> QED BY <2>1, <2>2
<1>5. c.up = up
  OBVIOUS
<1> HIDE DEF c
<1>6. IsRecord(c, Len(new), Recording!Fold(c, base, new))
  <2>1. \A k \in 1..Len(new) : \A acc :
          IsRecord(c, k - 1, acc) => IsRecord(c, k, framed(c.up, acc, new[k]))
    BY <1>4, <1>5
  <2> QED BY <1>3, <2>1, Recording!FoldKeeps
<1>7. framedOf(up, ms \o new) = Recording!Fold(c, base, new)
  <2>1. Recording!Fold(c, << >>, ms \o new) = Recording!Fold(c, Recording!Fold(c, << >>, ms), new)
    BY Recording!FoldOfJoined
  <2> QED BY <1>2, <2>1 DEF base
<1>8. whose = "mine" => SubSeq(out, 1, Len(new)) = out
  BY Recording!Prefix DEF Mine
<1> QED BY <1>6, <1>7, <1>8 DEF IsRecord, c, base

\* Frames count in the direction of their push, a message kept as it came in none.
LEMMA FramesRecorded ==
    ASSUME NEW h \in Pushes, push(h).what = "frame", NEW up, NEW ms \in Seq(Msgs),
           NEW out \in Seq(FramesOut)
    PROVE  /\ framedOf(up, ms \o frames(h, out))
                = IF push(h).up = up THEN framedOf(up, ms) \o out ELSE framedOf(up, ms)
           /\ framedOf(up, ms \o asIs(h)) = framedOf(up, ms)
<1>1. out \in Seq(Outs) /\ <<verbatim>> \in Seq(Outs)
  <2>1. FramesOut \subseteq Outs /\ verbatim \in Outs
    BY DEF FramesOut, Outs, verbatim
  <2>2. out \in Seq(Outs)
    <3>1. Len(out) \in Nat /\ \A i \in 1..Len(out) : out[i] \in Outs
      BY <2>1, LenProperties, ElementOfSeq
    <3>2. out = [i \in 1..Len(out) |-> out[i]]
      BY LenProperties
    <3> QED BY <3>1, <3>2, IsASeq
  <2> QED BY <2>1, <2>2
<1>2. /\ frames(h, out) \in Seq(Msgs) /\ asIs(h) \in Seq(Msgs) /\ push(h).up \in BOOLEAN
  BY <1>1, FramesType, PushFacts DEF asIs
<1>3. /\ Len(frames(h, out)) = Len(out)
      /\ \A i \in 1..Len(out) :
            /\ frames(h, out)[i].up = push(h).up /\ frames(h, out)[i].msg = out[i]
            /\ out[i] # verbatim
  <2>1. DOMAIN out = 1..Len(out) /\ Len(out) \in Nat
    BY LenProperties
  <2>2. DOMAIN frames(h, out) = 1..Len(out) /\ DOMAIN frames(h, out) = 1..Len(frames(h, out))
        /\ Len(frames(h, out)) \in Nat
    BY <1>2, <2>1, LenProperties DEF frames
  <2>3. Len(frames(h, out)) = Len(out)
    BY <2>1, <2>2
  <2>4. ASSUME NEW i \in 1..Len(out)
        PROVE  /\ frames(h, out)[i].up = push(h).up /\ frames(h, out)[i].msg = out[i]
               /\ out[i] # verbatim
    <3>1. frames(h, out)[i].up = push(h).up /\ frames(h, out)[i].msg = out[i]
      BY <2>1 DEF frames
    <3>2. out[i] \in FramesOut
      BY ElementOfSeq
    <3>3. verbatim.as = "verbatim" /\ out[i].as # "verbatim"
      BY <3>2 DEF FramesOut, verbatim
    <3> QED BY <3>1, <3>3
  <2> QED BY <2>3, <2>4
<1>4. Len(asIs(h)) = 1 /\ asIs(h)[1].msg = verbatim
  <2>1. asIs(h) = [i \in {1} |-> [push |-> h[2], up |-> push(h).up, msg |-> verbatim]]
    <3>1. DOMAIN <<verbatim>> = {1}
      OBVIOUS
    <3> QED BY <3>1 DEF asIs, frames
  <2>2. DOMAIN asIs(h) = 1..Len(asIs(h)) /\ Len(asIs(h)) \in Nat
    BY <1>2, LenProperties
  <2>3. 1..Len(asIs(h)) = {1}
    BY <2>1, <2>2
  <2>4. Len(asIs(h)) = 1
    BY <2>2, <2>3
  <2> QED BY <2>1, <2>4
<1>5. framedOf(up, ms \o frames(h, out))
        = IF push(h).up = up THEN framedOf(up, ms) \o out ELSE framedOf(up, ms)
  <2>1. PICK new : new = frames(h, out)
    OBVIOUS
  <2>2. /\ new \in Seq(Msgs) /\ Len(new) = Len(out)
        /\ \A i \in 1..Len(new) :
              new[i].up = push(h).up /\ new[i].msg = out[i] /\ out[i] # verbatim
    BY <1>2, <1>3, <2>1
  <2>0. out \in Seq(Outs)
    BY <1>1
  <2>3. CASE push(h).up = up
    <3>1. PICK whose \in {"mine", "other"} : whose = "mine"
      OBVIOUS
    <3>3. Mine(up, new, out) /\ whose # "other"
      BY <2>2, <2>3, <3>1 DEF Mine
    <3>2. framedOf(up, ms \o new)
            = IF whose = "mine" THEN framedOf(up, ms) \o out ELSE framedOf(up, ms)
      BY <2>0, <2>2, <3>1, <3>3, RecordOn
    <3> QED BY <2>1, <2>3, <3>1, <3>2
  <2>4. CASE push(h).up # up
    <3>1. PICK whose \in {"mine", "other"} : whose = "other"
      OBVIOUS
    <3>2. NotMine(up, new)
      BY <2>2, <2>4 DEF NotMine
    <3>3. whose # "mine"
      BY <3>1
    <3>4. framedOf(up, ms \o new)
            = IF whose = "mine" THEN framedOf(up, ms) \o out ELSE framedOf(up, ms)
      BY <2>0, <2>2, <3>1, <3>2, <3>3, RecordOn
    <3> QED BY <2>1, <2>4, <3>3, <3>4
  <2> QED BY <2>3, <2>4
<1>6. framedOf(up, ms \o asIs(h)) = framedOf(up, ms)
  <2>1. PICK whose \in {"mine", "other"} : whose = "other"
    OBVIOUS
  <2>2. PICK new : new = asIs(h)
    OBVIOUS
  <2>3. new \in Seq(Msgs) /\ \A i \in 1..Len(new) : new[i].msg = verbatim
    <3>1. new \in Seq(Msgs) /\ Len(new) = 1 /\ new[1].msg = verbatim
      BY ONLY <1>2, <1>4, <2>2
    <3>2. ASSUME NEW i \in 1..Len(new) PROVE i = 1
      BY ONLY <3>1, <3>2
    <3> QED BY <3>1, <3>2
  <2>4. NotMine(up, new) /\ new \in Seq(Msgs) /\ out \in Seq(Outs)
    BY <1>1, <2>3 DEF NotMine
  <2>5. whose # "mine"
    BY <2>1
  <2>6. framedOf(up, ms \o new)
          = IF whose = "mine" THEN framedOf(up, ms) \o out ELSE framedOf(up, ms)
    BY <2>1, <2>4, <2>5, RecordOn
  <2> QED BY <2>2, <2>5, <2>6
<1> QED BY <1>5, <1>6

-----------------------------------------------------------------------------
(* The framers go with the flows.                                             *)

\* How far a flow's chunks have come: those before its last push, and that one unless it
\* still has to be framed.
fedUpTo(f) ==
    IF next[f] > 0 /\ handler[<<f, next[f]>>].at \in {"sent", "feed"} THEN next[f] - 1 ELSE next[f]

\* The messages of a flow, those a call has in hand included.
told(f) ==
    IF next[f] > 0 /\ handler[<<f, next[f]>>].at = "store"
    THEN messages[f] \o handler[<<f, next[f]>>].out
    ELSE messages[f]

state(f) == IF Transport[f] = "TCP" THEN tcpStates[f] ELSE wsStates[f]
buffer(st, up) == IF st = None THEN << >> ELSE st.bufs[side(up)]
NotRefused(f) == (Transport[f] = "TCP" /\ tcpStates[f] # None) => tcpStates[f].dec

\* Whoever claims a flow has framed its chunks as if they had come in one piece.
InStep(f) ==
    NotRefused(f) =>
        \A up \in BOOLEAN :
            fed(<< >>, chunksUpTo(f, up, fedUpTo(f)))
                = [buf |-> buffer(state(f), up), out |-> framedOf(up, told(f))]

\* Who decides is known when a flow's first push is answered; before it nothing is stored.
Ready(f) ==
    /\ next[f] = 0 => messages[f] = << >>
    /\ \A h \in Pushes : (h[1] = f /\ h[2] = 1) =>
          /\ Transport[f] = "TCP" /\ handler[h].at \in {"insert", "publish", "meta", "done"}
                => tcpStates[f] # None
          /\ Transport[f] \in {"WS", "UDP"} /\ handler[h].at = "done" => wsStates[f] # None

Follows(f) == Ready(f) /\ (f \in Claimed /\ Transport[f] # "HTTP" => InStep(f))
FrameInv == \A f \in Flows \ disturbed : Follows(f)

\* The call of an undisturbed flow that is under way is that of its last push.
LEMMA AtHand ==
    ASSUME PushInv, NEW h \in Pushes, h[1] \notin disturbed,
           handler[h].at \notin {"none", "done"}
    PROVE  /\ h[1] \in Flows /\ h = <<h[1], next[h[1]]>> /\ h[2] = next[h[1]] /\ next[h[1]] > 0
           /\ next[h[1]] \in 1..Len(Script[h[1]]) /\ push(h) = Script[h[1]][next[h[1]]]
<1>1. /\ h[1] \in Flows /\ h[2] \in 1..Len(Script[h[1]]) /\ h = <<h[1], h[2]>>
      /\ next[h[1]] \in Nat /\ h[2] \in Nat /\ h[2] > 0 /\ h[2] <= next[h[1]]
  BY PushTurn
<1>2. Begun(h[1], h[2])
  BY <1>1 DEF PushInv, Awaits
<1>3. h[2] = next[h[1]]
  BY <1>1, <1>2 DEF Begun
<1> QED BY <1>1, <1>3 DEF push

\* A step that changes nothing of a flow.
LEMMA FollowsQuiet ==
    ASSUME PushInv, NEW f \in Flows, Follows(f), next'[f] = next[f],
           \A q \in Pushes : q[1] = f =>
              handler'[q].at = handler[q].at /\ handler'[q].out = handler[q].out,
           messages'[f] = messages[f], tcpStates'[f] = tcpStates[f], wsStates'[f] = wsStates[f]
    PROVE  Follows(f)'
<1>1. next[f] > 0 => <<f, next[f]>> \in Pushes /\ <<f, next[f]>>[1] = f
  <2>1. next[f] > 0 => next[f] \in 1..Len(Script[f])
    BY PushAssumption, LenProperties DEF PushInv, Awaits
  <2> QED BY <2>1, AwaitedFacts
<1>2. fedUpTo(f)' = fedUpTo(f) /\ told(f)' = told(f)
  BY <1>1 DEF fedUpTo, told
<1>3. state(f)' = state(f) /\ (NotRefused(f)' <=> NotRefused(f))
  BY DEF state, NotRefused
<1>4. Ready(f)'
  BY DEF Follows, Ready
<1>5. InStep(f) => InStep(f)'
  BY <1>2, <1>3 DEF InStep
<1> QED BY <1>4, <1>5 DEF Follows

\* A step of one call is none of the other flows.
LEMMA FrameStep ==
    ASSUME PushInv, FrameInv, NEW h \in Pushes, Others(h), disturbed \subseteq disturbed',
           \A e \in Flows : e # h[1] =>
              /\ next'[e] = next[e] /\ messages'[e] = messages[e]
              /\ tcpStates'[e] = tcpStates[e] /\ wsStates'[e] = wsStates[e],
           h[1] \notin disturbed' => Follows(h[1])'
    PROVE  FrameInv'
<1> SUFFICES ASSUME NEW e \in Flows, e \notin disturbed' PROVE Follows(e)'
  BY DEF FrameInv
<1>1. CASE e = h[1]
  BY <1>1
<1>2. CASE e # h[1]
  <2>1. Follows(e)
    BY DEF FrameInv
  <2>2. \A q \in Pushes : q[1] = e => handler'[q] = handler[q]
    BY <1>2 DEF Others
  <2> QED BY <1>2, <2>1, <2>2, FollowsQuiet
<1> QED BY <1>1, <1>2

\* A step of a call that neither frames nor stores messages, and decides at most with
\* empty buffers.
LEMMA FollowsStep ==
    ASSUME PushInv, NEW h \in Pushes, h[1] \notin disturbed, Follows(h[1]), Others(h),
           handler[h].at \notin {"none", "done", "sent", "feed", "store"},
           handler'[h].at \notin {"sent", "feed", "store"},
           UNCHANGED <<next, messages>>,
           \A up : buffer(state(h[1])', up) = buffer(state(h[1]), up),
           NotRefused(h[1])' => NotRefused(h[1]),
           h[2] = 1 => Ready(h[1])',
           tcpStates[h[1]] # None => tcpStates'[h[1]] # None,
           wsStates[h[1]] # None => wsStates'[h[1]] # None
    PROVE  Follows(h[1])'
<1> DEFINE f == h[1]
<1>1. f \in Flows /\ h = <<f, next[f]>> /\ h[2] = next[f] /\ next[f] > 0
  BY AtHand
<1>2. fedUpTo(f)' = fedUpTo(f) /\ told(f)' = told(f)
  BY <1>1 DEF fedUpTo, told
<1>3. Ready(f)'
  <2>1. CASE h[2] # 1
    <3>1. \A q \in Pushes : (q[1] = f /\ q[2] = 1) => handler'[q] = handler[q]
      BY <2>1 DEF Others
    <3> QED BY <3>1 DEF Follows, Ready
  <2> QED BY <2>1
<1>4. InStep(f) => InStep(f)'
  <2> SUFFICES ASSUME InStep(f), NotRefused(f)', NEW up \in BOOLEAN
               PROVE  (fed(<< >>, chunksUpTo(f, up, fedUpTo(f)))
                         = [buf |-> buffer(state(f), up), out |-> framedOf(up, told(f))])'
    BY DEF InStep
  <2>1. fed(<< >>, chunksUpTo(f, up, fedUpTo(f)))
          = [buf |-> buffer(state(f), up), out |-> framedOf(up, told(f))]
    BY DEF InStep
  <2>2. buffer(state(f), up)' = buffer(state(f), up)
    BY DEF buffer
  <2> QED BY <1>2, <2>1, <2>2
<1> QED BY <1>3, <1>4 DEF Follows

\* The first push gets a decision: a TCP flow's, or none.
LEMMA FrameClaims ==
    ASSUME PushInv, FrameInv, NEW h \in Pushes, ClaimPushedTCP(h)
    PROVE  FrameInv'
<1> DEFINE f == h[1]
           st == IF tcpStates[f] = None THEN decision(h) ELSE tcpStates[f]
<1>1. /\ Others(h) /\ handler[h].at = "claim" /\ handler'[h].at = "insert" /\ f \in Flows
      /\ UNCHANGED <<next, messages, wsStates, disturbed>>
  BY ClaimFacts, PushFacts DEF PushInv, Stays, ClaimPushedTCP, client, bundle
<1>2. /\ tcpStates \in [Flows -> States \cup {None}] /\ tcpStates' \in [Flows -> States \cup {None}]
      /\ tcpStates' = IF Transport[f] = "TCP" THEN [tcpStates EXCEPT ![f] = st] ELSE tcpStates
  BY ClaimFacts DEF PushInv, TypeInv, GatewayTypes, ClaimPushedTCP
<1>3. /\ \A e \in Flows : e # f => tcpStates'[e] = tcpStates[e]
      /\ Transport[f] = "TCP" => tcpStates'[f] = st
      /\ Transport[f] # "TCP" => tcpStates'[f] = tcpStates[f]
  <2> HIDE DEF st
  <2> QED BY <1>1, <1>2
<1>4. decision(h).bufs = Framer /\ decision(h) # None
  <2>1. CallOK(h) /\ push(h).named \in BOOLEAN
    BY <1>1, PushFacts DEF PushInv, TypeInv, CallOK, FlowSteps
  <2>2. << >> \in Seq(Cell)
    BY EmptySeq
  <2>3. decision(h) \in States
    BY <2>1, <2>2 DEF decision, Undecided, Framer, States, Bufs
  <2> QED BY <2>3, NoneIsNone DEF decision, Undecided
<1>5. ASSUME f \notin disturbed PROVE Follows(f)'
  <2>1. Follows(f)
    BY <1>1, <1>5 DEF FrameInv
  <2>2. /\ Transport[f] = "TCP" => st # None
        /\ tcpStates[f] # None => tcpStates'[f] = tcpStates[f]
    BY <1>3, <1>4
  <2>3. \A up : buffer(state(f)', up) = buffer(state(f), up)
    <3>1. CASE Transport[f] = "TCP" /\ tcpStates[f] = None
      <4>1. \A up : Framer[side(up)] = << >>
        BY DEF Framer, side
      <4>2. tcpStates'[f] = decision(h)
        BY <1>3, <3>1
      <4> QED BY <1>4, <3>1, <4>1, <4>2 DEF buffer, state
    <3>2. CASE ~(Transport[f] = "TCP" /\ tcpStates[f] = None)
      BY <1>1, <1>3, <2>2, <3>2 DEF state
    <3> QED BY <3>1, <3>2
  <2>4. NotRefused(f)' => NotRefused(f)
    BY <1>3, <2>2 DEF NotRefused
  <2>5. h[2] = 1 => Ready(f)'
    <3> SUFFICES ASSUME h[2] = 1 PROVE Ready(f)'
      OBVIOUS
    <3>1. \A q \in Pushes : (q[1] = f /\ q[2] = 1) => q = h
      BY PushFacts
    <3>2. Transport[f] = "TCP" => tcpStates'[f] # None
      BY <1>3, <2>2
    <3> QED BY <1>1, <2>1, <3>1, <3>2 DEF Follows, Ready
  <2> QED BY <1>1, <1>3, <1>5, <2>1, <2>2, <2>3, <2>4, <2>5, FollowsStep
<1> HIDE DEF st
<1> QED BY <1>1, <1>3, <1>5, FrameStep

\* The framer of WebSockets gets to know a flow.
LEMMA FrameMeta ==
    ASSUME PushInv, ClaimInv, FrameInv, NEW h \in Pushes, RecordWSMeta(h)
    PROVE  FrameInv'
<1> DEFINE f == h[1]
<1>1. /\ Others(h) /\ handler[h].at = "meta" /\ handler'[h].at = "done" /\ f \in Flows
      /\ UNCHANGED <<next, messages, tcpStates, disturbed>>
  BY MetaFacts, PushFacts DEF PushInv, RecordWSMeta, client, bundle
<1>2. wsStates \in [Flows -> States \cup {None}] /\ Undecided # None
  <2>1. << >> \in Seq(Cell)
    BY EmptySeq
  <2>2. Undecided \in States
    BY <2>1 DEF Undecided, Framer, States, Bufs
  <2> QED BY <2>2, NoneIsNone DEF PushInv, TypeInv, GatewayTypes
<1>3. /\ \A e \in Flows : e # f => wsStates'[e] = wsStates[e]
      /\ wsStates[f] # None => wsStates'[f] = wsStates[f]
      /\ wsStates[f] = None => wsStates'[f] \in {None, Undecided}
      /\ (wsStates[f] = None /\ Transport[f] # "HTTP" /\ handler[h].row.proto # "TCP")
            => wsStates'[f] = Undecided
  BY <1>1, <1>2 DEF RecordWSMeta
<1>4. ASSUME f \notin disturbed PROVE Follows(f)'
  <2>1. Follows(f) /\ RowDecided(h)
    BY <1>1, <1>4 DEF FrameInv, ClaimInv, RowsDecided, WithRow
  <2>2. \A up : buffer(state(f)', up) = buffer(state(f), up)
    <3>1. CASE Transport[f] # "TCP" /\ wsStates[f] = None
      <4>1. \A up : Framer[side(up)] = << >>
        BY DEF Framer, side
      <4>2. Undecided.bufs = Framer
        BY DEF Undecided
      <4> QED BY <1>2, <1>3, <3>1, <4>1, <4>2 DEF buffer, state
    <3>2. CASE ~(Transport[f] # "TCP" /\ wsStates[f] = None)
      BY <1>1, <1>3, <3>2 DEF state
    <3> QED BY <3>1, <3>2
  <2>3. NotRefused(f)' => NotRefused(f)
    BY <1>1 DEF NotRefused
  <2>4. h[2] = 1 => Ready(f)'
    <3> SUFFICES ASSUME h[2] = 1 PROVE Ready(f)'
      OBVIOUS
    <3>1. \A q \in Pushes : (q[1] = f /\ q[2] = 1) => q = h
      BY PushFacts
    <3>2. Transport[f] \in {"WS", "UDP"} => wsStates'[f] # None
      BY <1>2, <1>3, <2>1 DEF RowDecided
    <3>3. Transport[f] = "TCP" => tcpStates[f] # None
      BY <1>1, <2>1 DEF Follows, Ready
    <3> QED BY <1>1, <2>1, <3>1, <3>2, <3>3 DEF Follows, Ready
  <2>5. wsStates[f] # None => wsStates'[f] # None
    BY <1>3
  <2> QED BY <1>1, <1>4, <2>1, <2>2, <2>3, <2>4, <2>5, FollowsStep
<1> QED BY <1>1, <1>3, <1>4, FrameStep

\* The other steps of a call that neither frame nor store messages.
LEMMA FrameRest ==
    ASSUME PushInv, FrameInv, NEW h \in Pushes,
           InsertFlows(h) \/ Publish(h) \/ PublishMessage(h)
    PROVE  FrameInv'
<1> DEFINE f == h[1]
<1>1. UNCHANGED <<next, messages, tcpStates, wsStates, disturbed>>
  <2>1. CASE InsertFlows(h)
    BY <2>1 DEF InsertFlows, client, gateway, bundle
  <2>2. CASE Publish(h)
    BY <2>2, SMTT(30) DEF Publish, client, bundle
  <2>3. CASE PublishMessage(h)
    BY <2>3 DEF PublishMessage, client, bundle
  <2> QED BY <2>1, <2>2, <2>3
<1>2. /\ Others(h) /\ f \in Flows
      /\ handler[h].at \in {"insert", "publish", "fanout"}
      /\ handler'[h].at \in {"publish", "meta", "fanout", "done"}
      /\ handler[h].at = "fanout" => push(h).what = "frame"
      /\ handler'[h].at \in {"fanout", "done"} => handler[h].at = "fanout"
  <2>1. CASE InsertFlows(h)
    BY <2>1, InsertFacts, PushFacts DEF PushInv, Stays
  <2>2. CASE Publish(h)
    BY <2>2, PublishFacts, PushFacts DEF PushInv, Stays
  <2>3. CASE PublishMessage(h)
    BY <2>3, FanoutFacts, PushFacts DEF PushInv, Stays
  <2> QED BY <2>1, <2>2, <2>3
<1>3. ASSUME f \notin disturbed PROVE Follows(f)'
  <2>1. Follows(f)
    BY <1>2, <1>3 DEF FrameInv
  <2>2. \A up : buffer(state(f)', up) = buffer(state(f), up)
    BY <1>1 DEF state
  <2>3. NotRefused(f)' => NotRefused(f)
    BY <1>1 DEF NotRefused
  <2>4. h[2] = 1 => Ready(f)'
    <3> SUFFICES ASSUME h[2] = 1 PROVE Ready(f)'
      OBVIOUS
    <3>1. \A q \in Pushes : (q[1] = f /\ q[2] = 1) => q = h
      BY PushFacts
    <3>2. push(h).what = "flow"
      BY PushFacts
    <3>3. handler[h].at \in {"insert", "publish"} /\ handler'[h].at \in {"publish", "meta"}
      BY <1>2, <3>2
    <3>4. Ready(f)
      BY <2>1 DEF Follows
    <3>5. /\ Transport[f] = "TCP" => tcpStates'[f] # None
          /\ handler'[h].at # "done"
          /\ next'[f] = 0 => messages'[f] = << >>
      BY <1>1, <3>3, <3>4 DEF Ready
    <3> QED BY <3>1, <3>5 DEF Ready
  <2> QED BY <1>1, <1>2, <1>3, <2>1, <2>2, <2>3, <2>4, FollowsStep
<1> QED BY <1>1, <1>2, <1>3, FrameStep

\* The messages in hand are stored.
LEMMA FrameStores ==
    ASSUME PushInv, FrameInv, NEW h \in Pushes, InsertMessages(h)
    PROVE  FrameInv'
<1> DEFINE f == h[1]
<1>1. /\ Others(h) /\ handler[h].at = "store" /\ handler'[h].at \in {"done", "fanout"}
      /\ push(h).what = "frame" /\ f \in Flows
      /\ UNCHANGED <<next, tcpStates, wsStates, disturbed>>
  BY StoreFacts, PushFacts DEF PushInv, Stays, InsertMessages, client, gateway
<1>2. /\ messages'[f] = messages[f] \o handler[h].out
      /\ \A e \in Flows : e # f => messages'[e] = messages[e]
  <2>1. messages' = [messages EXCEPT ![f] = messages[f] \o handler[h].out]
    BY StoreFacts DEF PushInv
  <2>2. messages \in [Flows -> Seq(Msgs)]
    BY DEF PushInv, TypeInv, BundleTypes
  <2> QED BY <1>1, <2>1, <2>2
<1>3. ASSUME f \notin disturbed PROVE Follows(f)'
  <2>1. h = <<f, next[f]>> /\ h[2] = next[f] /\ next[f] > 0
    BY <1>1, <1>3, AtHand
  <2>2. Follows(f)
    BY <1>1, <1>3 DEF FrameInv
  <2>3. fedUpTo(f)' = fedUpTo(f) /\ told(f)' = told(f)
    BY <1>1, <1>2, <2>1 DEF fedUpTo, told
  <2>4. state(f)' = state(f) /\ (NotRefused(f)' <=> NotRefused(f))
    BY <1>1 DEF state, NotRefused
  <2>5. InStep(f) => InStep(f)'
    BY <2>3, <2>4 DEF InStep
  <2>6. Ready(f)'
    <3>1. ASSUME NEW q \in Pushes, q[1] = f, q[2] = 1 PROVE handler'[q] = handler[q]
      <4>1. push(q).what = "flow"
        BY <3>1, PushFacts
      <4> QED BY <1>1, <4>1 DEF Others
    <3>2. next'[f] # 0 /\ Ready(f)
      BY <1>1, <2>1, <2>2 DEF Follows
    <3> QED BY <1>1, <3>1, <3>2 DEF Ready
  <2> QED BY <2>2, <2>5, <2>6 DEF Follows
<1> QED BY <1>1, <1>2, <1>3, FrameStep

\* A batch is received; one that has no chunk is no news for the framer.
LEMMA FrameReceives ==
    ASSUME PushInv, FrameInv, NEW h \in Pushes, Receive(h)
    PROVE  FrameInv'
<1> DEFINE f == h[1]
<1>1. /\ Others(h) /\ handler[h].at = "sent" /\ handler'[h].at = AfterAnalysis(h) /\ f \in Flows
      /\ UNCHANGED <<next, messages, tcpStates, wsStates, disturbed>>
  BY ReceiveFacts, PushFacts DEF PushInv, Receive, client
<1>2. ASSUME f \notin disturbed PROVE Follows(f)'
  <2>1. /\ h = <<f, next[f]>> /\ h[2] = next[f] /\ next[f] > 0 /\ next[f] \in 1..Len(Script[f])
        /\ push(h) = Script[f][next[f]]
    BY <1>1, <1>2, AtHand
  <2>2. Follows(f)
    BY <1>1, <1>2 DEF FrameInv
  <2>3. told(f)' = told(f)
    BY <1>1, <2>1 DEF told, AfterAnalysis
  <2>4. state(f)' = state(f) /\ (NotRefused(f)' <=> NotRefused(f))
    BY <1>1 DEF state, NotRefused
  <2>5. \A up \in BOOLEAN : chunksUpTo(f, up, fedUpTo(f)') = chunksUpTo(f, up, fedUpTo(f))
    <3> SUFFICES ASSUME NEW up \in BOOLEAN
                 PROVE  chunksUpTo(f, up, fedUpTo(f)') = chunksUpTo(f, up, fedUpTo(f))
      OBVIOUS
    <3>1. fedUpTo(f) = next[f] - 1
      BY <1>1, <2>1 DEF fedUpTo
    <3>2. CASE push(h).what = "flow"
      <4>1. fedUpTo(f)' = next[f]
        BY <1>1, <2>1, <3>2 DEF fedUpTo, AfterAnalysis
      <4>2. chunksUpTo(f, up, next[f]) = joined(up, chunksUpTo(f, up, next[f] - 1), push(h))
        BY <1>1, <2>1, ChunksStep
      <4> QED BY <3>1, <3>2, <4>1, <4>2 DEF joined
    <3>3. CASE push(h).what # "flow"
      <4>1. fedUpTo(f)' = next[f] - 1
        BY <1>1, <2>1, <3>3 DEF fedUpTo, AfterAnalysis
      <4> QED BY <3>1, <4>1
    <3> QED BY <3>2, <3>3
  <2>6. InStep(f) => InStep(f)'
    <3> SUFFICES ASSUME InStep(f), NotRefused(f)', NEW up \in BOOLEAN
                 PROVE  (fed(<< >>, chunksUpTo(f, up, fedUpTo(f)))
                           = [buf |-> buffer(state(f), up), out |-> framedOf(up, told(f))])'
      BY DEF InStep
    <3>1. fed(<< >>, chunksUpTo(f, up, fedUpTo(f)))
            = [buf |-> buffer(state(f), up), out |-> framedOf(up, told(f))]
      BY <2>4 DEF InStep
    <3> QED BY <2>3, <2>4, <2>5, <3>1
  <2>7. Ready(f)'
    <3>1. ASSUME NEW q \in Pushes, q[1] = f, q[2] = 1
          PROVE  handler'[q] = handler[q] \/ handler'[q].at \in {"claim", "feed"}
      BY <1>1 DEF Others, AfterAnalysis
    <3>2. next'[f] # 0 /\ Ready(f)
      BY <1>1, <2>1, <2>2 DEF Follows
    <3> QED BY <1>1, <3>1, <3>2 DEF Ready
  <2> QED BY <2>2, <2>6, <2>7 DEF Follows
<1> QED BY <1>1, <1>2, FrameStep

\* A step after which a flow is one that was disturbed.
LEMMA FrameDisturbs ==
    ASSUME PushInv, FrameInv, NEW h \in Pushes,
           ReceiveFails(h) \/ StoreFails(h)
              \/ \E f \in Flows : (TimesOut(f) \/ Lose(f)) /\ h = awaited(f)
    PROVE  FrameInv'
<1>1. CASE ReceiveFails(h) \/ StoreFails(h)
  <2>1. Others(h) /\ UNCHANGED <<next, messages, tcpStates, wsStates>>
        /\ disturbed' = disturbed \cup {h[1]}
    <3>1. CASE ReceiveFails(h)
      BY <3>1, ReceiveFailsFacts DEF PushInv, ReceiveFails, client, bundle
    <3>2. CASE StoreFails(h)
      BY <3>2, StoreFailsFacts DEF PushInv, StoreFails, client, gateway, bundle
    <3> QED BY <1>1, <3>1, <3>2
  <2> QED BY <2>1, FrameStep
<1>2. ASSUME NEW f \in Flows, TimesOut(f) \/ Lose(f), h = awaited(f) PROVE FrameInv'
  <2>1. Others(h) /\ h[1] = f /\ UNCHANGED <<next, messages, tcpStates, wsStates>>
        /\ disturbed' = disturbed \cup {f}
    <3>1. CASE TimesOut(f)
      BY <1>2, <3>1, TimesOutFacts DEF PushInv, TimesOut, gateway, bundle, awaited
    <3>2. CASE Lose(f)
      BY <1>2, <3>2, LoseFacts DEF PushInv, Lose, client, gateway, bundle, awaited
    <3> QED BY <1>2, <3>1, <3>2
  <2> QED BY <2>1, FrameStep
<1> QED BY <1>1, <1>2

\* A push begins; the one before it is done.
LEMMA FrameSends ==
    ASSUME PushInv, FrameInv, NEW f \in Flows, Send(f)
    PROVE  FrameInv'
<1>0. PICK n, h : n = next[f] + 1 /\ h = <<f, n>>
  OBVIOUS
<1>1. /\ next' = [next EXCEPT ![f] = n] /\ h \in Pushes /\ Others(h) /\ h[1] = f /\ ~waiting[f]
      /\ handler[h].at = "none" /\ handler'[h].at = "sent" /\ n \in 1..Len(Script[f])
      /\ UNCHANGED <<messages, tcpStates, wsStates, disturbed>>
  BY <1>0, SendFacts DEF PushInv, Send, gateway, bundle
<1>2. /\ next[f] \in Nat /\ next'[f] = n /\ n > 0 /\ n - 1 = next[f]
      /\ \A e \in Flows : e # f => next'[e] = next[e]
  BY <1>0, <1>1 DEF PushInv, TypeInv, ClientTypes
<1>3. ASSUME f \notin disturbed PROVE Follows(f)'
  <2>1. Follows(f)
    BY <1>3 DEF FrameInv
  <2>2. next[f] > 0 => handler[<<f, next[f]>>].at = "done"
    <3> SUFFICES ASSUME next[f] > 0 PROVE handler[<<f, next[f]>>].at = "done"
      OBVIOUS
    <3>1. next[f] \in 1..Len(Script[f])
      BY PushAssumption, LenProperties DEF PushInv, Awaits
    <3> QED BY <1>1, <1>2, <1>3, <3>1 DEF PushInv, Awaits, Begun
  <2>3. fedUpTo(f)' = fedUpTo(f) /\ told(f)' = told(f)
    BY <1>0, <1>1, <1>2, <2>2 DEF fedUpTo, told
  <2>4. state(f)' = state(f) /\ (NotRefused(f)' <=> NotRefused(f))
    BY <1>1 DEF state, NotRefused
  <2>5. InStep(f) => InStep(f)'
    BY <2>3, <2>4 DEF InStep
  <2>6. Ready(f)'
    <3>1. ASSUME NEW q \in Pushes, q[1] = f, q[2] = 1
          PROVE  handler'[q] = handler[q] \/ handler'[q].at = "sent"
      BY <1>1 DEF Others
    <3>2. next'[f] # 0 /\ Ready(f)
      BY <1>2, <2>1 DEF Follows
    <3> QED BY <1>1, <3>1, <3>2 DEF Ready
  <2> QED BY <2>1, <2>5, <2>6 DEF Follows
<1> QED BY <1>1, <1>2, <1>3, FrameStep

\* The gateway forgets its framers; a flow that nothing was pushed of has lost none.
LEMMA FrameRestarts ==
    ASSUME PushInv, FrameInv, Restart
    PROVE  FrameInv'
<1>1. /\ UNCHANGED <<next, messages>> /\ disturbed' = disturbed \cup {f \in Flows : next[f] > 0}
      /\ \A f \in Flows : tcpStates'[f] = None /\ wsStates'[f] = None
  BY DEF Restart, client, bundle
<1> SUFFICES ASSUME NEW f \in Flows, f \notin disturbed' PROVE Follows(f)'
  BY DEF FrameInv
<1>2. f \notin disturbed /\ next[f] = 0 /\ Follows(f)
  BY <1>1 DEF FrameInv, PushInv, TypeInv, ClientTypes
<1>3. messages'[f] = << >> /\ next'[f] = 0
  BY <1>1, <1>2 DEF Follows, Ready
<1>4. Ready(f)'
  <2>1. ASSUME NEW q \in Pushes, q[1] = f PROVE handler'[q].at = "none"
    <3>1. q[2] \in 1..Len(Script[f]) /\ q = <<f, q[2]>> /\ q[2] > next[f]
      BY <1>2, <2>1, PushTurn
    <3>2. handler[q].at = "none"
      BY <3>1 DEF PushInv, Awaits, Begun
    <3> QED BY <3>2 DEF Restart
  <2> QED BY <1>3, <2>1 DEF Ready
<1>5. InStep(f)'
  <2> SUFFICES ASSUME NEW up \in BOOLEAN
               PROVE  (fed(<< >>, chunksUpTo(f, up, fedUpTo(f)))
                         = [buf |-> buffer(state(f), up), out |-> framedOf(up, told(f))])'
    BY DEF InStep
  <2>1. fedUpTo(f)' = 0 /\ told(f)' = << >>
    BY <1>3 DEF fedUpTo, told
  <2>2. buffer(state(f), up)' = << >>
    BY <1>1 DEF state, buffer
  <2>3. framedOf(up, << >>) = << >>
    BY FramedOfNone
  <2>4. fed(<< >>, chunksUpTo(f, up, 0)) = [buf |-> << >>, out |-> << >>]
    BY ChunksStep, FedNone
  <2> QED BY <2>1, <2>2, <2>3, <2>4
<1> QED BY <1>4, <1>5 DEF Follows

\* At first nothing was said and nothing framed.
LEMMA FrameInit == Init => FrameInv
<1> SUFFICES ASSUME Init, NEW f \in Flows PROVE Follows(f)
  BY DEF FrameInv
<1>1. next[f] = 0 /\ messages[f] = << >> /\ tcpStates[f] = None /\ wsStates[f] = None
  BY DEF Init, NoMessages
<1>2. \A h \in Pushes : handler[h].at = "none"
  BY DEF Init, Idle
<1>3. Ready(f)
  BY <1>1, <1>2 DEF Ready
<1>4. ASSUME NEW up \in BOOLEAN
      PROVE  fed(<< >>, chunksUpTo(f, up, fedUpTo(f)))
                = [buf |-> buffer(state(f), up), out |-> framedOf(up, told(f))]
  <2>1. fedUpTo(f) = 0 /\ told(f) = << >>
    BY <1>1 DEF fedUpTo, told
  <2>2. buffer(state(f), up) = << >>
    BY <1>1 DEF state, buffer
  <2>3. framedOf(up, << >>) = << >>
    BY FramedOfNone
  <2>4. fed(<< >>, chunksUpTo(f, up, 0)) = [buf |-> << >>, out |-> << >>]
    BY ChunksStep, FedNone
  <2> QED BY <2>1, <2>2, <2>3, <2>4
<1> QED BY <1>3, <1>4 DEF Follows, InStep

\* A framer's buffer for each direction.
LEMMA FeedSides ==
    ASSUME NEW bufs \in Bufs, NEW up \in BOOLEAN, NEW v \in BOOLEAN, NEW cells \in Seq(Cell)
    PROVE  /\ bufs[side(up)] \in Seq(Cell)
           /\ Feed(bufs, up, cells).out = fed(bufs[side(up)], cells).out
           /\ Feed(bufs, up, cells).bufs[side(v)]
                = IF v = up THEN fed(bufs[side(up)], cells).buf ELSE bufs[side(v)]
<1> DEFINE res == fed(bufs[side(up)], cells)
<1>1. /\ side(up) \in {"up", "down"} /\ side(v) \in {"up", "down"}
      /\ side(v) = side(up) <=> v = up
  BY DEF side
<1>2. Feed(bufs, up, cells) = [bufs |-> [bufs EXCEPT ![side(up)] = res.buf], out |-> res.out]
  BY DEF Feed
<1>3. bufs[side(up)] \in Seq(Cell)
  BY <1>1 DEF Bufs
<1> HIDE DEF res
<1>4. [bufs EXCEPT ![side(up)] = res.buf][side(v)] = IF v = up THEN res.buf ELSE bufs[side(v)]
  BY <1>1 DEF Bufs
<1> QED BY <1>2, <1>3, <1>4 DEF res

\* What a step leaves of the flow's framer, when a chunk of a claimed flow was framed.
ChunkFramed(h, st) ==
    LET res == Feed(st.bufs, push(h).up, push(h).cells) IN
    /\ \A up \in BOOLEAN : buffer(state(h[1]), up) = st.bufs[side(up)]
    /\ \A up \in BOOLEAN : buffer(state(h[1])', up) = res.bufs[side(up)]
    /\ handler'[h].out = frames(h, res.out)

\* A chunk of a TCP flow that was claimed.
LEMMA DecodeTcp ==
    ASSUME PushInv, NEW h \in Pushes, Decode(h), push(h).op = "binary", tcpClaims(h),
           Transport[h[1]] = "TCP"
    PROVE  \E st \in States : ChunkFramed(h, st)
<1> DEFINE f == h[1]
           st == tcpStates[f]
           res == Feed(st.bufs, push(h).up, push(h).cells)
           b == res.bufs
<1>1. /\ f \in Flows /\ push(h).up \in BOOLEAN /\ push(h).cells \in Seq(Cell) /\ handler[h] \in Call
  <2>1. CallOK(h) /\ handler[h].at = "feed" /\ handler[h] \in Call
    BY DEF PushInv, TypeInv, Decode
  <2> QED BY <2>1, PushFacts DEF CallOK, FrameSteps
<1>2. st \in States /\ tcpStates \in [Flows -> States \cup {None}] /\ st # None
  BY <1>1 DEF PushInv, TypeInv, GatewayTypes, tcpClaims
<1>3. /\ tcpStates' = [tcpStates EXCEPT ![f].bufs = b]
      /\ handler' = [handler EXCEPT ![h].at = "store", ![h].out = frames(h, res.out)]
  BY DEF Decode
<1>4. b \in Bufs
  BY <1>1, <1>2, FeedType DEF States
<1> HIDE DEF res
<1>5. handler'[h].out = frames(h, res.out)
  <2>1. handler \in [Pushes -> Call]
    BY DEF PushInv, TypeInv
  <2>2. handler'[h] = [handler[h] EXCEPT !.at = "store", !.out = frames(h, res.out)]
    BY <1>3, <2>1
  <2> QED BY <1>1, <2>2 DEF Call
<1> HIDE DEF b
<1>6. tcpStates'[f].bufs = b /\ tcpStates'[f] # None
  <2>1. tcpStates'[f] = [tcpStates[f] EXCEPT !.bufs = b]
    BY <1>1, <1>2, <1>3
  <2>2. tcpStates'[f].bufs = b /\ tcpStates'[f] \in States
    BY <1>2, <1>4, <2>1 DEF States
  <2> QED BY <2>2, NoneIsNone
<1>7. /\ \A up \in BOOLEAN : buffer(state(f), up) = st.bufs[side(up)]
      /\ \A up \in BOOLEAN : buffer(state(f)', up) = b[side(up)]
  BY <1>2, <1>6 DEF buffer, state
<1> QED BY <1>2, <1>5, <1>7 DEF ChunkFramed, b, res

\* One of a WebSocket, or of datagrams, that a decoder serves.
LEMMA DecodeWs ==
    ASSUME PushInv, NEW h \in Pushes, Decode(h), push(h).op = "binary", ~tcpClaims(h),
           Transport[h[1]] # "TCP", wsStates[h[1]] # None, h[1] \in Claimed
    PROVE  \E st \in States : ChunkFramed(h, st)
<1> DEFINE f == h[1]
           st == wsDecision(h)
           res == Feed(st.bufs, push(h).up, push(h).cells)
           b == res.bufs
           new == [st EXCEPT !.bufs = b]
<1>1. /\ f \in Flows /\ push(h).up \in BOOLEAN /\ push(h).cells \in Seq(Cell) /\ handler[h] \in Call
  <2>1. CallOK(h) /\ handler[h].at = "feed" /\ handler[h] \in Call
    BY DEF PushInv, TypeInv, Decode
  <2> QED BY <2>1, PushFacts DEF CallOK, FrameSteps
<1>2. wsStates \in [Flows -> States \cup {None}] /\ wsStates[f] \in States
  BY <1>1 DEF PushInv, TypeInv, GatewayTypes
<1>3. st \in States /\ st.dec /\ st.bufs = wsStates[f].bufs
  <2>1. PICK w : w = wsStates[f]
    OBVIOUS
  <2>2. st = [w EXCEPT !.decided = TRUE, !.dec = IF w.dec THEN TRUE ELSE f \in Claimed]
    BY <2>1 DEF wsDecision
  <2>3. (IF w.dec THEN TRUE ELSE f \in Claimed) = TRUE
    <3>1. w.dec \in BOOLEAN
      BY <1>2, <2>1 DEF States
    <3> QED BY <3>1
  <2>4. st = [w EXCEPT !.decided = TRUE, !.dec = TRUE]
    BY <2>2, <2>3
  <2> HIDE DEF st
  <2> QED BY <1>2, <2>1, <2>4 DEF States
<1>4. /\ wsStates' = [wsStates EXCEPT ![f] = new]
      /\ handler' = [handler EXCEPT ![h].at = "store", ![h].out = frames(h, res.out)]
  BY <1>3 DEF Decode
<1> HIDE DEF st
<1>5. b \in Bufs
  BY <1>1, <1>3, FeedType DEF States
<1> HIDE DEF res
<1>6. handler'[h].out = frames(h, res.out)
  <2>1. handler \in [Pushes -> Call]
    BY DEF PushInv, TypeInv
  <2>2. handler'[h] = [handler[h] EXCEPT !.at = "store", !.out = frames(h, res.out)]
    BY <1>4, <2>1
  <2> QED BY <1>1, <2>2 DEF Call
<1> HIDE DEF b
<1>7. wsStates'[f].bufs = b /\ wsStates'[f] # None
  <2>1. new \in States /\ new.bufs = b
    BY <1>3, <1>5 DEF States
  <2> HIDE DEF new
  <2>2. wsStates'[f] = new
    BY <1>1, <1>2, <1>4
  <2> QED BY <2>1, <2>2, NoneIsNone
<1>8. /\ \A up \in BOOLEAN : buffer(state(f), up) = st.bufs[side(up)]
      /\ \A up \in BOOLEAN : buffer(state(f)', up) = b[side(up)]
  BY <1>3, <1>7 DEF buffer, state
<1> QED BY <1>3, <1>6, <1>8 DEF ChunkFramed, b, res, st

\* Of the flow's chunks as they are with this one, the framer has just what it had of the
\* others and what it gave for this one.
LEMMA ChunkOn ==
    ASSUME NEW h \in Pushes, push(h).what = "frame", push(h).op = "binary",
           NEW up \in BOOLEAN, NEW s \in Seq(Cell), NEW ms \in Seq(Msgs), NEW st \in States,
           fed(<< >>, s) = [buf |-> st.bufs[side(up)], out |-> framedOf(up, ms)]
    PROVE  LET res == Feed(st.bufs, push(h).up, push(h).cells) IN
           fed(<< >>, joined(up, s, push(h)))
              = [buf |-> res.bufs[side(up)], out |-> framedOf(up, ms \o frames(h, res.out))]
<1> DEFINE p == push(h)
           res == Feed(st.bufs, p.up, p.cells)
<1>1. st.bufs \in Bufs /\ p.up \in BOOLEAN /\ p.cells \in Seq(Cell)
  BY PushFacts DEF States
<1>2. /\ st.bufs[side(p.up)] \in Seq(Cell) /\ res.out = fed(st.bufs[side(p.up)], p.cells).out
      /\ res.bufs[side(up)]
            = IF up = p.up THEN fed(st.bufs[side(p.up)], p.cells).buf ELSE st.bufs[side(up)]
  BY <1>1, FeedSides
<1>3. PICK new : new = res.out
  OBVIOUS
<1>4. new \in Seq(FramesOut)
  BY <1>1, <1>2, <1>3, FedFrames
<1>5. /\ framedOf(up, ms \o frames(h, new))
            = IF p.up = up THEN framedOf(up, ms) \o new ELSE framedOf(up, ms)
  BY <1>4, FramesRecorded, SMTT(30)
<1> DEFINE goal ==
             fed(<< >>, joined(up, s, p))
                = [buf |-> res.bufs[side(up)], out |-> framedOf(up, ms \o frames(h, res.out))]
<1>6. ASSUME up = p.up PROVE goal
  <2>1. << >> \in Seq(Cell)
    BY EmptySeq
  <2>2. fed(<< >>, s \o p.cells) = After(fed(<< >>, s).out, fed(fed(<< >>, s).buf, p.cells))
    BY <1>1, <2>1, FedOn
  <2>3. fed(<< >>, s).out = framedOf(up, ms) /\ fed(<< >>, s).buf = st.bufs[side(up)]
    OBVIOUS
  <2>4. joined(up, s, p) = s \o p.cells
    BY <1>6 DEF joined
  <2> HIDE DEF res, p
  <2>5. fed(<< >>, s \o p.cells)
          = [buf |-> fed(st.bufs[side(up)], p.cells).buf, out |-> framedOf(up, ms) \o res.out]
    BY <1>2, <1>6, <2>2, <2>3 DEF After
  <2> QED BY <1>2, <1>3, <1>5, <1>6, <2>4, <2>5
<1>7. ASSUME up # p.up PROVE goal
  <2>1. joined(up, s, p) = s
    BY <1>7 DEF joined
  <2>2. res.bufs[side(up)] = st.bufs[side(up)]
    BY <1>2, <1>7
  <2>3. framedOf(up, ms \o frames(h, new)) = framedOf(up, ms)
    BY <1>5, <1>7
  <2> HIDE DEF res, p
  <2> QED BY <1>3, <2>1, <2>2, <2>3
<1>8. goal
  <2> HIDE DEF goal
  <2> QED BY <1>6, <1>7
<1> QED BY <1>8

\* A message that is none, or that nobody frames, is kept as it came.
LEMMA DecodeText ==
    ASSUME PushInv, NEW h \in Pushes, Decode(h), push(h).op = "text"
    PROVE  /\ handler'[h].out = asIs(h) /\ UNCHANGED <<tcpStates, wsStates>>
<1>1. handler \in [Pushes -> Call]
  BY DEF PushInv, TypeInv
<1>2. /\ handler' = [handler EXCEPT ![h].at = "store", ![h].out = asIs(h)]
      /\ UNCHANGED <<tcpStates, wsStates>>
  BY DEF Decode
<1>3. handler'[h] = [handler[h] EXCEPT !.at = "store", !.out = asIs(h)]
  BY <1>1, <1>2
<1> QED BY <1>1, <1>2, <1>3 DEF Call

\* What a WebSocket's framer knows, once it has decided.
LEMMA WsDecisionType ==
    ASSUME NEW h \in Pushes, wsStates[h[1]] \in States
    PROVE  wsDecision(h) \in States
<1> DEFINE w == wsStates[h[1]]
           d == IF w.dec THEN TRUE ELSE h[1] \in Claimed
<1>1. d \in BOOLEAN
  <2>1. CASE w.dec
    BY <2>1
  <2>2. CASE ~w.dec
    BY <2>2
  <2> QED BY <2>1, <2>2
<1>2. wsDecision(h) = [w EXCEPT !.decided = TRUE, !.dec = d]
  BY DEF wsDecision
<1> HIDE DEF d
<1> QED BY <1>1, <1>2 DEF States

\* Decode is of one flow's framer.
LEMMA DecodeOne ==
    ASSUME PushInv, NEW h \in Pushes, Decode(h)
    PROVE  /\ \A e \in Flows : e # h[1] =>
                 tcpStates'[e] = tcpStates[e] /\ wsStates'[e] = wsStates[e]
           /\ wsStates[h[1]] # None => wsStates'[h[1]] # None
<1> DEFINE f == h[1]
           tcp(b) == [tcpStates EXCEPT ![f].bufs = b]
           ws(st) == [wsStates EXCEPT ![f] = st]
<1>1. /\ tcpStates \in [Flows -> States \cup {None}] /\ wsStates \in [Flows -> States \cup {None}]
      /\ tcpStates' \in [Flows -> States \cup {None}] /\ f \in Flows
      /\ wsStates' \in [Flows -> States \cup {None}]
  <2>1. TypeInv'
    BY DecodeFacts DEF PushInv
  <2> QED BY <2>1, PushFacts DEF PushInv, TypeInv, GatewayTypes
<1>2. tcpStates' = tcpStates \/ \E b : tcpStates' = tcp(b)
  BY DEF Decode
<1>3. wsStates' = wsStates \/ \E st : wsStates' = ws(st)
  BY DEF Decode
<1>4. \A e \in Flows : e # f => tcpStates'[e] = tcpStates[e] /\ wsStates'[e] = wsStates[e]
  BY <1>1, <1>2, <1>3
<1>5. wsStates[f] # None => wsStates'[f] # None
  <2> SUFFICES ASSUME wsStates[f] # None, wsStates'[f] = None PROVE FALSE
    OBVIOUS
  <2>1. wsStates[f] \in States /\ wsDecision(h) \in States
    BY <1>1, WsDecisionType
  <2> DEFINE B == Feed(wsDecision(h).bufs, push(h).up, push(h).cells).bufs
             wsb(b) == [wsDecision(h) EXCEPT !.bufs = b]
  <2>2. B \in Bufs
    <3>1. push(h).what = "frame"
      BY DEF PushInv, TypeInv, CallOK, FrameSteps, Decode
    <3>2. push(h).up \in BOOLEAN /\ push(h).cells \in Seq(Cell)
      BY <3>1, PushFacts
    <3> QED BY <2>1, <3>2, FeedType DEF States
  <2>3. wsStates' = ws(wsDecision(h)) \/ wsStates' = ws(wsb(B)) \/ wsStates' = wsStates
    BY DEF Decode
  <2> HIDE DEF B
  <2>4. wsb(B) \in States
    BY <2>1, <2>2 DEF States
  <2> HIDE DEF wsb
  <2>5. wsStates'[f] \in States
    BY <1>1, <2>1, <2>3, <2>4
  <2> QED BY <2>5, NoneIsNone
<1> QED BY <1>4, <1>5

\* A message is framed by whoever claimed its flow, in the direction it goes.
LEMMA FrameDecodes ==
    ASSUME PushInv, ClaimInv, FrameInv, NEW h \in Pushes, Decode(h)
    PROVE  FrameInv'
<1> DEFINE f == h[1]
           p == push(h)
<1>1. /\ Others(h) /\ handler[h].at = "feed" /\ handler'[h].at = "store" /\ f \in Flows
      /\ p.what = "frame" /\ p.up \in BOOLEAN /\ p.op \in {"binary", "text"}
      /\ p.cells \in Seq(Cell)
      /\ h[2] # 1 /\ UNCHANGED <<next, messages, disturbed>>
  <2>1. Others(h) /\ handler[h].at = "feed" /\ handler'[h].at = "store"
    BY DecodeFacts DEF PushInv, Stays
  <2>2. p.what = "frame"
    BY <2>1 DEF PushInv, TypeInv, CallOK, FrameSteps
  <2>3. UNCHANGED <<next, messages, disturbed>>
    BY DEF Decode, client, bundle
  <2> QED BY <2>1, <2>2, <2>3, PushFacts
<1>2. /\ \A e \in Flows : e # f => tcpStates'[e] = tcpStates[e] /\ wsStates'[e] = wsStates[e]
      /\ wsStates[f] # None => wsStates'[f] # None
      /\ tcpStates'[f] = None <=> tcpStates[f] = None
      /\ tcpStates[f] # None => tcpStates'[f].dec = tcpStates[f].dec
  BY <1>1, DecodeOne, DecodeStates
<1>3. ASSUME f \notin disturbed PROVE Follows(f)'
  <2>1. /\ h = <<f, next[f]>> /\ h[2] = next[f] /\ next[f] > 0 /\ next[f] \in 1..Len(Script[f])
        /\ p = Script[f][next[f]]
    BY <1>1, <1>3, AtHand
  <2>2. Follows(f) /\ Ready(f)
    BY <1>1, <1>3 DEF FrameInv, Follows
  <2>3. Ready(f)'
    <3>1. ASSUME NEW q \in Pushes, q[1] = f, q[2] = 1 PROVE handler'[q] = handler[q]
      BY <1>1, <3>1 DEF Others
    <3>2. next'[f] # 0
      BY <1>1, <2>1
    <3> QED BY <1>2, <2>2, <3>1, <3>2 DEF Ready
  <2>4. PICK q \in Pushes : q[1] = f /\ q[2] = 1 /\ handler[q].at = "done"
    <3>1. 1 \in 1..Len(Script[f]) /\ 1 < next[f]
      BY <1>1, <2>1
    <3>2. <<f, 1>> \in Pushes /\ <<f, 1>>[1] = f /\ <<f, 1>>[2] = 1
      BY <1>1, <3>1, AwaitedFacts
    <3>3. handler[<<f, 1>>].at = "done"
      BY <1>1, <1>3, <3>1 DEF PushInv, Awaits, Begun
    <3> QED BY <3>2, <3>3
  <2>5. ASSUME f \in Claimed, Transport[f] # "HTTP", NotRefused(f)' PROVE InStep(f)'
    <3>1. InStep(f) /\ NotRefused(f)
      BY <1>2, <2>2, <2>5 DEF Follows, NotRefused
    <3>2. /\ fedUpTo(f) = next[f] - 1 /\ told(f) = messages[f]
          /\ fedUpTo(f)' = next[f] /\ told(f)' = messages[f] \o handler'[h].out
      BY <1>1, <2>1 DEF fedUpTo, told
    <3> SUFFICES ASSUME NEW up \in BOOLEAN
                 PROVE  fed(<< >>, chunksUpTo(f, up, next[f]))
                          = [buf |-> buffer(state(f)', up),
                             out |-> framedOf(up, messages[f] \o handler'[h].out)]
      BY <3>2 DEF InStep, buffer
    <3>3. PICK s : s = chunksUpTo(f, up, next[f] - 1)
      OBVIOUS
    <3>4. chunksUpTo(f, up, next[f]) = joined(up, s, p) /\ s \in Seq(Cell)
      <4>1. next[f] - 1 \in 0..Len(Script[f])
        BY <2>1
      <4> QED BY <1>1, <2>1, <3>3, <4>1, ChunksStep, ChunksType
    <3>5. fed(<< >>, s) = [buf |-> buffer(state(f), up), out |-> framedOf(up, messages[f])]
      BY <3>1, <3>2, <3>3 DEF InStep
    <3>6. messages[f] \in Seq(Msgs)
      BY <1>1 DEF PushInv, TypeInv, BundleTypes
    <3>7. CASE p.op = "text"
      <4>1. handler'[h].out = asIs(h) /\ state(f)' = state(f)
        BY <3>7, DecodeText DEF state
      <4>2. joined(up, s, p) = s
        BY <3>7 DEF joined
      <4>3. framedOf(up, messages[f] \o asIs(h)) = framedOf(up, messages[f])
        <5>1. << >> \in Seq(FramesOut)
          BY EmptySeq
        <5> QED BY <1>1, <3>6, <5>1, FramesRecorded
      <4> QED BY <3>4, <3>5, <4>1, <4>2, <4>3
    <3>8. CASE p.op = "binary"
      <4>1. \E st \in States : ChunkFramed(h, st)
        <5>1. CASE Transport[f] = "TCP"
          <6>1. tcpStates[f] # None
            BY <2>2, <2>4, <5>1 DEF Ready
          <6>2. tcpClaims(h)
            BY <3>1, <5>1, <6>1 DEF NotRefused, tcpClaims
          <6> QED BY <3>8, <5>1, <6>2, DecodeTcp
        <5>2. CASE Transport[f] # "TCP"
          <6>1. Transport[f] \in {"WS", "UDP"}
            BY <1>1, <2>5, <5>2, PushAssumption
          <6>2. wsStates[f] # None
            BY <2>2, <2>4, <6>1 DEF Ready
          <6>3. ~tcpClaims(h)
            BY <1>1, <5>2 DEF ClaimInv, TcpDecided, tcpClaims
          <6> QED BY <2>5, <3>8, <5>2, <6>2, <6>3, DecodeWs
        <5> QED BY <5>1, <5>2
      <4>2. PICK st \in States : ChunkFramed(h, st)
        BY <4>1
      <4> DEFINE res == Feed(st.bufs, p.up, p.cells)
      <4>3. fed(<< >>, s) = [buf |-> st.bufs[side(up)], out |-> framedOf(up, messages[f])]
        BY <3>5, <4>2 DEF ChunkFramed
      <4>4. fed(<< >>, joined(up, s, p))
              = [buf |-> res.bufs[side(up)],
                 out |-> framedOf(up, messages[f] \o frames(h, res.out))]
        BY <1>1, <3>4, <3>6, <3>8, <4>3, ChunkOn
      <4>5. buffer(state(f)', up) = res.bufs[side(up)] /\ handler'[h].out = frames(h, res.out)
        BY <4>2 DEF ChunkFramed
      <4> HIDE DEF res
      <4> QED BY <3>4, <4>4, <4>5
    <3> QED BY <1>1, <3>7, <3>8
  <2>6. NotRefused(f)' \/ InStep(f)'
    BY DEF InStep
  <2> QED BY <2>3, <2>5, <2>6 DEF Follows
<1> QED BY <1>1, <1>2, <1>3, FrameStep

\* Every step keeps it.
LEMMA FrameNext == PushInv /\ ClaimInv /\ FrameInv /\ [Next]_vars => FrameInv'
<1> SUFFICES ASSUME PushInv, ClaimInv, FrameInv, [Next]_vars PROVE FrameInv'
  OBVIOUS
<1>1. ASSUME UNCHANGED <<next, handler, messages, tcpStates, wsStates, disturbed>> PROVE FrameInv'
  BY <1>1, FollowsQuiet DEF FrameInv
<1>2. ASSUME NEW f \in Flows, Send(f) \/ Returns(f) \/ TimesOut(f) \/ Lose(f) PROVE FrameInv'
  <2>1. CASE Send(f)
    BY <2>1, FrameSends
  <2>2. CASE Returns(f)
    BY <1>1, <2>2 DEF Returns, gateway, bundle
  <2>3. CASE TimesOut(f) \/ Lose(f)
    <3>1. awaited(f) \in Pushes
      BY <2>3, TimesOutFacts, LoseFacts DEF PushInv
    <3> QED BY <2>3, <3>1, FrameDisturbs
  <2> QED BY <1>2, <2>1, <2>2, <2>3
<1>3. ASSUME NEW h \in Pushes, Handle(h) \/ ReceiveFails(h) \/ StoreFails(h) PROVE FrameInv'
  <2>1. CASE ReceiveFails(h) \/ StoreFails(h)
    BY <2>1, FrameDisturbs
  <2> QED BY <1>3, <2>1, FrameReceives, FrameClaims, FrameMeta, FrameRest, FrameDecodes, FrameStores
          DEF Handle
<1>4. CASE Restart
  BY <1>4, FrameRestarts
<1>5. CASE Closing \/ UNCHANGED vars
  <2>1. UNCHANGED <<next, handler, messages, tcpStates, wsStates, disturbed>>
    BY <1>5 DEF Closing, HubStop, CountFlows, FinishSession, vars, client, gateway, bundle
  <2> QED BY <1>1, <2>1
<1> QED BY <1>2, <1>3, <1>4, <1>5 DEF Next, Hooks, Handlers

\* Nothing in hand, the framer has had every chunk, and all it gave is recorded.
LEMMA FollowsWhole == PushInv /\ ClaimInv /\ FrameInv => FramesWhole
<1> SUFFICES ASSUME PushInv, ClaimInv, FrameInv, NEW f \in Flows, f \notin disturbed,
                    decoded(f), ~waiting[f], NEW up \in BOOLEAN
             PROVE  recorded(f, up) = wholeFrames(chunksUpTo(f, up, next[f]))
  BY DEF FramesWhole
<1>1. f \in Claimed /\ Transport[f] # "HTTP" /\ NotRefused(f)
  <2>1. TcpDecided(f) /\ WsDecided(f)
    BY DEF ClaimInv
  <2>2. CASE Transport[f] = "TCP"
    BY <2>1, <2>2 DEF decoded, TcpDecided, NotRefused
  <2>3. CASE Transport[f] # "TCP"
    BY <2>1, <2>3 DEF decoded, WsDecided, NotRefused
  <2> QED BY <2>2, <2>3
<1>2. InStep(f)
  BY <1>1 DEF FrameInv, Follows
<1>3. next[f] \in 0..Len(Script[f]) /\ (next[f] > 0 => handler[<<f, next[f]>>].at = "done")
  <2>1. next[f] \in 0..Len(Script[f]) /\ \A k \in 1..Len(Script[f]) : Begun(f, k)
    BY DEF PushInv, Awaits
  <2>2. Len(Script[f]) \in Nat
    BY ScriptFacts
  <2>3. next[f] > 0 => next[f] \in 1..Len(Script[f])
    BY <2>1, <2>2
  <2> QED BY <2>1, <2>3 DEF Begun
<1>4. fedUpTo(f) = next[f] /\ told(f) = messages[f]
  BY <1>3 DEF fedUpTo, told
<1>5. PICK s : s = chunksUpTo(f, up, next[f])
  OBVIOUS
<1>6. fed(<< >>, s).out = framedOf(up, messages[f])
  <2>1. fed(<< >>, s) = [buf |-> buffer(state(f), up), out |-> framedOf(up, messages[f])]
    BY <1>1, <1>2, <1>4, <1>5 DEF InStep
  <2> QED BY <2>1
<1>7. s \in Seq(Cell) /\ FrameAfterFrame(s)
  <2>1. CASE next[f] = 0
    <3>1. s = << >>
      BY <1>5, <2>1, ChunksStep
    <3> QED BY <3>1, EmptySeq DEF FrameAfterFrame
  <2>2. CASE next[f] # 0
    <3>1. next[f] \in DOMAIN Script[f]
      BY <1>3, <2>2, ScriptFacts
    <3> QED BY <1>1, <1>3, <1>5, <3>1, ChunksType, StreamAssumption
  <2> QED BY <2>1, <2>2
<1>8. fed(<< >>, s).out = wholeFrames(s)
  BY <1>7, FedIsWhole
<1>9. recorded(f, up) = framedOf(up, messages[f])
  BY DEF recorded, framedOf
<1> QED BY <1>5, <1>6, <1>8, <1>9

\* FramesWhole: of a claimed flow whose pushes were answered, the frames of each
\* direction are recorded once each, in order and whole, however chunks cut them, whatever
\* their bodies are and whatever happened to other flows (Session.Feed keeps one buffer
\* per direction, and the source awaits each push).  For any flows, scripts, transports
\* and frames, and any number of timeouts, failures, lost pushes and restarts.
THEOREM FramesAreWhole == Spec => []FramesWhole
<1>1. Init => PushInv /\ ClaimInv /\ FrameInv
  BY PushInit, ClaimInit, FrameInit
<1>2. (PushInv /\ ClaimInv /\ FrameInv) /\ [Next]_vars => (PushInv /\ ClaimInv /\ FrameInv)'
  BY PushNext, ClaimNext, FrameNext
<1>3. PushInv /\ ClaimInv /\ FrameInv => FramesWhole
  BY FollowsWhole
<1> QED BY <1>1, <1>2, <1>3, PTL DEF Spec
=============================================================================
