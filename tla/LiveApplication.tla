--------------------------- MODULE LiveApplication ---------------------------
(* The live HTTP parsers: internal/decode livehttp.go, livehttp2.go,         *)
(* livews.go and contentencoding.go.                                         *)
(*                                                                           *)
(* The packet loop writes each direction's decrypted bytes into a byteStream *)
(* and never waits.  HTTP/1.1 has one goroutine per connection that reads a  *)
(* request, then its response; HTTP/2 has one per direction, WebSocket one   *)
(* per direction once the connection is upgraded.  They run as far behind    *)
(* the packet loop, and each other, as the scheduler lets them.  The bytes   *)
(* are units: a message head, a piece of a body, a frame.                    *)
EXTENDS Integers, Sequences, SequencesExt, FiniteSets

CONSTANTS
    Conns,       \* what the two sides of a connection say
    ReadAhead,   \* units a bufio.Reader fetches at once
    MaxDecoded,  \* maxDecodedBytes, in pieces of a body
    MaxFlows     \* exchanges on one connection

ApplicationAssumption == {ReadAhead, MaxDecoded, MaxFlows} \subseteq Nat \ {0}

Dirs == {"up", "down"}
Other(d) == IF d = "up" THEN "down" ELSE "up"
Keys == 1..MaxFlows

VARIABLES
    conn,    \* the connection
    fed,     \* units of each direction written to its byteStream
    stream,  \* byteStream: chunks not read, closed, lastTS
    ahead,   \* the bufio.Reader over each byteStream
    pc,      \* the parser goroutines
    left,    \* pieces of the body being read, and the exchange it belongs to
    flows,   \* the flows as the parsers hold them
    said,    \* the last report of each flow, and how often it was reported new
    msgs,    \* onMsg
    h2,      \* what an HTTP/2 connection remembers beside its flows
    half,    \* a custom decoder's buffered half message, by direction
    loop     \* the packet loop: reading, closed, returned; a TCP RST seen

parserVars == <<stream, ahead, pc, left, flows, said, msgs, h2, half>>
vars == <<conn, fed, loop, parserVars>>

NoFlow == [req |-> 0, reqBody |-> << >>, status |-> 0, resp |-> 0, respBody |-> << >>,
           enc |-> "none", label |-> "none", done |-> FALSE, error |-> "none", cut |-> FALSE, ws |-> FALSE,
           count |-> 0, ts |-> 0]

Parsers == {"run", "up", "down"}

Init ==
    /\ conn \in Conns
    /\ fed = [d \in Dirs |-> 0]
    /\ stream = [d \in Dirs |-> [chunks |-> << >>, closed |-> FALSE, lastTS |-> 0]]
    /\ ahead = [d \in Dirs |-> << >>]
    /\ pc = IF conn.proto = "h2" THEN [run |-> "none", up |-> "frames", down |-> "frames"]
            ELSE [run |-> "request", up |-> "none", down |-> "none"]
    /\ left = [n |-> 0, key |-> 0]
    /\ flows = [k \in Keys |-> NoFlow]
    /\ said = [k \in Keys |-> [flow |-> NoFlow, added |-> 0]]
    /\ msgs = << >>
    /\ h2 = [rst |-> {}, goaway |-> 0]
    /\ half = [d \in Dirs |-> FALSE]
    /\ loop = [phase |-> "reading", reset |-> FALSE]

Known(k) == said[k].added > 0

-----------------------------------------------------------------------------
(* The packet loop and the byteStreams.                                    *)

\* WriteTS: never blocks.  A side answers only what it has received.
WriteTS(d) ==
    /\ loop.phase = "reading"
    /\ fed[d] < Len(conn[d])
    /\ LET u == conn[d][fed[d] + 1]
       IN /\ u.after <= fed[Other(d)]
          /\ stream' = [stream EXCEPT ![d].chunks =
                          Append(@, [u |-> u, ts |-> fed["up"] + fed["down"] + 1])]
    /\ fed' = [fed EXCEPT ![d] = @ + 1]
    /\ UNCHANGED <<conn, loop, ahead, pc, left, flows, said, msgs, h2, half>>

\* A TCP RST: the capture's last word on the connection.
Reset ==
    /\ loop.phase = "reading"
    /\ ~loop.reset
    /\ loop' = [loop EXCEPT !.reset = TRUE]
    /\ UNCHANGED <<conn, fed, parserVars>>

CloseStream(d) == [stream[d] EXCEPT !.closed = TRUE]

\* close, at ReassemblyComplete: both byteStreams, and every reader is woken.
Close ==
    /\ loop.phase = "reading"
    /\ stream' = [d \in Dirs |-> CloseStream(d)]
    /\ loop' = [loop EXCEPT !.phase = "closed"]
    /\ UNCHANGED <<conn, fed, ahead, pc, left, flows, said, msgs, h2, half>>

AllDone == \A p \in Parsers : pc[p] \in {"none", "done"}

\* LiveDecode returns behind wg.Wait: every parser has drained.
Return ==
    /\ loop.phase = "closed"
    /\ AllDone
    /\ loop' = [loop EXCEPT !.phase = "returned"]
    /\ UNCHANGED <<conn, fed, parserVars>>

\* The chunk that was read is not taken off.
FillAgain(d) ==
    /\ ahead[d] = << >> /\ stream[d].chunks # << >>
    /\ d = "up" /\ pc.run \in {"request", "request body"}
    /\ ahead' = [ahead EXCEPT ![d] = SubSeq(stream[d].chunks, 1, 1)]
    /\ UNCHANGED <<conn, fed, loop, stream, pc, left, flows, said, msgs, h2, half>>

\* byteStream.Read under a bufio.Reader: what is there, up to the buffer's size; lastTS
\* is the time of the last byte handed over.
Fill(d) ==
    /\ ahead[d] = << >>
    /\ stream[d].chunks # << >>
    /\ \/ pc.run = IF d = "up" THEN "request" ELSE "response"
       \/ pc.run = (IF d = "up" THEN "request body" ELSE "response body") /\ left.n > 0
       \/ pc.run = "done" /\ pc[d] = "ws"
    /\ LET n == IF Len(stream[d].chunks) < ReadAhead THEN Len(stream[d].chunks) ELSE ReadAhead
       IN /\ ahead' = [ahead EXCEPT ![d] = SubSeq(stream[d].chunks, 1, n)]
          /\ stream' = [stream EXCEPT ![d].chunks = SubSeq(@, n + 1, Len(@)),
                                      ![d].lastTS = stream[d].chunks[n].ts]
    /\ UNCHANGED <<conn, fed, loop, pc, left, flows, said, msgs, h2, half>>

Ended(d) == ahead[d] = << >> /\ stream[d].chunks = << >> /\ stream[d].closed
Next1(d) == Head(ahead[d]).u
Took(d) == ahead' = [ahead EXCEPT ![d] = Tail(@)]

\* onFlow: new the first time, an update after that; the sink copies the flow.
Report(k, f) ==
    /\ flows' = [flows EXCEPT ![k] = f]
    /\ said' = [said EXCEPT ![k] = [flow |-> f, added |-> IF @.added = 0 THEN 1 ELSE @.added]]

ReportNew(k, f) ==
    /\ flows' = [flows EXCEPT ![k] = f]
    /\ said' = [said EXCEPT ![k] = [flow |-> f, added |-> @.added + 1]]

-----------------------------------------------------------------------------
(* Bodies.                                                                 *)

\* readAllCapped: what decodes, up to the cap.
Capped(body) == IF Len(body) > MaxDecoded THEN SubSeq(body, 1, MaxDecoded) ELSE body

\* decodeBody, noteBodyCut: a body in its wire encoding becomes plain, a cut one says so;
\* an encoding that cannot be undone leaves the bytes, under their label.
decodeBody(f) ==
    IF f.enc # "gzip" \/ f.respBody = << >> \/ Head(f.respBody).form # "wire" THEN f
    ELSE [f EXCEPT !.respBody = Capped([i \in DOMAIN @ |-> [@[i] EXCEPT !.form = "plain"]]),
                   !.cut = @ \/ Len(f.respBody) > MaxDecoded]

\* A piece of a response as it was sent.
Piece(u) == [id |-> u.id, form |-> IF u.coded THEN "wire" ELSE "plain"]

-----------------------------------------------------------------------------
(* HTTP/1.1: one goroutine, request and response in lockstep.              *)

Run(from, to) == pc.run = from /\ pc' = [pc EXCEPT !.run = to]
Free == CHOOSE k \in Keys : ~Known(k) /\ \A j \in Keys : j < k => Known(j)
Mine == left.key
H1Same == UNCHANGED <<conn, fed, loop, h2, half>>

\* ReadRequest: a request head; anything else, or the end, and the parser is done.
ReadRequest ==
    /\ pc.run = "request"
    /\ \/ /\ ahead["up"] # << >> /\ Next1("up").k = "req"
          /\ Run("request", "request body")
          /\ left' = [n |-> Next1("up").n, key |-> Free]
          /\ flows' = [flows EXCEPT ![Free] = [NoFlow EXCEPT !.req = Next1("up").id]]
          /\ Took("up")
          /\ UNCHANGED <<stream, said, msgs>>
       \/ /\ Ended("up") \/ (ahead["up"] # << >> /\ Next1("up").k # "req")
          /\ Run("request", "done")
          /\ UNCHANGED <<stream, ahead, left, flows, said, msgs>>
    /\ H1Same

\* readBody, then onFlow(new): what there is of the body, timed by the last byte read.
ReadRequestBody ==
    /\ pc.run = "request body"
    /\ \/ /\ left.n > 0 /\ ahead["up"] # << >>
          /\ flows' = [flows EXCEPT ![Mine].reqBody = Append(@, Next1("up").id)]
          /\ left' = [left EXCEPT !.n = @ - 1]
          /\ Took("up")
          /\ UNCHANGED <<pc, said>>
       \/ /\ left.n = 0 \/ Ended("up")
          /\ ReportNew(Mine, [flows[Mine] EXCEPT !.ts = stream["up"].lastTS])
          /\ Run("request body", "response")
          /\ UNCHANGED <<left, ahead>>
    /\ UNCHANGED <<stream, msgs>>
    /\ H1Same

\* ReadResponse: its head, and whether the connection is WebSocket from here on; with
\* no response the exchange is over, and so is the connection.
ReadResponse ==
    /\ pc.run = "response"
    /\ \/ /\ ahead["down"] # << >> /\ Next1("down").k = "resp"
          /\ LET u == Next1("down")
                 f == [flows[Mine] EXCEPT !.status = u.status, !.resp = u.id, !.enc = u.enc,
                                          !.ws = u.status = 101]
             IN IF u.status = 101
                THEN /\ Report(Mine, f)
                     /\ pc' = [run |-> "done", up |-> "ws", down |-> "ws"]
                     /\ UNCHANGED left
                ELSE /\ flows' = [flows EXCEPT ![Mine] = f]
                     /\ left' = [left EXCEPT !.n = u.n]
                     /\ Run("response", "response body")
                     /\ UNCHANGED said
          /\ Took("down")
       \/ /\ Ended("down") \/ (ahead["down"] # << >> /\ Next1("down").k # "resp")
          /\ Report(Mine, [flows[Mine] EXCEPT !.done = TRUE,
                                              !.error = IF loop.reset THEN "reset" ELSE @])
          /\ Run("response", "done")
          /\ UNCHANGED <<left, ahead>>
    /\ UNCHANGED <<stream, msgs>>
    /\ H1Same

\* readRespBody over wireBody: the body as the framing delivers it; one the
\* connection's end cut short says so, and by what.
ReadResponseBody ==
    /\ pc.run = "response body"
    /\ \/ /\ left.n > 0 /\ ahead["down"] # << >>
          /\ flows' = [flows EXCEPT ![Mine].respBody = Append(@, Piece(Next1("down")))]
          /\ left' = [left EXCEPT !.n = @ - 1]
          /\ Took("down")
          /\ UNCHANGED <<pc, said>>
       \/ /\ left.n = 0 \/ Ended("down")
          /\ Report(Mine, [decodeBody(flows[Mine]) EXCEPT
                              !.done = TRUE,
                              !.label = IF flows[Mine].respBody = << >> THEN "none" ELSE flows[Mine].enc,
                              !.error = IF left.n = 0 THEN @ ELSE IF loop.reset THEN "reset" ELSE "closed"])
          /\ Run("response body", "request")
          /\ UNCHANGED <<left, ahead>>
    /\ UNCHANGED <<stream, msgs>>
    /\ H1Same

-----------------------------------------------------------------------------
(* WebSocket: a goroutine per direction, the flow between them.            *)

Message(d, id) == [dir |-> d, id |-> id]

\* readWSFrames and emit, under wsMu: a row per frame; a custom decoder makes one of two
\* binary halves.
ReadFrame(d) ==
    /\ pc[d] = "ws"
    /\ \/ /\ ahead[d] # << >>
          /\ LET u == Next1(d)
                 whole == u.k # "half" \/ half[d]
             IN /\ msgs' = IF whole THEN Append(msgs, Message(d, u.id)) ELSE msgs
                /\ half' = IF u.k = "half" THEN [half EXCEPT ![d] = ~@] ELSE half
                /\ Report(Mine, [flows[Mine] EXCEPT !.count = IF whole THEN @ + 1 ELSE @])
          /\ Took(d)
          /\ UNCHANGED pc
       \/ /\ Ended(d)
          /\ pc' = [pc EXCEPT ![d] = "done"]
          /\ UNCHANGED <<ahead, flows, said, msgs, half>>
    /\ UNCHANGED <<conn, fed, loop, stream, left, h2>>

-----------------------------------------------------------------------------
(* HTTP/2: a goroutine per direction, the streams' flows under one lock.   *)

Open(k) == flows[k] # NoFlow

\* emitLocked: a stream failure that came before its flow is applied when the flow is
\* next touched.  m is what the connection remembers.
emitted(m, k, f) ==
    IF f.status # 0 \/ f.error # "none" THEN f
    ELSE IF k \in m.rst THEN [f EXCEPT !.error = "rst"]
    ELSE IF m.goaway # 0 /\ k >= m.goaway THEN [f EXCEPT !.error = "goaway"]
    ELSE f

\* endLocked: the body it has is all it will get.
ended(m, k, f) == emitted(m, k, [decodeBody(f) EXCEPT !.done = TRUE, !.enc = "none"])

\* A frame that reports nothing yet.
Hold(k, f) == flows' = [flows EXCEPT ![k] = f] /\ UNCHANGED said

ReportAll(new) ==
    /\ flows' = new
    /\ said' = [k \in Keys |-> IF new[k] = flows[k] THEN said[k]
                               ELSE [flow |-> new[k], added |-> IF Known(k) THEN said[k].added ELSE 1]]

\* A header field that is there replaces what is known.
Named(new, absent, old) == IF new = absent THEN old ELSE new

\* onHeaders: the request's, or the response's, which may be all there is of it.
onHeaders(d, u) ==
    LET f == flows[u.sid]
    IN /\ IF d = "up" THEN Report(u.sid, emitted(h2, u.sid, [f EXCEPT !.req = u.id]))
          ELSE LET r == [f EXCEPT !.status = Named(u.status, 0, @), !.resp = Named(u.id, 0, @),
                                  !.enc = Named(u.enc, "none", @)]
               IN Report(u.sid, IF u.end THEN ended(h2, u.sid, r) ELSE emitted(h2, u.sid, r))
       /\ UNCHANGED h2

\* onData: reported only at the end of the stream.
onData(d, u) ==
    LET f == flows[u.sid]
        r == IF d = "up" THEN [f EXCEPT !.reqBody = Append(@, u.id)]
             ELSE [f EXCEPT !.respBody = Append(@, Piece(u)), !.label = f.enc]
    IN /\ IF ~u.end THEN Hold(u.sid, r)
          ELSE Report(u.sid, IF d = "down" THEN ended(h2, u.sid, r) ELSE emitted(h2, u.sid, r))
       /\ UNCHANGED h2

\* onRSTStream: kept for a flow yet to come; one that is there ends with it, and says
\* so when its response was cut.
onRSTStream(u) ==
    LET m == IF u.clean THEN h2 ELSE [h2 EXCEPT !.rst = @ \cup {u.sid}]
        f == flows[u.sid]
        cut == ~u.clean /\ f.status # 0 /\ ~f.done /\ f.error = "none"
    IN /\ h2' = m
       /\ IF Open(u.sid)
          THEN Report(u.sid, ended(m, u.sid, IF cut THEN [f EXCEPT !.error = "rst, cut"] ELSE f))
          ELSE UNCHANGED <<flows, said>>

\* onGoAway: the streams past the last one taken were never processed.
onGoAway(u) ==
    LET m == [h2 EXCEPT !.goaway = u.sid]
    IN /\ h2' = m
       /\ ReportAll([k \in Keys |-> IF Open(k) /\ flows[k].status = 0 THEN emitted(m, k, flows[k]) ELSE flows[k]])

\* read: one frame at a time, straight from the byteStream.
ReadH2(d) ==
    /\ pc[d] = "frames"
    /\ stream[d].chunks # << >>
    /\ LET u == Head(stream[d].chunks).u
       IN CASE u.k = "headers" -> onHeaders(d, u)
            [] u.k = "data"    -> onData(d, u)
            [] u.k = "rst"     -> onRSTStream(u)
            [] u.k = "goaway"  -> onGoAway(u)
            [] OTHER           -> UNCHANGED <<flows, said, h2>>
    /\ stream' = [stream EXCEPT ![d].chunks = Tail(@), ![d].lastTS = Head(stream[d].chunks).ts]
    /\ UNCHANGED <<conn, fed, loop, ahead, pc, left, msgs, half>>

\* The end of a direction; of the server's, serverEnded: every open stream has what it
\* will get.
EndH2(d) ==
    /\ pc[d] = "frames"
    /\ stream[d].chunks = << >> /\ stream[d].closed
    /\ pc' = [pc EXCEPT ![d] = "done"]
    /\ IF d = "down"
       THEN ReportAll([k \in Keys |-> IF Open(k) /\ ~flows[k].done THEN ended(h2, k, flows[k]) ELSE flows[k]])
       ELSE UNCHANGED <<flows, said>>
    /\ UNCHANGED <<conn, fed, loop, stream, ahead, left, msgs, h2, half>>

Parse ==
    \/ \E d \in Dirs : Fill(d) \/ ReadFrame(d) \/ ReadH2(d) \/ EndH2(d)
    \/ ReadRequest \/ ReadRequestBody \/ ReadResponse \/ ReadResponseBody

Next == (\E d \in Dirs : WriteTS(d)) \/ Reset \/ Close \/ Return \/ Parse

Spec == Init /\ [][Next]_vars

\* The parsers run, and the capture ends.
FairSpec == Spec /\ WF_vars(Parse) /\ WF_vars(Close) /\ WF_vars(Return)

-----------------------------------------------------------------------------
(* Properties.                                                             *)

TypeOK ==
    /\ fed \in [Dirs -> Nat]
    /\ pc.run \in {"none", "request", "request body", "response", "response body", "done"}
    /\ \A d \in Dirs : /\ pc[d] \in {"none", "ws", "frames", "done"}
                      /\ Len(ahead[d]) <= ReadAhead
                      /\ stream[d].closed = (loop.phase # "reading")
                      /\ Len(stream[d].chunks) + Len(ahead[d]) <= fed[d]
    /\ \A k \in Keys : Len(flows[k].respBody) > MaxDecoded => ~flows[k].done \/ flows[k].enc # "gzip"
    /\ h2.rst \subseteq Keys
    /\ loop \in [phase : {"reading", "closed", "returned"}, reset : BOOLEAN]

Ids(body) == [i \in DOMAIN body |-> body[i].id]

\* What a side has sent of exchange k's body.
Sent(d, k) == Ids(SelectSeq(SubSeq(conn[d], 1, fed[d]), LAMBDA u : u.sid = k /\ u.k \in {"part", "data"}))
Saw(d, k, kinds) == \E i \in 1..fed[d] : conn[d][i].sid = k /\ conn[d][i].k \in kinds
HeadSent(d, k) == Saw(d, k, {"req", "resp", "headers"})
EndSent(d, k) == \E i \in 1..fed[d] : conn[d][i].sid = k /\ conn[d][i].end

\* What the capture may hold that the parsers do not undo.  HTTP/1.1 takes an interim
\* response (103) for the answer, so the answers after it are one request behind.
Announced == \E i \in 1..fed["down"] : conn.down[i].k = "resp" /\ conn.down[i].status \in 100..199 \ {101}

\* The client's RST_STREAM is read by the goroutine of its own direction, and ends a flow
\* whose answer the other one has yet to read.
Cancelled(k) == Saw("up", k, {"rst"})

\* In HTTP/2 the bytes of an upload are reported when the upload or the answer ends.
Uploaded(k) == conn.proto = "h1" \/ EndSent("up", k)

\* However the parsers interleave, a flow is one exchange: its request and its response
\* belong together, and its bodies are what was sent in it, in order, nothing twice.
OneExchange ==
    \A k \in Keys :
       /\ flows[k].req \in {0, k}
       /\ IsPrefix(flows[k].reqBody, Sent("up", k))
       /\ \/ Announced
          \/ flows[k].resp \in {0, k} /\ IsPrefix(Ids(flows[k].respBody), Sent("down", k))

Returned == loop.phase = "returned"

\* The answer of exchange k as its last report has it: whole, or marked as cut at the
\* cap, and plain unless its encoding is one that is left alone, which the flow names.
AnswerReported(k) ==
    LET f == said[k].flow
    IN /\ HeadSent("down", k) => f.resp = k /\ (f.done \/ f.ws)
       /\ f.cut \/ Ids(f.respBody) = Sent("down", k)
       /\ \A i \in DOMAIN f.respBody : f.respBody[i].form = "plain" \/ f.label \notin {"none", "gzip"}

\* Once the parsers have returned, every request that was captured is a flow that has
\* been reported, new exactly once, with all there is to know of it; of an upload cut
\* short and of an answer the client cancelled, at least what was reported is theirs.
EverythingReported ==
    Returned => \A k \in Keys : HeadSent("up", k) =>
       LET f == said[k].flow
       IN /\ f.req = k /\ said[k].added = 1
          /\ IF Uploaded(k) THEN f.reqBody = Sent("up", k) ELSE IsPrefix(f.reqBody, Sent("up", k))
          /\ IF Cancelled(k) THEN f.done ELSE Announced \/ AnswerReported(k)
          /\ Uploaded(k) /\ ~Cancelled(k) => f = flows[k]

\* The units of a side that end exchange k for a reason of their own.
Failed(k) ==
    \/ Saw("down", k, {"rst"})
    \/ \E i \in 1..fed["down"] : conn.down[i].k = "goaway" /\ k >= conn.down[i].sid /\ ~HeadSent("down", k)
    \/ /\ conn.proto = "h1" /\ HeadSent("down", k) /\ ~flows[k].ws /\ ~Announced
       /\ \E i \in 1..fed["down"] : /\ conn.down[i].sid = k /\ conn.down[i].k = "resp"
                                   /\ conn.down[i].n > Len(Sent("down", k))

\* An exchange that the server reset or never took, or whose body the end of an HTTP/1.1
\* connection cut short, says so and does not read as a whole one; in HTTP/2 whichever
\* goroutine got there first.
FailureExplained ==
    Returned => \A k \in Keys : HeadSent("up", k) /\ Failed(k) => said[k].flow.error # "none"

\* Each direction's frames come out once, in order, two halves of one message as one
\* row, and the flow counts the rows of both directions.
FramesCounted ==
    /\ \A d \in Dirs :
         LET frames == SelectSeq(conn[d], LAMBDA u : u.k \in {"frame", "half"})
             mine == Ids(SelectSeq(msgs, LAMBDA m : m.dir = d))
         IN \/ mine = << >>
            \/ /\ mine[1] = frames[1].id
               /\ \A i \in 1..Len(mine) - 1 : mine[i] < mine[i + 1]
               /\ \A i \in DOMAIN mine : mine[i] # 3
    /\ msgs # << >> => said[Mine].flow.count = Len(msgs) /\ said[Mine].flow.ws
    /\ Returned /\ flows[1].ws =>
         \A d \in Dirs : Len(SelectSeq(msgs, LAMBDA m : m.dir = d)) =
                           Cardinality({i \in 1..fed[d] : conn[d][i].k = "frame"})
                             + Cardinality({i \in 1..fed[d] : conn[d][i].k = "half"}) \div 2

\* What the parsers owe of an exchange, whoever runs ahead: the four above, on
\* well-formed state.
ExchangesWhole ==
    TypeOK /\ OneExchange /\ EverythingReported /\ FailureExplained /\ FramesCounted

\* After BodyDone a flow stays done and loses nothing: its request goes on growing when
\* the upload outlasts the answer, its answer when the client had cancelled it, and
\* nothing else changes.  In HTTP/1.1 the report of done is the last one.
DoneOnlyGrows ==
    [][\A k \in Keys : said[k].flow.done =>
          LET was == said[k].flow
              is == said'[k].flow
          IN /\ is.done
             /\ IsPrefix(was.reqBody, is.reqBody)
             /\ IsPrefix(Ids(was.respBody), Ids(is.respBody))
             /\ \/ Cancelled(k)'
                \/ is.respBody = was.respBody /\ is.label = was.label
             /\ conn.proto = "h1" => is = was]_vars

\* The parsers drain and end once the capture has: LiveDecode returns.
ParsersReturn == (loop.phase = "closed") ~> Returned

-----------------------------------------------------------------------------
(* Observed: decode.go says more than the parsers keep.  Scenes in            *)
(* MCLiveApplication that break each are named.                              *)

\* decode.go, BodyDone: the decoder will not change this flow's bodies again (Upload,
\* Cancelled).
DoneIsFinal ==
    [][\A k \in Keys : said[k].flow.done =>
          /\ said'[k].flow.reqBody = said[k].flow.reqBody
          /\ said'[k].flow.respBody = said[k].flow.respBody]_vars

\* A flow's response is the answer to its request (Interim).
AlwaysPaired == \A k \in Keys : flows[k].resp \in {0, k}

\* An answer the client cancelled half way says so (Cancelled: serverEnded got there first).
CancelExplained ==
    Returned => \A k \in Keys : HeadSent("up", k) /\ Cancelled(k) /\ ~EndSent("down", k) => said[k].flow.error # "none"

\* Nothing a parser holds is left out of the last report (Upload, Cancelled).
AllHeldIsSaid == Returned => \A k \in Keys : HeadSent("up", k) => said[k].flow = flows[k]

-----------------------------------------------------------------------------
(* A connection whose decode has returned: nothing here moves any more.    *)
AtRest ==
    /\ conn = [proto |-> "h1", up |-> << >>, down |-> << >>]
    /\ fed = [d \in Dirs |-> 0]
    /\ stream = [d \in Dirs |-> [chunks |-> << >>, closed |-> TRUE, lastTS |-> 0]]
    /\ ahead = [d \in Dirs |-> << >>]
    /\ pc = [run |-> "done", up |-> "none", down |-> "none"]
    /\ left = [n |-> 0, key |-> 0]
    /\ flows = [k \in Keys |-> NoFlow]
    /\ said = [k \in Keys |-> [flow |-> NoFlow, added |-> 0]]
    /\ msgs = << >>
    /\ h2 = [rst |-> {}, goaway |-> 0]
    /\ half = [d \in Dirs |-> FALSE]
    /\ loop = [phase |-> "returned", reset |-> FALSE]
=============================================================================
