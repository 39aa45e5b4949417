------------------------------ MODULE LiveFlush ------------------------------
(***************************************************************************)
(* One live-decoded session of the gateway: the decoder callbacks that     *)
(* fill liveSession (gateway/internal/server/live.go), the flusher that    *)
(* moves flows and frames to the session bundle while the capture runs     *)
(* (flush.go), hub.stop and the final flush of persistLive (ingest.go),    *)
(* and the two bundle tables they write (store.InsertFlowWrites and        *)
(* store.InsertMessages).                                                  *)
(*                                                                         *)
(* Data abstraction.  A decoder appends to a flow's two bodies or decodes  *)
(* one in place, so the snapshots of a flow form a chain, and `body'       *)
(* numbers the successive states of the two: both are nil iff it is 0, and *)
(* either length changed iff it changed (a body that decodes to as many    *)
(* bytes as it had on the wire is left out).  A blob is content-addressed, *)
(* so a ref is modelled by the same number; 0 is NULL.                     *)
(* `ver' counts the decoder's reports of a flow and stands for the scalar  *)
(* columns; ver = 0 means the map has no entry.                            *)
(***************************************************************************)
EXTENDS Naturals, Sequences, FiniteSets

CONSTANTS
    Flows,        \* flow ids the decoder may report
    MaxReports,   \* bound: reports per flow
    MaxBody,      \* bound: body bytes per flow
    MaxFrames,    \* bound: WebSocket frames per flow
    WriteFailures \* may the store refuse a write?

ASSUME BoundsAssumption ==
    /\ MaxReports \in Nat \ {0}
    /\ MaxBody \in Nat \ {0}
    /\ MaxFrames \in Nat

ASSUME SwitchAssumption == WriteFailures \in BOOLEAN

VARIABLES
    dec,       \* [Flows -> Snap] the decoder's own Flow, as last reported
    decode,    \* the decode goroutine: "running", "drained" or "panicked"
    handing,   \* flows inside onFlow, between its two critical sections
    dflows,    \* [Flows -> Snap] ls.dflows, the retained snapshots
    flows,     \* [Flows -> Nat] ls.flows, the published version (0: none)
    messages,  \* ls.messages, frames not yet trimmed by the flusher
    frames,    \* [Flows -> Nat] frames decoded so far
    promised,  \* [Flows -> Nat] history: the body reported first as done, till then the last
    dirty,     \* ls.dirty
    pending,   \* ls.pending
    stored,    \* keys of ls.stored
    quoted,    \* [Flows -> Nat] the ref and length kept in ls.stored[id]
    flushErr,  \* ls.flushErr # nil
    fpc,       \* where the flush in progress is
    final,     \* the flush in progress is the one at close
    flushing,  \* flush's local: the dirty set it took
    writes,    \* flush's local: [Flows -> Write]
    nmsgs,     \* flush's local: frames in this batch
    loop,      \* the flush loop: "running", "failing" or "exited"
    life,      \* the session, from hub.start to the end of persistLive
    row,       \* [Flows -> [ver, body]] table flows of the bundle
    saved      \* table messages of the bundle, a set of frames

decoderVars == <<dec, decode, handing, frames, promised>>
hubVars == <<dflows, flows, messages, dirty>>
bookVars == <<pending, stored, quoted, flushErr>>
batchVars == <<fpc, final, flushing, writes, nmsgs>>
bundleVars == <<row, saved>>
vars == <<decoderVars, hubVars, bookVars, batchVars, loop, life, bundleVars>>

Snap == [ver : 0..MaxReports, body : 0..MaxBody, done : BOOLEAN, ws : BOOLEAN]
NoSnap == [ver |-> 0, body |-> 0, done |-> FALSE, ws |-> FALSE]

Dispositions == {"none", "pending", "stored", "final"}
Write == [bodies : Dispositions, snap : Snap, ref : 0..MaxBody]
NoWrite == [bodies |-> "none", snap |-> NoSnap, ref |-> 0]

Frame == Flows \X (1..MaxFrames)

(* The types of the session's state; a map keeps its domain for ever.      *)
TypeOK ==
    /\ dec \in [Flows -> Snap]
    /\ decode \in {"running", "drained", "panicked"}
    /\ handing \subseteq Flows
    /\ dflows \in [Flows -> Snap]
    /\ flows \in [Flows -> 0..MaxReports]
    /\ messages \in Seq(Frame)
    /\ frames \in [Flows -> 0..MaxFrames]
    /\ promised \in [Flows -> 0..MaxBody]
    /\ dirty \subseteq Flows
    /\ pending \subseteq Flows
    /\ stored \subseteq Flows
    /\ quoted \in [Flows -> 0..MaxBody]
    /\ flushErr \in BOOLEAN
    /\ fpc \in {"idle", "flows", "frames", "commit"}
    /\ final \in BOOLEAN
    /\ flushing \subseteq Flows
    /\ writes \in [Flows -> Write]
    /\ nmsgs \in 0..Len(messages)
    /\ loop \in {"running", "failing", "exited"}
    /\ life \in {"live", "stopping", "closed", "recorded", "unrecorded"}
    /\ row \in [Flows -> [ver : 0..MaxReports, body : 0..MaxBody]]
    /\ saved \subseteq Frame

Init ==
    /\ dec = [f \in Flows |-> NoSnap]
    /\ decode = "running"
    /\ handing = {}
    /\ dflows = [f \in Flows |-> NoSnap]
    /\ flows = [f \in Flows |-> 0]
    /\ messages = << >>
    /\ frames = [f \in Flows |-> 0]
    /\ promised = [f \in Flows |-> 0]
    /\ dirty = {}
    /\ pending = {}
    /\ stored = {}
    /\ quoted = [f \in Flows |-> 0]
    /\ flushErr = FALSE
    /\ fpc = "idle"
    /\ final = FALSE
    /\ flushing = {}
    /\ writes = [f \in Flows |-> NoWrite]
    /\ nmsgs = 0
    /\ loop = "running"
    /\ life = "live"
    /\ row = [f \in Flows |-> [ver |-> 0, body |-> 0]]
    /\ saved = {}

-----------------------------------------------------------------------------
(* The decoder.                                                            *)

\* Mutant: a quiet flow is taken for a finished one, whatever BodyDone says.
bodiesQuiet(s) == ~s.ws

\* bodiesSettled: the decoder is done with the bodies, and no frames follow.
bodiesSettled(s) == ~s.ws /\ s.done

\* ls.closed: publish and publishMessage return early once it is set.
closed == life \in {"closed", "recorded", "unrecorded"}

\* What the decoder's Flow may look like at its next report.  done stands for
\* BodyDone or a failed flow.  "It will not change this flow's bodies again" is
\* not what the decoders do: an upload outlasts its answer, a stream the client
\* cancelled goes on (livehttp2.go:225, 373; livequic.go:184, 392).
NextSnaps(s) ==
    {t \in Snap :
        /\ t.ver = s.ver + 1
        /\ t.body >= s.body
        /\ s.done => t.done
        /\ s.ws => t.ws}

\* Mutant: only an update marks the flow, not its first report.
markUpdated(f) == IF flows[f] = 0 THEN dirty ELSE dirty \cup {f}

\* markDirtyLocked.  Its nudge of the loop at flushMaxDirty only makes a flush
\* start earlier than the ticker would; FlushBegin may start at any time.
markDirty(f) == dirty \cup {f}

\* onFlow, first critical section: retain a snapshot of the decoder's Flow.
OnFlow(f) ==
    /\ decode # "drained"
    /\ f \notin handing
    /\ \E s \in NextSnaps(dec[f]) :
        /\ dec' = [dec EXCEPT ![f] = s]
        /\ dflows' = [dflows EXCEPT ![f] = s]
        /\ promised' = IF dec[f].done THEN promised ELSE [promised EXCEPT ![f] = s.body]
    /\ handing' = handing \cup {f}
    /\ UNCHANGED <<decode, frames, flows, messages, dirty, bookVars, batchVars,
                   loop, life, bundleVars>>

\* onFlow, second critical section: publish the proto and mark the flow dirty,
\* unless the session was closed in between.
Publish(f) ==
    /\ f \in handing
    /\ handing' = handing \ {f}
    /\ IF closed
          THEN UNCHANGED <<flows, dirty>>
          ELSE /\ flows' = [flows EXCEPT ![f] = dec[f].ver]
               /\ dirty' = markDirty(f)
    /\ UNCHANGED <<dec, decode, frames, promised, dflows, messages, bookVars, batchVars,
                   loop, life, bundleVars>>

\* publishMessage: append the frame; the parent flow, if published, is dirty.
\* frames counts what was accepted, which a closed session does not.
PublishMessage(f) ==
    /\ decode # "drained"
    /\ frames[f] < MaxFrames
    /\ ~closed
    /\ frames' = [frames EXCEPT ![f] = @ + 1]
    /\ messages' = Append(messages, <<f, frames[f] + 1>>)
    /\ dirty' = IF flows[f] > 0 THEN markDirty(f) ELSE dirty
    /\ UNCHANGED <<dec, decode, handing, promised, dflows, flows, bookVars, batchVars,
                   loop, life, bundleVars>>

\* LiveDecode returns once the pipe is at EOF and every parser has drained.
DecodeDrained ==
    /\ decode = "running"
    /\ life = "stopping"
    /\ handing = {}
    /\ decode' = "drained"
    /\ UNCHANGED <<dec, handing, frames, promised, hubVars, bookVars, batchVars,
                   loop, life, bundleVars>>

\* The packet loop panics and is recovered: done closes at once, and the
\* parser goroutines it would have waited for may still report.
DecodePanicked ==
    /\ decode = "running"
    /\ decode' = "panicked"
    /\ UNCHANGED <<dec, handing, frames, promised, hubVars, bookVars, batchVars,
                   loop, life, bundleVars>>

-----------------------------------------------------------------------------
(* The flush: one batch, in three phases.                                  *)

changedSince(f) == dflows[f].body # 0 /\ dflows[f].body # quoted[f]

\* Mutant: refs are never quoted back, so a released flow is written as pending.
DirtyUnquoted(f, fin) == IF fin THEN "final" ELSE "pending"

\* The body disposition phase 1 chooses for a flow of the dirty set.
DirtyDisposition(f, fin) ==
    IF f \in stored /\ ~changedSince(f) THEN "stored"
    ELSE IF fin \/ (f \in stored /\ bodiesSettled(dflows[f])) THEN "final"
    ELSE "pending"

\* The writes of phase 1: the dirty flows, then the pending ones that settled.
\* A dirty flow always has a snapshot: onFlow stores it before it publishes.
BatchWrite(f, fin) ==
    IF f \in dirty
       THEN [bodies |-> DirtyDisposition(f, fin), snap |-> dflows[f], ref |-> quoted[f]]
    ELSE IF f \in pending /\ (fin \/ bodiesSettled(dflows[f]))
       THEN [bodies |-> "final", snap |-> dflows[f], ref |-> 0]
    ELSE NoWrite

\* The phase after phase 1: an empty part of the batch is not written at all.
AfterBatch(ws, n) ==
    IF \E f \in Flows : ws[f].bodies # "none" THEN "flows"
    ELSE IF n > 0 THEN "frames" ELSE "commit"

\* flush, phase 1 (under mu): take the dirty set, choose the writes.
TakeBatch(fin) ==
    LET ws == [f \in Flows |-> BatchWrite(f, fin)] IN
    /\ flushing' = dirty
    /\ dirty' = {}
    /\ writes' = ws
    /\ stored' = stored \ {f \in dirty : ws[f].bodies \in {"final", "pending"}}
    /\ nmsgs' = Len(messages)
    /\ final' = fin
    /\ fpc' = AfterBatch(ws, Len(messages))

\* The loop wakes: the ticker fired or the dirty set crossed flushMaxDirty.
\* A flush with nothing to write returns without a trace.
FlushBegin ==
    /\ loop = "running"
    /\ fpc = "idle"
    /\ dirty # {} \/ messages # << >>
         \/ \E f \in pending : bodiesSettled(dflows[f])
    /\ TakeBatch(FALSE)
    /\ UNCHANGED <<decoderVars, dflows, flows, messages, pending, quoted,
                   flushErr, loop, life, bundleVars>>

\* persistLive: the final flush, of a session whose loop has ended.
FinalFlushBegin ==
    /\ life = "closed"
    /\ fpc = "idle"
    /\ ~flushErr
    /\ TakeBatch(TRUE)
    /\ UNCHANGED <<decoderVars, dflows, flows, messages, pending, quoted,
                   flushErr, loop, life, bundleVars>>

\* The refs InsertFlowWrites puts in the row, by disposition.
RefWritten(w) ==
    IF w.bodies = "final" THEN w.snap.body
    ELSE IF w.bodies = "stored" THEN w.ref ELSE 0

\* flush, phase 2: InsertFlowWrites, one transaction over the whole batch.
InsertFlowWrites ==
    /\ fpc = "flows"
    /\ row' = [f \in Flows |->
                 IF writes[f].bodies = "none" THEN row[f]
                 ELSE [ver |-> writes[f].snap.ver, body |-> RefWritten(writes[f])]]
    /\ writes' = [f \in Flows |-> [bodies |-> writes[f].bodies, snap |-> writes[f].snap,
                                   ref |-> RefWritten(writes[f])]]
    /\ fpc' = IF nmsgs > 0 THEN "frames" ELSE "commit"
    /\ UNCHANGED <<decoderVars, hubVars, bookVars, final, flushing, nmsgs,
                   loop, life, saved>>

\* flush, phase 2: InsertMessages, one transaction over the batch's frames.
InsertMessages ==
    /\ fpc = "frames"
    /\ saved' = saved \cup {messages[i] : i \in 1..nmsgs}
    /\ fpc' = "commit"
    /\ UNCHANGED <<decoderVars, hubVars, bookVars, final, flushing, writes, nmsgs,
                   loop, life, row>>

\* The writes phase 3 commits: in the bundle with their bodies, and not
\* touched by the decoder while the write was in flight.
Settled == {f \in Flows : writes[f].bodies = "final" /\ f \notin dirty}

\* Mutant: releasing a flow forgets it altogether.
ReleaseForgets == [f \in Flows \ Settled |-> dflows[f]]

\* A snapshot without its bytes; the scalars stay.
Emptied(s) == [ver |-> s.ver, body |-> 0, done |-> s.done, ws |-> s.ws]

\* releaseBodiesLocked: drop the bytes of the CURRENT snapshot, which is not
\* the one that was written if onFlow stored another in between.
releaseBodies ==
    [f \in Flows |-> IF f \in Settled THEN Emptied(dflows[f]) ELSE dflows[f]]

\* Mutant: everything in the hub is dropped, the frames of this batch or not.
TrimAll == << >>

\* The frames left once this batch is on disk.
Trimmed == SubSeq(messages, nmsgs + 1, Len(messages))

\* flush, phase 3 (under mu): remember the refs, release the bytes, trim.
FlushCommit ==
    /\ fpc = "commit"
    /\ stored' = stored \cup Settled
    /\ quoted' = [f \in Flows |-> IF f \in Settled THEN writes[f].ref ELSE quoted[f]]
    /\ dflows' = releaseBodies
    /\ pending' = (pending \ Settled) \cup (flushing \ stored')
    /\ messages' = Trimmed
    /\ fpc' = "idle"
    /\ life' = IF final THEN "recorded" ELSE life
    /\ final' = FALSE
    /\ flushing' = {}
    /\ writes' = [f \in Flows |-> NoWrite]
    /\ nmsgs' = 0
    /\ UNCHANGED <<decoderVars, flows, dirty, flushErr, loop, row, saved>>

\* A store write fails.  The loop records the error and hands it to the owner
\* (failFlush); the final flush returns it to finalizeSession.
FlushFail ==
    /\ WriteFailures
    /\ fpc \in {"flows", "frames"}
    /\ fpc' = "idle"
    /\ final' = FALSE
    /\ flushing' = {}
    /\ writes' = [f \in Flows |-> NoWrite]
    /\ nmsgs' = 0
    /\ IF final
          THEN life' = "unrecorded" /\ UNCHANGED <<flushErr, loop>>
          ELSE flushErr' = TRUE /\ loop' = "failing" /\ UNCHANGED life
    /\ UNCHANGED <<decoderVars, hubVars, pending, stored, quoted, bundleVars>>

\* onFlushErr returned: the loop's goroutine exits.
FailReported ==
    /\ loop = "failing"
    /\ loop' = "exited"
    /\ UNCHANGED <<decoderVars, hubVars, bookVars, batchVars, life, bundleVars>>

-----------------------------------------------------------------------------
(* hub.stop and persistLive.                                               *)

\* hub.stop: out of the hub's map, and the pipe is closed.
HubStop ==
    /\ life = "live"
    /\ life' = "stopping"
    /\ UNCHANGED <<decoderVars, hubVars, bookVars, batchVars, loop, bundleVars>>

\* stopFlusher, after the decode goroutine is done: the loop ends between two
\* flushes (it may still begin one, its select being fair to both channels).
StopFlusher ==
    /\ life = "stopping"
    /\ decode # "running"
    /\ loop = "running"
    /\ fpc = "idle"
    /\ loop' = "exited"
    /\ UNCHANGED <<decoderVars, hubVars, bookVars, batchVars, life, bundleVars>>

\* The rest of hub.stop: end the subscriptions and set closed.
MarkClosed ==
    /\ life = "stopping"
    /\ decode # "running"
    /\ loop = "exited"
    /\ life' = "closed"
    /\ UNCHANGED <<decoderVars, hubVars, bookVars, batchVars, loop, bundleVars>>

\* persistLive's flush finds an error recorded by the loop and returns it.
FinalFlushRefused ==
    /\ life = "closed"
    /\ fpc = "idle"
    /\ flushErr
    /\ life' = "unrecorded"
    /\ UNCHANGED <<decoderVars, hubVars, bookVars, batchVars, loop, bundleVars>>

-----------------------------------------------------------------------------
\* The session is over and no straggling parser is left to report.
Terminated ==
    /\ life \in {"recorded", "unrecorded"}
    /\ UNCHANGED vars

Next ==
    \/ \E f \in Flows : OnFlow(f) \/ Publish(f) \/ PublishMessage(f)
    \/ DecodeDrained
    \/ DecodePanicked
    \/ FlushBegin
    \/ FinalFlushBegin
    \/ InsertFlowWrites
    \/ InsertMessages
    \/ FlushCommit
    \/ FlushFail
    \/ FailReported
    \/ HubStop
    \/ StopFlusher
    \/ MarkClosed
    \/ FinalFlushRefused
    \/ Terminated

Spec == Init /\ [][Next]_vars

-----------------------------------------------------------------------------
(* Fairness.  Every goroutine that can run eventually does: the decode      *)
(* callbacks return, the ticker wakes the loop, SQLite answers, hub.stop    *)
(* goes on once what it waits for happened.  Nothing makes traffic arrive,  *)
(* a write fail or the session stop.                                        *)
Fairness ==
    /\ \A f \in Flows : WF_vars(Publish(f))
    /\ WF_vars(DecodeDrained)
    /\ WF_vars(FlushBegin)
    /\ WF_vars(FinalFlushBegin)
    /\ WF_vars(InsertFlowWrites)
    /\ WF_vars(InsertMessages)
    /\ WF_vars(FlushCommit)
    /\ WF_vars(FailReported)
    /\ WF_vars(StopFlusher)
    /\ WF_vars(MarkClosed)
    /\ WF_vars(FinalFlushRefused)

FairSpec == Spec /\ Fairness

-----------------------------------------------------------------------------
(* Safety.                                                                  *)

\* A reader is served from the bundle or from the hub, whichever has more.
Reach(f) == IF row[f].body > dflows[f].body THEN row[f].body ELSE dflows[f].body

\* releaseBodiesLocked never drops the only copy: what the decoder reported of
\* a flow's bodies, up to the report that called them done, is in the hub's
\* snapshot or behind the row's refs, whatever the flusher is doing
\* (flush.go:217-228), also when the bodies change after that.  A parser that
\* outlives a panicked packet loop reports to a closed session, which keeps
\* nothing.
NoBodyLost ==
    \A f \in Flows : (decode = "panicked" => ~closed) => Reach(f) >= promised[f]

\* Trimming ls.messages after the write (flush.go:235) loses no frame that
\* arrived during it, and no frame is handed to InsertMessages twice, whose
\* plain INSERT would fail the flush and with it the capture.
FramesExactlyOnce ==
    /\ \A f \in Flows : \A k \in 1..frames[f] :
          <<f, k>> \in saved \/ \E i \in 1..Len(messages) : messages[i] = <<f, k>>
    /\ fpc # "commit" =>
          \A i \in 1..Len(messages) :
             /\ messages[i] \notin saved
             /\ \A j \in 1..Len(messages) : messages[i] = messages[j] => i = j

\* Mutant: the tail also leaves out the flows whose write is in flight.
unflushedEager ==
    {f \in Flows : flows[f] > 0 /\ f \notin pending \cup stored \cup flushing}

\* unflushedFlows (live.go:680): the flows a stored query must merge.
unflushedFlows == {f \in Flows : flows[f] > 0 /\ f \notin pending \cup stored}

\* A flow the hub withholds from the merge because it is "written" does have a
\* row, so the bundle and the tail together show every published flow.
MergeShowsEveryFlow ==
    \A f \in Flows : flows[f] > 0 => row[f].ver > 0 \/ f \in unflushedFlows

\* persistLive's claim (ingest.go:777): after the final flush the bundle holds
\* every published flow at its last version, with its bodies as they were when
\* the decoder called them done, and every frame, although most of them were
\* written and forgotten long before.
RecordedComplete ==
    life = "recorded" =>
        /\ \A f \in Flows : flows[f] > 0 =>
              /\ row[f].ver >= flows[f]
              /\ decode = "drained" => row[f].body >= promised[f]
        /\ \A f \in Flows : \A k \in 1..frames[f] : <<f, k>> \in saved

\* A re-flush never takes a body away from a row unless the hub can still serve
\* at least as much of it (flush.go:155-158, store.BodiesStored), and never puts
\* an older version of a flow over a newer one.
BundleNeverRegresses ==
    [][\A f \in Flows :
          /\ row'[f].body < row[f].body => dflows[f].body >= row[f].body
          /\ row'[f].ver >= row[f].ver]_vars

\* Observed: what the decoder reports after it called a flow done is kept as well.  A
\* report between the two locks of onFlow is released unwritten (LiveFlush_race.cfg).
NothingLateIsLost ==
    \A f \in Flows :
        dec[f].ver > 0 /\ (decode = "panicked" => ~closed) => Reach(f) = dec[f].body

\* "stored is what has been written in full and released from memory"
\* (live.go:105-106): once the flusher is at rest, a stored flow nobody is
\* touching holds no body bytes.
StoredIsReleased ==
    \A f \in stored : life = "live" /\ fpc = "idle" /\ f \notin dirty \cup handing => dflows[f].body = 0

-----------------------------------------------------------------------------
(* What it all implements.                                                  *)

Outcome == CASE life = "recorded" -> "recorded"
             [] life = "unrecorded" -> "failed"
             [] OTHER -> "open"

Record == INSTANCE SessionRecord WITH
    heard <- [f \in Flows |-> dec[f].ver],
    done <- {f \in Flows : dec[f].done},
    readable <- [f \in Flows |-> Reach(f)],
    shown <- flows,
    arrived <- frames,
    kept <- [f \in Flows |-> row[f].ver],
    bytes <- [f \in Flows |-> row[f].body],
    broken <- (decode = "panicked"),
    outcome <- Outcome

\* "Moving a flow's bytes to disk is invisible to readers" (flush.go:6-8): through every
\* flush, retry of a pending body, re-report and failure, what a reader can have of a
\* flow only grows, but for what came after it was done, no frame is written twice, and
\* a session that ends as recorded has in its bundle all that its viewers were told of
\* (persistLive, ingest.go:777).
ImplementsRecord == Record!Spec

-----------------------------------------------------------------------------
(* Liveness.                                                                *)

Failed == flushErr \/ life = "unrecorded"

\* Every published flow reaches the bundle, unless a write failed.
FlowReachesBundle ==
    \A f \in Flows : flows[f] > 0 ~> row[f].ver > 0 \/ Failed

\* A flow written without its bodies is not promised them for ever: once it
\* settles, a later cycle stores them (flush.go:164-177).
PendingBodiesStored ==
    \A f \in Flows :
        f \in pending /\ bodiesSettled(dflows[f])
            ~> f \in stored \/ dflows[f].ws \/ Failed \/ life = "recorded"

\* hub.stop and persistLive end: the decode drains, the loop is joined, and the
\* final flush runs or is refused, also when the loop failed on the way.
StopCompletes == life = "stopping" ~> life \in {"recorded", "unrecorded"}

\* The flusher keeps up: all three.
FlusherKeepsUp == FlowReachesBundle /\ PendingBodiesStored /\ StopCompletes

=============================================================================
