-------------------------- MODULE SessionLifecycle --------------------------
(***************************************************************************)
(* Ending a live-decoded pcap session.  Three calls may finalize it at the *)
(* same time: the source's CloseSession, the UploadCapture handler whose   *)
(* stream broke, and a user's ForceCloseSession                            *)
(* (gateway/internal/server/ingest.go).  Meanwhile the flush loop may fail *)
(* and end the capture itself (onFlushError), which asks the source to     *)
(* stop, which closes the session: gateway and source call each other.     *)
(* The source side is KeylogCapture.stop of capture_sdk/livecapture.py.    *)
(*                                                                         *)
(* The flusher's own work is LiveFlush; here the data is three facts: the  *)
(* hub holds something not yet written (tail), the bundle has rows of the  *)
(* live analysis (liveRows), and how many batch analyses it has (batches). *)
(***************************************************************************)
EXTENDS Naturals

CONSTANTS
    Worlds,      \* what may go wrong in the histories considered
    MaxCrashes,  \* bound: gateway crashes
    MaxForce     \* bound: ForceCloseSession calls

\* flush: a flush of the loop may fail; persist: a store step of finalizeSession may
\* fail, or its context end; catalog: the catalog may fail where the code carries on
\* regardless; crash: the gateway may crash; late: a call may finalize the session
\* before its upload begins.
Switches == [flush : BOOLEAN, persist : BOOLEAN, catalog : BOOLEAN, crash : BOOLEAN, late : BOOLEAN]

ASSUME LifecycleAssumption ==
    /\ Worlds \subseteq Switches
    /\ MaxCrashes \in Nat
    /\ MaxForce \in Nat

VARIABLES
    world,      \* the switches of this history
    status,     \* the catalog's status of the session
    counted,    \* the catalog's flow_count was taken from the bundle
    hub,        \* is the session in liveHub.sessions?
    decode,     \* the decode goroutine: "off", "running" or "done"
    loop,       \* the flush loop and its failure path
    flushErr,   \* ls.flushErr # nil
    tail,       \* the live session holds flows the bundle lacks
    liveRows,   \* the bundle has rows of the live analysis
    batches,    \* batch analyses stored in the bundle
    pcap,       \* the stored capture is not empty
    finalizing, \* Ingest.finalizing[sid]
    pc,         \* [Calls -> where that call is]
    got,        \* [Calls -> did hub.stop hand it the live session?]
    upload,     \* the UploadCapture stream
    src,        \* KeylogCapture.stop in the source process
    fallback,   \* ForceCloseSession marked the catalog after a failed finalize
    forced,     \* ForceCloseSession calls so far
    crashes     \* crashes so far

catalogVars == <<status, counted, fallback>>
hubVars == <<hub, decode, loop, flushErr, tail>>
bundleVars == <<liveRows, batches, pcap>>
callVars == <<finalizing, pc, got>>
boundVars == <<forced, crashes, world>>
vars == <<catalogVars, hubVars, bundleVars, callVars, upload, src, boundVars>>

FlushFails == world.flush
PersistFails == world.persist
CatalogFails == world.catalog
LateBegin == world.late

Calls == {"close", "upload", "force"}
finalized == status \in {"CLOSED", "ERROR"}

\* Where a call can be inside finalizeSession, and the ways it returns.
Running == {"entered", "checking", "stopping", "draining", "joining", "stopped", "persisted"}
Returned == {"busy", "refused", "failed", "ok"}

TypeOK ==
    /\ world \in Worlds
    /\ status \in {"OPEN", "CLOSED", "ERROR"}
    /\ counted \in BOOLEAN
    /\ hub \in BOOLEAN
    /\ decode \in {"off", "running", "done"}
    /\ loop \in {"off", "running", "failed", "marked", "waiting", "exited"}
    /\ flushErr \in BOOLEAN
    /\ tail \in BOOLEAN
    /\ liveRows \in BOOLEAN
    /\ batches \in Nat
    /\ pcap \in BOOLEAN
    /\ finalizing \in BOOLEAN
    /\ pc \in [Calls -> {"idle"} \cup Running \cup Returned]
    /\ got \in [Calls -> BOOLEAN]
    /\ upload \in {"none", "open", "ended", "broken"}
    /\ src \in {"capturing", "draining", "closing", "stopped"}
    /\ fallback \in BOOLEAN
    /\ forced \in 0..MaxForce
    /\ crashes \in 0..MaxCrashes

\* OpenSession has run: the row exists, nothing has been uploaded.
Init ==
    /\ world \in Worlds
    /\ status = "OPEN"
    /\ counted = FALSE
    /\ hub = FALSE
    /\ decode = "off"
    /\ loop = "off"
    /\ flushErr = FALSE
    /\ tail = FALSE
    /\ liveRows = FALSE
    /\ batches = 0
    /\ pcap = FALSE
    /\ finalizing = FALSE
    /\ pc = [c \in Calls |-> "idle"]
    /\ got = [c \in Calls |-> FALSE]
    /\ upload = "none"
    /\ src = "capturing"
    /\ fallback = FALSE
    /\ forced = 0
    /\ crashes = 0

-----------------------------------------------------------------------------
(* UploadCapture and the live decode it feeds.                             *)

\* UploadBegin: hub.start registers the session and starts decode and flusher.
\* Without an analysis there is no flusher: the session accumulates till close.
\* Nothing here looks at the session's status.
UploadBegin ==
    /\ upload = "none"
    /\ src # "stopped"
    /\ LateBegin \/ (status = "OPEN" /\ \A c \in Calls : pc[c] = "idle")
    /\ upload' = "open"
    /\ hub' = TRUE
    /\ decode' = "running"
    /\ \/ loop' = "running"
       \/ PersistFails /\ loop' = "off"
    /\ UNCHANGED <<catalogVars, flushErr, tail, bundleVars, callVars, src, boundVars>>

\* A data chunk: stored, and teed to the decoder if the session is still live.
\* The decoder may report a flow from it.
UploadData ==
    /\ upload = "open"
    /\ pcap' = TRUE
    /\ tail' = (tail \/ (hub /\ decode = "running"))
    /\ UNCHANGED <<catalogVars, hub, decode, loop, flushErr, liveRows, batches,
                   callVars, upload, src, boundVars>>

\* The source ends the stream after its sentinel.
UploadEnd ==
    /\ upload = "open"
    /\ src # "capturing"
    /\ upload' = "ended"
    /\ UNCHANGED <<catalogVars, hubVars, bundleVars, callVars, src, boundVars>>

\* A chunk the object store refuses ends the handler with an error, and only
\* that: the source still closes the session.
UploadRefused ==
    /\ PersistFails
    /\ upload = "open"
    /\ upload' = "ended"
    /\ UNCHANGED <<catalogVars, hubVars, bundleVars, callVars, src, boundVars>>

\* Mutant: a broken stream only ends the handler.
UploadBreakIgnored ==
    /\ upload = "open"
    /\ upload' = "broken"
    /\ UNCHANGED <<catalogVars, hubVars, bundleVars, callVars, src, boundVars>>

\* The stream breaks: the source died, the connection dropped, or the source
\* closed its channel with the upload still running.  The handler finalizes.
UploadBreak ==
    /\ upload = "open"
    /\ upload' = "broken"
    /\ pc' = [pc EXCEPT !["upload"] = "entered"]
    /\ UNCHANGED <<catalogVars, hubVars, bundleVars, finalizing, got, src, boundVars>>

\* The pipe was closed: the decoder drains and may report its last flows.
DecodeDrained ==
    /\ decode = "running"
    /\ ~hub
    /\ decode' = "done"
    /\ tail' \in {tail, tail \/ pcap}
    /\ UNCHANGED <<catalogVars, hub, loop, flushErr, bundleVars, callVars, upload, src, boundVars>>

\* A panic of the packet loop is recovered; the session lives on, undecoded.
DecodePanicked ==
    /\ decode = "running"
    /\ decode' = "done"
    /\ UNCHANGED <<catalogVars, hub, loop, flushErr, tail, bundleVars, callVars, upload, src,
                   boundVars>>

-----------------------------------------------------------------------------
(* The flush loop.                                                         *)

LoopFlush ==
    /\ loop = "running"
    /\ tail
    /\ tail' = FALSE
    /\ liveRows' = TRUE
    /\ UNCHANGED <<catalogVars, hub, decode, loop, flushErr, batches, pcap,
                   callVars, upload, src, boundVars>>

\* failFlush: the loop keeps the error and calls the owner.
LoopFail ==
    /\ FlushFails
    /\ loop = "running"
    /\ tail
    /\ loop' = "failed"
    /\ flushErr' = TRUE
    /\ UNCHANGED <<catalogVars, hub, decode, tail, bundleVars, callVars, upload, src, boundVars>>

\* onFlushError, first half: mark the session errored.  A refusal of the
\* catalog is logged and ignored.
FlushErrorMark ==
    /\ loop = "failed"
    /\ loop' = "marked"
    /\ \/ status' = "ERROR" /\ counted' = TRUE
       \/ CatalogFails /\ UNCHANGED <<status, counted>>
    /\ UNCHANGED <<fallback, hub, decode, flushErr, tail, bundleVars, callVars, upload, src,
                   boundVars>>

\* onFlushError, second half: StopCapture.  It runs the source's stop and waits
\* for it; it returns at once if the gateway does not manage the source, or if
\* somebody else is stopping the capture already.
FlushErrorStop ==
    /\ loop = "marked"
    /\ \/ src = "capturing" /\ src' = "draining" /\ loop' = "waiting"
       \/ loop' = "exited" /\ UNCHANGED src
    /\ UNCHANGED <<catalogVars, hub, decode, flushErr, tail, bundleVars, callVars, upload,
                   boundVars>>

\* Mutant: the loop never learns that the source is gone.
StopNeverReturns ==
    /\ loop = "waiting"
    /\ UNCHANGED vars

\* The source's stop is over: StopCapture returns and the loop exits.
StopCaptureReturns ==
    /\ loop = "waiting"
    /\ src = "stopped"
    /\ loop' = "exited"
    /\ UNCHANGED <<catalogVars, hub, decode, flushErr, tail, bundleVars, callVars, upload, src,
                   boundVars>>

-----------------------------------------------------------------------------
(* The source: KeylogCapture.stop, which runs once.                        *)

\* The user stops the capture, its program exits or its time is up.
SourceStop ==
    /\ src = "capturing"
    /\ src' = "draining"
    /\ UNCHANGED <<catalogVars, hubVars, bundleVars, callVars, upload, boundVars>>

\* CloseSession, after the upload drained or its join timed out.
SourceClose ==
    /\ src = "draining"
    /\ src' = "closing"
    /\ pc' = [pc EXCEPT !["close"] = "entered"]
    /\ UNCHANGED <<catalogVars, hubVars, bundleVars, finalizing, got, upload, boundVars>>

\* CloseSession answered: the channel is closed whatever the answer.
SourceStopped ==
    /\ src = "closing"
    /\ pc["close"] \in Returned
    /\ src' = "stopped"
    /\ UNCHANGED <<catalogVars, hubVars, bundleVars, callVars, upload, boundVars>>

\* The source process dies.  A CloseSession in flight goes on in the gateway.
SourceDies ==
    /\ src # "stopped"
    /\ src' = "stopped"
    /\ UNCHANGED <<catalogVars, hubVars, bundleVars, callVars, upload, boundVars>>

-----------------------------------------------------------------------------
(* finalizeSession, by any of the calls.                                   *)

At(c, from) == pc[c] = from
Goto(c, to) == pc' = [pc EXCEPT ![c] = to]

\* Mutant: a call does not mind another one that is finalizing.
EnterUnguarded(c) ==
    /\ At(c, "entered")
    /\ Goto(c, "checking")
    /\ finalizing' = TRUE
    /\ UNCHANGED <<catalogVars, hubVars, bundleVars, got, upload, src, boundVars>>

\* One call per session at a time: another one is told errFinalizing.
Enter(c) ==
    /\ At(c, "entered")
    /\ IF finalizing THEN Goto(c, "busy") /\ UNCHANGED finalizing
                     ELSE Goto(c, "checking") /\ finalizing' = TRUE
    /\ UNCHANGED <<catalogVars, hubVars, bundleVars, got, upload, src, boundVars>>

\* A terminal session is refused.  A status that cannot be read is taken for
\* an open one.
Check(c) ==
    /\ At(c, "checking")
    /\ \/ finalized /\ Goto(c, "refused") /\ finalizing' = FALSE
       \/ ~finalized /\ Goto(c, "stopping") /\ UNCHANGED finalizing
       \/ CatalogFails /\ Goto(c, "stopping") /\ UNCHANGED finalizing
    /\ UNCHANGED <<catalogVars, hubVars, bundleVars, got, upload, src, boundVars>>

\* hub.stop: take the session out of the hub and close its pipe.
HubStop(c) ==
    /\ At(c, "stopping")
    /\ hub' = FALSE
    /\ got' = [got EXCEPT ![c] = hub]
    /\ Goto(c, IF hub THEN "draining" ELSE "stopped")
    /\ UNCHANGED <<catalogVars, decode, loop, flushErr, tail, bundleVars, finalizing, upload, src,
                   boundVars>>

\* Mutant: hub.stop does not wait for the decode to drain.
DecodeUnawaited(c) ==
    /\ At(c, "draining")
    /\ Goto(c, "joining")
    /\ UNCHANGED <<catalogVars, hubVars, bundleVars, finalizing, got, upload, src, boundVars>>

\* hub.stop waits for the decode to drain.
AwaitDecode(c) ==
    /\ At(c, "draining")
    /\ decode = "done"
    /\ Goto(c, "joining")
    /\ UNCHANGED <<catalogVars, hubVars, bundleVars, finalizing, got, upload, src, boundVars>>

\* stopFlusher: a running loop sees stopFlush, a failed one is waited for.
StopFlusher(c) ==
    /\ At(c, "joining")
    /\ loop \in {"off", "running", "exited"}
    /\ loop' = IF loop = "running" THEN "exited" ELSE loop
    /\ Goto(c, "stopped")
    /\ UNCHANGED <<catalogVars, hub, decode, flushErr, tail, bundleVars, finalizing, got, upload,
                   src, boundVars>>

\* A call returns an error: the deferred delete clears finalizing.
Return(c, result) == Goto(c, result) /\ finalizing' = FALSE

\* Mutant: the final flush runs although the loop's flush had failed.
PersistAnyway(c) ==
    /\ At(c, "stopped")
    /\ got[c] /\ pcap
    /\ tail' = FALSE
    /\ liveRows' = (liveRows \/ tail)
    /\ Goto(c, "persisted")
    /\ UNCHANGED <<catalogVars, hub, decode, loop, flushErr, batches, pcap, finalizing, got,
                   upload, src, boundVars>>

\* persistLive: the final flush of the tail, or the one pass of a session
\* without a flusher.
PersistLive(c) ==
    /\ At(c, "stopped")
    /\ got[c] /\ pcap
    /\ ~flushErr
    /\ tail' = FALSE
    /\ liveRows' = (liveRows \/ tail)
    /\ Goto(c, "persisted")
    /\ UNCHANGED <<catalogVars, hub, decode, loop, flushErr, batches, pcap, finalizing, got,
                   upload, src, boundVars>>

\* importer.Finalize: no live session, so the stored pcap is decoded as a whole.
BatchDecode(c) ==
    /\ At(c, "stopped")
    /\ ~got[c] /\ pcap
    /\ batches' = batches + 1
    /\ Goto(c, "persisted")
    /\ UNCHANGED <<catalogVars, hubVars, liveRows, pcap, finalizing, got, upload, src, boundVars>>

\* importer.Finalize fails in the decode or in an insert: the session is ERROR,
\* with no rows or with part of them.
BatchFailed(c) ==
    /\ PersistFails
    /\ At(c, "stopped")
    /\ ~got[c] /\ pcap
    /\ batches' \in {batches, batches + 1}
    /\ status' = "ERROR"
    /\ counted' = FALSE
    /\ Return(c, "failed")
    /\ UNCHANGED <<fallback, hubVars, liveRows, pcap, got, upload, src, boundVars>>

\* Nothing was captured: there is nothing to decode.
NothingCaptured(c) ==
    /\ At(c, "stopped")
    /\ ~pcap
    /\ Goto(c, "persisted")
    /\ UNCHANGED <<catalogVars, hubVars, bundleVars, finalizing, got, upload, src, boundVars>>

\* SetSessionBytes, a write or the count fails, or the final flush is refused:
\* an error is returned and the status is left as it was.
PersistFailed(c) ==
    /\ At(c, "stopped")
    /\ PersistFails \/ (flushErr /\ got[c])
    /\ Return(c, "failed")
    /\ UNCHANGED <<catalogVars, hubVars, bundleVars, got, upload, src, boundVars>>

\* FinishSession(CLOSED) with the bundle's count.
Finish(c) ==
    /\ At(c, "persisted")
    /\ status' = "CLOSED"
    /\ counted' = TRUE
    /\ Return(c, "ok")
    /\ UNCHANGED <<fallback, hubVars, bundleVars, got, upload, src, boundVars>>

\* CountFlows or FinishSession fails, after the rows are in the bundle.
FinishFailed(c) ==
    /\ PersistFails
    /\ At(c, "persisted")
    /\ Return(c, "failed")
    /\ UNCHANGED <<catalogVars, hubVars, bundleVars, got, upload, src, boundVars>>

-----------------------------------------------------------------------------
(* ForceCloseSession, and crashes.                                         *)

\* Only a session that is not terminal is force-closed.
ForceBegin ==
    /\ forced < MaxForce
    /\ pc["force"] \notin Running
    /\ ~finalized
    /\ forced' = forced + 1
    /\ Goto("force", "entered")
    /\ UNCHANGED <<catalogVars, hubVars, bundleVars, finalizing, got, upload, src, crashes, world>>

\* finalizeSession returned: an error other than errFinalizing makes it mark
\* the session closed, with the flow count it read before it began.  If that
\* fails too, the user is told.
ForceFallback ==
    /\ pc["force"] \in {"failed", "refused"}
    /\ \/ status' = "CLOSED" /\ counted' = FALSE /\ fallback' = TRUE
       \/ CatalogFails /\ UNCHANGED catalogVars
    /\ Goto("force", "idle")
    /\ UNCHANGED <<hubVars, bundleVars, finalizing, got, upload, src, boundVars>>

\* The gateway dies and is started again.  What was in memory is gone, clients
\* see their calls fail, and nothing looks at sessions left open.
Crash ==
    /\ world.crash
    /\ crashes < MaxCrashes
    /\ crashes' = crashes + 1
    /\ hub' = FALSE
    /\ decode' = "off"
    /\ loop' = "off"
    /\ flushErr' = FALSE
    /\ tail' = FALSE
    /\ finalizing' = FALSE
    /\ pc' = [c \in Calls |->
                IF pc[c] = "idle" THEN "idle" ELSE IF c = "force" THEN "busy" ELSE "failed"]
    /\ upload' = IF upload = "open" THEN "broken" ELSE upload
    /\ UNCHANGED <<catalogVars, bundleVars, got, src, forced, world>>

\* Every actor is at rest; the loop of a session nobody closed idles.
Quiescent ==
    /\ src = "stopped"
    /\ upload # "open"
    /\ loop \in {"off", "running", "exited"}
    /\ \A c \in Calls : pc[c] \notin Running
    /\ UNCHANGED vars

Upload == UploadBegin \/ UploadData \/ UploadEnd \/ UploadRefused \/ UploadBreak
Decode == DecodeDrained \/ DecodePanicked
Loop == LoopFlush \/ LoopFail \/ FlushErrorMark \/ FlushErrorStop \/ StopCaptureReturns
Source == SourceStop \/ SourceClose \/ SourceStopped \/ SourceDies

finalizeSession(c) ==
    \/ Enter(c)
    \/ Check(c)
    \/ HubStop(c)
    \/ AwaitDecode(c)
    \/ StopFlusher(c)
    \/ PersistLive(c)
    \/ BatchDecode(c)
    \/ BatchFailed(c)
    \/ NothingCaptured(c)
    \/ PersistFailed(c)
    \/ Finish(c)
    \/ FinishFailed(c)

Next ==
    \/ Upload
    \/ Decode
    \/ Loop
    \/ Source
    \/ \E c \in Calls : finalizeSession(c)
    \/ ForceBegin
    \/ ForceFallback
    \/ Crash
    \/ Quiescent

Spec == Init /\ [][Next]_vars

(* Goroutines and threads that can run do run: the decode drains, a failed  *)
(* loop reports, a call in the gateway goes on, and a source that began to  *)
(* stop goes through with it.  A closed channel ends the upload on it.      *)
(* Nobody has to stop a capture, break a stream or force-close.             *)
Fairness ==
    /\ WF_vars(DecodeDrained)
    /\ WF_vars(FlushErrorMark)
    /\ WF_vars(FlushErrorStop)
    /\ WF_vars(StopCaptureReturns)
    /\ WF_vars(SourceClose)
    /\ WF_vars(SourceStopped)
    /\ WF_vars(src = "stopped" /\ UploadBreak)
    /\ \A c \in Calls : WF_vars(finalizeSession(c))
    /\ WF_vars(ForceFallback)

FairSpec == Spec /\ Fairness

-----------------------------------------------------------------------------
(* Safety.                                                                  *)

\* Nothing fails but flushes, and those in the ways the code reacts to.
Steady == ~PersistFails /\ ~CatalogFails /\ ~world.crash

Once == batches <= 1 /\ ~(liveRows /\ batches > 0)

\* One analysis per capture: whichever of the calls comes first, and however the
\* others race it, the capture is decoded live or in a batch, never both and
\* never twice (ingest.go:71-74, 656-657), while store and gateway work.
DecodedOnce == Steady => Once

\* A session is not CLOSED with part of its flows only in memory: hub.stop waits
\* for the decode and the loop before the final flush takes the tail.  The
\* catalog-only fallback of ForceCloseSession promises nothing.
ClosedIsRecorded ==
    status = "CLOSED" /\ ~fallback => ~tail \/ batches > 0

\* "nothing more will be written to it" (store.go:230-231): a terminal status,
\* which checkpoints the log, comes after the last write to the bundle.
TerminalIsQuiet ==
    [][Steady /\ finalized => UNCHANGED <<liveRows, batches>> /\ (tail => tail')]_vars

\* ForceCloseSession does not mark a session closed "when another call is
\* finalizing it right now" (ingest.go:585-586).
ForceCloseDefers == [][~fallback /\ fallback' => ~finalizing]_vars

\* "the session's flow count describes what the session actually holds"
\* (ingest.go:768-769).
CountDescribesBundle ==
    status = "CLOSED" /\ (liveRows \/ batches > 0) => counted

-----------------------------------------------------------------------------
(* Liveness.                                                                *)

\* A call to finalize returns: nobody waits for ever for somebody who waits, while
\* the catalog takes the status of a failed flush.
CallsReturn == \A c \in Calls : ~CatalogFails /\ pc[c] \in Running ~> pc[c] \notin Running

\* "the capture is stopped" (ADR-0011 5): a capture the gateway began to stop
\* because its flush failed does stop, and the flusher's goroutine ends, unless the
\* catalog failed it.
FailedLoopEnds ==
    ~CatalogFails /\ loop = "waiting" ~> src = "stopped" /\ loop \in {"exited", "off"}

\* "Reclaim it: finalize what was captured" (ingest.go:327): the session of a
\* broken upload leaves the hub, and its decode goroutine ends, unless a flush failed.
Reclaimed == ~hub /\ decode # "running"
BrokenUploadReclaimed == ~FlushFails /\ upload = "broken" ~> Reclaimed

\* "force-close must still unstick the session" (ingest.go:583), also when the
\* finalization fails; it defers only to a call that holds the session.
ForceCloseUnsticks == ~CatalogFails /\ pc["force"] = "entered" ~> finalized \/ pc["force"] = "busy"

\* Whatever races whatever, nobody hangs: calls return, a loop whose flush failed
\* ends with its capture stopped, and a force-close gets the session unstuck
\* (ingest.go:130-155, 560-629; flush.go:273-288).
NobodyHangs == CallsReturn /\ FailedLoopEnds /\ ForceCloseUnsticks

=============================================================================
