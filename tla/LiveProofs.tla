----------------------------- MODULE LiveProofs -----------------------------
(* Theorems about a live session, for every set of flows and every bound.     *)
(*                                                                            *)
(* LiveFlush: the types, no frame is lost or written twice, no flow is hidden *)
(* from a merged page, and no body is dropped before it is stored; and that   *)
(* LiveFlush implements SessionRecord: no flush, retried body, failed write   *)
(* or straggling parser shows in what a reader was promised, and a session    *)
(* ends as recorded only when its bundle holds all that was told.             *)
(*                                                                            *)
(* LiveReads: GetFlow finds what it owes, and a follower's timeline is the    *)
(* flow's, although the flusher moves frames from the hub to the bundle under *)
(* it.                                                                        *)
EXTENDS LiveReads, FiniteSetTheorems, SequenceTheorems, TLAPS

-----------------------------------------------------------------------------
(* Lemmas about the operators of a flush.                                   *)

\* What phase 1 puts in a batch is a well-formed write.
LEMMA BatchWriteType ==
    ASSUME TypeOK, NEW f \in Flows, NEW fin \in BOOLEAN
    PROVE  /\ BatchWrite(f, fin) \in Write
           /\ DirtyDisposition(f, fin) \in {"pending", "stored", "final"}
<1> USE BoundsAssumption
<1>1. dflows[f] \in Snap /\ quoted[f] \in 0..MaxBody /\ 0 \in 0..MaxBody /\ 0 \in 0..MaxReports
  BY DEF TypeOK
<1>2. DirtyDisposition(f, fin) \in {"pending", "stored", "final"}
  BY DEF DirtyDisposition
<1>3. NoWrite \in Write
  BY <1>1 DEF NoWrite, NoSnap, Write, Snap, Dispositions
<1>4. BatchWrite(f, fin) \in Write
  BY <1>1, <1>2, <1>3 DEF BatchWrite, Write, Dispositions
<1> QED BY <1>2, <1>4

\* The ref a write puts in its row is a body length.
LEMMA RefWrittenType ==
    ASSUME NEW w \in Write
    PROVE  RefWritten(w) \in 0..MaxBody
  BY BoundsAssumption DEF RefWritten, Write, Snap

\* Dropping a batch of at most all the frames leaves a sequence of frames.
LEMMA TrimmedType ==
    ASSUME messages \in Seq(Frame), nmsgs \in 0..Len(messages)
    PROVE  /\ Trimmed \in Seq(Frame)
           /\ Len(Trimmed) = Len(messages) - nmsgs
           /\ \A i \in 1..Len(Trimmed) : Trimmed[i] = messages[nmsgs + i]
<1>1. nmsgs + 1 \in 1..(Len(messages) + 1) /\ Len(messages) \in nmsgs..Len(messages)
  BY LenProperties
<1> QED BY <1>1, SubSeqProperties, LenProperties DEF Trimmed

-----------------------------------------------------------------------------
\* The type invariant of a live session holds for any set of flows and any
\* bounds: in particular a batch never counts more frames than the hub holds
\* (flush.go:181,235), so the trim after the write cannot overrun the slice.
THEOREM TypeCorrect == Spec => []TypeOK
<1>1. Init => TypeOK
  <2> SUFFICES ASSUME Init PROVE TypeOK
    OBVIOUS
  <2>1. messages \in Seq(Frame) /\ nmsgs \in 0..Len(messages)
    BY EmptySeq DEF Init
  <2>2. NoSnap \in Snap /\ NoWrite \in Write
    BY BoundsAssumption DEF Snap, NoSnap, NoWrite, Write, Dispositions
  <2>3. row \in [Flows -> [ver : 0..MaxReports, body : 0..MaxBody]]
    BY BoundsAssumption DEF Init
  <2>4. /\ flows \in [Flows -> 0..MaxReports]
        /\ frames \in [Flows -> 0..MaxFrames]
        /\ promised \in [Flows -> 0..MaxBody]
        /\ quoted \in [Flows -> 0..MaxBody]
    BY BoundsAssumption DEF Init
  <2>5. /\ dec \in [Flows -> Snap]
        /\ dflows \in [Flows -> Snap]
        /\ writes \in [Flows -> Write]
    BY <2>2 DEF Init
  <2> QED BY <2>1, <2>3, <2>4, <2>5 DEF Init, TypeOK
<1>2. TypeOK /\ [Next]_vars => TypeOK'
  <2> SUFFICES ASSUME TypeOK, [Next]_vars
               PROVE  TypeOK'
    OBVIOUS
  <2> USE DEF decoderVars, hubVars, bookVars, batchVars, bundleVars
  <2>1. ASSUME NEW f \in Flows, OnFlow(f) PROVE TypeOK'
    <3>1. PICK s \in Snap : dec' = [dec EXCEPT ![f] = s] /\ dflows' = [dflows EXCEPT ![f] = s]
      BY <2>1 DEF OnFlow, NextSnaps
    <3>2. dec' \in [Flows -> Snap] /\ dflows' \in [Flows -> Snap]
      BY <3>1 DEF TypeOK
    <3>3. promised' \in [Flows -> 0..MaxBody]
      BY <2>1 DEF OnFlow, NextSnaps, Snap, TypeOK
    <3> QED BY <2>1, <3>2, <3>3 DEF OnFlow, TypeOK
  <2>2. ASSUME NEW f \in Flows, Publish(f) PROVE TypeOK'
    <3>1. dec[f].ver \in 0..MaxReports
      BY DEF TypeOK, Snap
    <3>2. flows' \in [Flows -> 0..MaxReports]
      BY <2>2, <3>1 DEF Publish, TypeOK
    <3> QED BY <2>2, <3>2 DEF Publish, TypeOK, markDirty
  <2>3. ASSUME NEW f \in Flows, PublishMessage(f) PROVE TypeOK'
    <3>1. <<f, frames[f] + 1>> \in Frame /\ frames[f] + 1 \in 0..MaxFrames
      BY <2>3, BoundsAssumption DEF PublishMessage, TypeOK, Frame
    <3>2. messages' \in Seq(Frame) /\ Len(messages') = Len(messages) + 1
      BY <2>3, <3>1, AppendProperties DEF PublishMessage, TypeOK
    <3>3. nmsgs' \in 0..Len(messages')
      BY <2>3, <3>2, LenProperties DEF PublishMessage, TypeOK
    <3> QED BY <2>3, <3>1, <3>2, <3>3 DEF PublishMessage, TypeOK, markDirty
  <2>4. CASE DecodeDrained BY <2>4 DEF DecodeDrained, TypeOK
  <2>5. CASE DecodePanicked BY <2>5 DEF DecodePanicked, TypeOK
  <2>6. ASSUME NEW fin \in BOOLEAN, TakeBatch(fin),
               UNCHANGED <<decoderVars, dflows, flows, messages, pending, quoted,
                           flushErr, loop, life, bundleVars>>
        PROVE  TypeOK'
    <3>1. writes' \in [Flows -> Write]
      BY <2>6, BatchWriteType DEF TakeBatch
    <3>2. fpc' \in {"idle", "flows", "frames", "commit"}
      BY <2>6 DEF TakeBatch, AfterBatch
    <3>3. nmsgs' \in 0..Len(messages')
      BY <2>6, LenProperties DEF TakeBatch, TypeOK
    <3> QED BY <2>6, <3>1, <3>2, <3>3 DEF TakeBatch, TypeOK
  <2>7. CASE FlushBegin BY <2>7, <2>6 DEF FlushBegin
  <2>8. CASE FinalFlushBegin BY <2>8, <2>6 DEF FinalFlushBegin
  <2>9. CASE InsertFlowWrites
    <3>1. writes' \in [Flows -> Write]
      BY <2>9, RefWrittenType DEF InsertFlowWrites, TypeOK, Write
    <3>2. row' \in [Flows -> [ver : 0..MaxReports, body : 0..MaxBody]]
      BY <2>9, RefWrittenType DEF InsertFlowWrites, TypeOK, Write, Snap
    <3> QED BY <2>9, <3>1, <3>2 DEF InsertFlowWrites, TypeOK
  <2>10. CASE InsertMessages
    <3>1. {messages[i] : i \in 1..nmsgs} \subseteq Frame
      BY ElementOfSeq DEF TypeOK
    <3>2. saved' \subseteq Frame
      BY <2>10, <3>1 DEF InsertMessages, TypeOK
    <3> QED BY <2>10, <3>2 DEF InsertMessages, TypeOK
  <2>11. CASE FlushCommit
    <3>1. dflows' \in [Flows -> Snap] /\ quoted' \in [Flows -> 0..MaxBody]
      <4>1. ASSUME NEW f \in Flows
            PROVE  /\ dflows[f] \in Snap /\ Emptied(dflows[f]) \in Snap
                   /\ writes[f].ref \in 0..MaxBody /\ quoted[f] \in 0..MaxBody
        <5>1. dflows[f] \in Snap /\ quoted[f] \in 0..MaxBody /\ writes[f] \in Write
          BY DEF TypeOK
        <5>2. Emptied(dflows[f]) \in Snap
          BY <5>1, BoundsAssumption DEF Snap, Emptied
        <5>3. writes[f].ref \in 0..MaxBody
          BY <5>1 DEF Write
        <5> QED BY <5>1, <5>2, <5>3
      <4> QED BY <2>11, <4>1 DEF FlushCommit, releaseBodies
    <3>2. messages' \in Seq(Frame) /\ nmsgs' \in 0..Len(messages')
      BY <2>11, TrimmedType, LenProperties DEF FlushCommit, TypeOK
    <3>3. writes' \in [Flows -> Write]
      BY <2>11, BoundsAssumption DEF FlushCommit, NoWrite, NoSnap, Write, Snap, Dispositions
    <3> QED BY <2>11, <3>1, <3>2, <3>3 DEF FlushCommit, TypeOK, Settled
  <2>12. CASE FlushFail
    <3>1. writes' \in [Flows -> Write]
      BY <2>12, BoundsAssumption DEF FlushFail, NoWrite, NoSnap, Write, Snap, Dispositions
    <3>2. nmsgs' \in 0..Len(messages')
      BY <2>12, LenProperties DEF FlushFail, TypeOK
    <3> QED BY <2>12, <3>1, <3>2 DEF FlushFail, TypeOK
  <2>13. CASE FailReported BY <2>13 DEF FailReported, TypeOK
  <2>14. CASE HubStop BY <2>14 DEF HubStop, TypeOK
  <2>15. CASE StopFlusher BY <2>15 DEF StopFlusher, TypeOK
  <2>16. CASE MarkClosed BY <2>16 DEF MarkClosed, TypeOK
  <2>17. CASE FinalFlushRefused BY <2>17 DEF FinalFlushRefused, TypeOK
  <2>18. CASE UNCHANGED vars BY <2>18 DEF vars, TypeOK
  <2> QED
    BY <2>1, <2>2, <2>3, <2>4, <2>5, <2>7, <2>8, <2>9, <2>10, <2>11, <2>12,
       <2>13, <2>14, <2>15, <2>16, <2>17, <2>18 DEF Next, Terminated
<1> QED BY <1>1, <1>2, PTL DEF Spec

-----------------------------------------------------------------------------
(* Frames: each one the session accepted is in the hub until it is in the    *)
(* bundle, and goes into the bundle once.                                    *)


Accepted == {m \in Frame : m[2] <= frames[m[1]]}

\* The hub and the bundle hold accepted frames and nothing else.
OnlyAccepted ==
    /\ saved \subseteq Accepted
    /\ \A i \in 1..Len(messages) : messages[i] \in Accepted

\* ... and between them all of those.
NoneMissing ==
    \A m \in Accepted : m \in saved \/ \E i \in 1..Len(messages) : messages[i] = m

\* The hub's list has no frame twice.
NoneTwice ==
    \A i, j \in 1..Len(messages) : messages[i] = messages[j] => i = j

\* The frames of the hub that are in the bundle are the ones the commit will trim.
TrimmedAreSaved ==
    \A i \in 1..Len(messages) : messages[i] \in saved <=> fpc = "commit" /\ i <= nmsgs

FramesInv == OnlyAccepted /\ NoneMissing /\ NoneTwice /\ TrimmedAreSaved

\* publishMessage: the frame is new, to the hub and to the bundle.
LEMMA PublishMessageFrames ==
    ASSUME TypeOK, FramesInv, NEW f \in Flows, PublishMessage(f)
    PROVE  FramesInv'
<1> DEFINE m == <<f, frames[f] + 1>>
           n == Len(messages)
<1> USE DEF batchVars, bundleVars
<1>1. m \in Frame /\ m \notin Accepted
  BY BoundsAssumption DEF PublishMessage, TypeOK, Frame, Accepted
<1>2. Accepted' = Accepted \cup {m}
  <2>1. frames' = [frames EXCEPT ![f] = @ + 1]
    BY DEF PublishMessage
  <2>2. ASSUME NEW k \in Frame
        PROVE  k[2] <= frames'[k[1]] <=> k[2] <= frames[k[1]] \/ k = m
    <3>1. PICK g \in Flows, j \in 1..MaxFrames : k = <<g, j>>
      BY DEF Frame
    <3>2. j \in Nat /\ frames[f] \in Nat /\ frames[g] \in Nat
      BY BoundsAssumption DEF TypeOK
    <3>3. CASE g = f
      BY <2>1, <3>1, <3>2, <3>3 DEF TypeOK
    <3>4. CASE g # f
      BY <2>1, <3>1, <3>2, <3>4 DEF TypeOK
    <3> QED BY <3>3, <3>4
  <2> QED BY <1>1, <2>2 DEF Accepted
<1>3. /\ n \in Nat /\ Len(messages') = n + 1
      /\ \A i \in 1..n : messages'[i] = messages[i]
      /\ messages'[n + 1] = m
  BY <1>1 DEF PublishMessage, TypeOK
<1>4. m \notin saved /\ \A i \in 1..n : messages[i] # m
  BY <1>1 DEF FramesInv, OnlyAccepted
<1>5. saved' = saved /\ fpc' = fpc /\ nmsgs' = nmsgs /\ nmsgs \in 0..n
  BY DEF PublishMessage, TypeOK
<1>6. \A i \in 1..(n + 1) : i \in 1..n \/ i = n + 1
  BY <1>3
<1>7. OnlyAccepted'
  BY <1>2, <1>3, <1>5, <1>6 DEF FramesInv, OnlyAccepted
<1>8. NoneMissing'
  <2> SUFFICES ASSUME NEW k \in Accepted', k \notin saved
               PROVE  \E i \in 1..(n + 1) : messages'[i] = k
    BY <1>3, <1>5 DEF NoneMissing
  <2>1. CASE k = m
    BY <2>1, <1>3
  <2>2. CASE k # m
    <3>1. PICK i \in 1..n : messages[i] = k
      BY <2>2, <1>2 DEF FramesInv, NoneMissing
    <3> QED BY <3>1, <1>3
  <2> QED BY <2>1, <2>2
<1>9. NoneTwice'
  BY <1>3, <1>4, <1>6 DEF FramesInv, NoneTwice
<1>10. TrimmedAreSaved'
  BY <1>3, <1>4, <1>5, <1>6 DEF FramesInv, TrimmedAreSaved
<1> QED BY <1>7, <1>8, <1>9, <1>10 DEF FramesInv

\* InsertMessages puts the first nmsgs frames of the hub into the bundle.
LEMMA InsertMessagesFrames ==
    ASSUME TypeOK, FramesInv, InsertMessages
    PROVE  FramesInv'
<1> USE DEF decoderVars, hubVars
<1>1. /\ messages' = messages /\ frames' = frames /\ nmsgs' = nmsgs /\ fpc' = "commit"
      /\ fpc = "frames" /\ nmsgs \in 0..Len(messages)
      /\ saved' = saved \cup {messages[i] : i \in 1..nmsgs}
  BY DEF InsertMessages, TypeOK
<1>2. Len(messages) \in Nat
  BY DEF TypeOK
<1>3. \A i \in 1..nmsgs : i \in 1..Len(messages)
  BY <1>1, <1>2
<1>4. OnlyAccepted'
  BY <1>1, <1>3 DEF FramesInv, OnlyAccepted, Accepted
<1>5. NoneMissing' /\ NoneTwice'
  BY <1>1 DEF FramesInv, NoneMissing, NoneTwice, Accepted
<1>6. TrimmedAreSaved'
  <2> SUFFICES ASSUME NEW i \in 1..Len(messages)
               PROVE  messages[i] \in saved' <=> i <= nmsgs
    BY <1>1 DEF TrimmedAreSaved
  <2>1. messages[i] \notin saved
    BY <1>1 DEF FramesInv, TrimmedAreSaved
  <2>2. i <= nmsgs <=> i \in 1..nmsgs
    BY <1>1, <1>2
  <2>3. ASSUME NEW j \in 1..nmsgs, messages[j] = messages[i] PROVE i = j
    BY <1>3, <2>3 DEF FramesInv, NoneTwice
  <2> QED BY <1>1, <2>1, <2>2, <2>3
<1> QED BY <1>4, <1>5, <1>6 DEF FramesInv

\* FlushCommit trims the frames that are in the bundle and no other.
LEMMA FlushCommitFrames ==
    ASSUME TypeOK, FramesInv, FlushCommit
    PROVE  FramesInv'
<1> DEFINE n == Len(messages)
<1>1. /\ messages' = Trimmed /\ frames' = frames /\ saved' = saved
      /\ fpc = "commit" /\ fpc' = "idle" /\ nmsgs \in 0..n
  BY DEF FlushCommit, TypeOK, decoderVars
<1>2. /\ n \in Nat /\ Len(messages') = n - nmsgs
      /\ \A i \in 1..(n - nmsgs) : messages'[i] = messages[nmsgs + i]
  <2>1. messages \in Seq(Frame) /\ nmsgs \in 0..Len(messages) /\ n \in Nat
    BY DEF TypeOK
  <2>2. /\ Len(Trimmed) = n - nmsgs
        /\ \A i \in 1..Len(Trimmed) : Trimmed[i] = messages[nmsgs + i]
    BY <2>1, TrimmedType, Zenon
  <2> QED BY <1>1, <2>1, <2>2, Zenon
<1>3. \A i \in 1..(n - nmsgs) : nmsgs + i \in 1..n /\ nmsgs + i > nmsgs
  BY <1>1, <1>2
<1>4. OnlyAccepted'
  BY <1>1, <1>2, <1>3 DEF FramesInv, OnlyAccepted, Accepted
<1>5. NoneMissing'
  <2> SUFFICES ASSUME NEW k \in Accepted, k \notin saved
               PROVE  \E i \in 1..(n - nmsgs) : messages'[i] = k
    BY <1>1, <1>2 DEF NoneMissing, Accepted
  <2>1. PICK i \in 1..n : messages[i] = k
    BY DEF FramesInv, NoneMissing
  <2>2. i > nmsgs
    BY <1>1, <2>1 DEF FramesInv, TrimmedAreSaved
  <2>3. i - nmsgs \in 1..(n - nmsgs) /\ nmsgs + (i - nmsgs) = i
    BY <1>1, <1>2, <2>2
  <2> QED BY <1>2, <2>1, <2>3
<1>6. NoneTwice'
  BY <1>1, <1>2, <1>3 DEF FramesInv, NoneTwice
<1>7. TrimmedAreSaved'
  BY <1>1, <1>2, <1>3 DEF FramesInv, TrimmedAreSaved
<1> QED BY <1>4, <1>5, <1>6, <1>7 DEF FramesInv

\* The other steps write and trim nothing.
LEMMA FramesStep ==
    ASSUME TypeOK, FramesInv, [Next]_vars
    PROVE  FramesInv'
<1> USE DEF decoderVars, hubVars, bookVars, batchVars, bundleVars
<1>1. ASSUME UNCHANGED <<messages, frames, saved>>,
             fpc # "commit" \/ nmsgs = 0, fpc' # "commit" \/ nmsgs' = 0
      PROVE  FramesInv'
  <2>1. \A i \in 1..Len(messages) : messages[i] \notin saved
    BY <1>1 DEF FramesInv, TrimmedAreSaved
  <2>2. TrimmedAreSaved'
    BY <1>1, <2>1 DEF TrimmedAreSaved
  <2> QED BY <1>1, <2>2 DEF FramesInv, OnlyAccepted, NoneMissing, NoneTwice, Accepted
<1>2. ASSUME UNCHANGED <<messages, frames, saved, fpc, nmsgs>> PROVE FramesInv'
  BY <1>2 DEF FramesInv, OnlyAccepted, NoneMissing, NoneTwice, TrimmedAreSaved, Accepted
<1>3. ASSUME NEW f \in Flows, OnFlow(f) PROVE FramesInv'
  BY <1>3, <1>2 DEF OnFlow
<1>4. ASSUME NEW f \in Flows, Publish(f) PROVE FramesInv'
  BY <1>4, <1>2 DEF Publish
<1>5. CASE FlushBegin \/ FinalFlushBegin
  <2>1. ASSUME NEW ws, NEW n \in Nat, AfterBatch(ws, n) = "commit" PROVE n = 0
    BY <2>1 DEF AfterBatch
  <2>2. fpc' = "commit" => nmsgs' = 0
    <3>1. PICK fin \in BOOLEAN : TakeBatch(fin)
      BY <1>5 DEF FlushBegin, FinalFlushBegin
    <3>2. Len(messages) \in Nat
      BY DEF TypeOK
    <3>3. nmsgs' = Len(messages) /\ \E ws : fpc' = AfterBatch(ws, Len(messages))
      BY <3>1 DEF TakeBatch
    <3> QED BY <2>1, <3>2, <3>3
  <2> QED BY <1>5, <1>1, <2>2 DEF FlushBegin, FinalFlushBegin, TakeBatch
<1>6. CASE InsertFlowWrites
  BY <1>6, <1>1 DEF InsertFlowWrites, TypeOK
<1>7. CASE FlushFail
  BY <1>7, <1>1 DEF FlushFail
<1>8. CASE DecodeDrained \/ DecodePanicked \/ FailReported \/ HubStop \/ StopFlusher
           \/ MarkClosed \/ FinalFlushRefused \/ UNCHANGED vars
  BY <1>8, <1>2 DEF DecodeDrained, DecodePanicked, FailReported, HubStop, StopFlusher, MarkClosed,
                    FinalFlushRefused, vars
<1> QED
  BY <1>3, <1>4, <1>5, <1>6, <1>7, <1>8, PublishMessageFrames, InsertMessagesFrames,
     FlushCommitFrames DEF Next, Terminated

\* The strengthening of FramesExactlyOnce is an invariant of the session.
LEMMA FramesKept == Spec => []FramesInv
<1>1. Init => FramesInv
  BY DEF Init, FramesInv, OnlyAccepted, NoneMissing, NoneTwice, TrimmedAreSaved, Accepted, Frame
<1> QED BY <1>1, FramesStep, TypeCorrect, PTL DEF Spec

\* No frame is lost and none is inserted twice, for any number of flows and frames,
\* whatever write fails: what the commit trims off ls.messages is what InsertMessages
\* wrote of it, although frames are appended meanwhile (flush.go:192-237).
THEOREM FramesOnce == Spec => []FramesExactlyOnce
<1>1. FramesInv /\ TypeOK => FramesExactlyOnce
  <2> SUFFICES ASSUME FramesInv, TypeOK PROVE FramesExactlyOnce
    OBVIOUS
  <2>1. ASSUME NEW f \in Flows, NEW k \in 1..frames[f]
        PROVE  <<f, k>> \in Accepted
    BY BoundsAssumption DEF Accepted, Frame, TypeOK
  <2> QED BY <2>1 DEF FramesInv, NoneMissing, NoneTwice, TrimmedAreSaved, FramesExactlyOnce
<1> QED BY <1>1, FramesKept, TypeCorrect, PTL


-----------------------------------------------------------------------------
(* The flows the hub withholds from a merged page.                          *)

\* A flow the flusher may meet has a retained snapshot.
HasSnapshot ==
    \A f \in Flows :
        flows[f] > 0 \/ f \in handing \cup dirty \cup pending \cup flushing => dflows[f].ver > 0

\* What phase 1 took, phase 2 writes; what phase 2 wrote has a row.
BatchHasRows ==
    /\ fpc = "idle" => flushing = {}
    /\ \A f \in flushing : writes[f].bodies # "none"
    /\ \A f \in Flows : writes[f].bodies # "none" => writes[f].snap.ver > 0
    /\ fpc \in {"frames", "commit"} =>
          \A f \in Flows : writes[f].bodies # "none" => row[f].ver > 0

\* A flow the hub calls written has a row.
WrittenHasRow == \A f \in pending \cup stored : row[f].ver > 0

TailInv == HasSnapshot /\ BatchHasRows /\ WrittenHasRow


\* A merged page shows every flow: what unflushedFlows leaves out because the
\* flusher wrote it does have a row, at every moment of a flush that is under
\* way, failed or repeated (live.go:680, flush.go:230-234).
THEOREM MergeComplete == Spec => []MergeShowsEveryFlow
<1> USE DEF decoderVars, hubVars, bookVars, batchVars, bundleVars
<1>1. Init => TailInv
  BY DEF Init, TailInv, HasSnapshot, BatchHasRows, WrittenHasRow, NoWrite
<1>2. TypeOK /\ TypeOK' /\ TailInv /\ [Next]_vars => TailInv'
  <2> SUFFICES ASSUME TypeOK, TypeOK', TailInv, [Next]_vars
               PROVE  TailInv'
    OBVIOUS
  <2> USE DEF TailInv
  <2>1. ASSUME NEW f \in Flows, OnFlow(f) PROVE TailInv'
    <3>1. ASSUME NEW g \in Flows PROVE dflows'[g].ver > 0 \/ (g # f /\ dflows'[g] = dflows[g])
      BY <2>1 DEF OnFlow, NextSnaps, TypeOK, Snap
    <3> QED BY <2>1, <3>1 DEF OnFlow, HasSnapshot, BatchHasRows, WrittenHasRow
  <2>2. ASSUME NEW f \in Flows, Publish(f) PROVE TailInv'
    BY <2>2 DEF Publish, markDirty, HasSnapshot, BatchHasRows, WrittenHasRow, TypeOK
  <2>3. ASSUME NEW f \in Flows, PublishMessage(f) PROVE TailInv'
    BY <2>3 DEF PublishMessage, markDirty, HasSnapshot, BatchHasRows, WrittenHasRow, TypeOK
  <2>4. ASSUME NEW fin \in BOOLEAN, TakeBatch(fin), fpc = "idle",
               UNCHANGED <<decoderVars, dflows, flows, messages, pending, quoted,
                           flushErr, loop, life, bundleVars>>
        PROVE  TailInv'
    <3>1. ASSUME NEW f \in Flows
          PROVE  /\ f \in dirty => writes'[f].bodies # "none"
                 /\ writes'[f].bodies # "none" => writes'[f].snap.ver > 0
      <4>1. writes'[f] = BatchWrite(f, fin)
        BY <2>4 DEF TakeBatch
      <4>2. DirtyDisposition(f, fin) # "none"
        BY BatchWriteType
      <4>3. f \in dirty \cup pending => dflows[f].ver > 0
        BY DEF HasSnapshot
      <4> QED BY <4>1, <4>2, <4>3 DEF BatchWrite, NoWrite
    <3>2. fpc' \in {"frames", "commit"} => \A f \in Flows : writes'[f].bodies = "none"
      BY <2>4 DEF TakeBatch, AfterBatch
    <3>3. fpc' # "idle"
      BY <2>4 DEF TakeBatch, AfterBatch
    <3>4. flushing' \subseteq Flows
      BY DEF TypeOK
    <3>5. BatchHasRows'
      BY <2>4, <3>1, <3>2, <3>3, <3>4 DEF TakeBatch, BatchHasRows
    <3> QED BY <2>4, <3>5 DEF TakeBatch, HasSnapshot, WrittenHasRow
  <2>5. CASE FlushBegin BY <2>5, <2>4 DEF FlushBegin
  <2>6. CASE FinalFlushBegin BY <2>6, <2>4 DEF FinalFlushBegin
  <2>7. CASE InsertFlowWrites
    <3>1. ASSUME NEW f \in Flows
          PROVE  /\ writes'[f].bodies = writes[f].bodies
                 /\ writes'[f].snap = writes[f].snap
                 /\ writes[f].bodies = "none" => row'[f] = row[f]
                 /\ writes[f].bodies # "none" => row'[f].ver = writes[f].snap.ver
      BY <2>7 DEF InsertFlowWrites
    <3>2. BatchHasRows'
      BY <2>7, <3>1 DEF InsertFlowWrites, BatchHasRows, TypeOK
    <3>3. WrittenHasRow'
      BY <2>7, <3>1 DEF InsertFlowWrites, BatchHasRows, WrittenHasRow, TypeOK
    <3> QED BY <2>7, <3>2, <3>3 DEF InsertFlowWrites, HasSnapshot
  <2>8. CASE InsertMessages
    BY <2>8 DEF InsertMessages, HasSnapshot, BatchHasRows, WrittenHasRow
  <2>9. CASE FlushCommit
    <3>1. ASSUME NEW f \in Flows PROVE dflows'[f].ver = dflows[f].ver
      BY <2>9 DEF FlushCommit, releaseBodies, Emptied
    <3>2. \A f \in Settled \cup flushing : f \in Flows /\ row[f].ver > 0
      BY <2>9 DEF FlushCommit, Settled, BatchHasRows, TypeOK
    <3>3. WrittenHasRow'
      BY <2>9, <3>2 DEF FlushCommit, WrittenHasRow
    <3>4. HasSnapshot'
      BY <2>9, <3>1 DEF FlushCommit, HasSnapshot
    <3>5. BatchHasRows'
      BY <2>9 DEF FlushCommit, BatchHasRows, NoWrite
    <3> QED BY <3>3, <3>4, <3>5
  <2>10. CASE FlushFail
    BY <2>10 DEF FlushFail, HasSnapshot, BatchHasRows, WrittenHasRow, NoWrite
  <2>11. CASE DecodeDrained \/ DecodePanicked \/ FailReported \/ HubStop \/ StopFlusher
              \/ MarkClosed \/ FinalFlushRefused
    BY <2>11 DEF DecodeDrained, DecodePanicked, FailReported, HubStop, StopFlusher, MarkClosed,
                 FinalFlushRefused, HasSnapshot, BatchHasRows, WrittenHasRow
  <2>12. CASE UNCHANGED vars
    BY <2>12 DEF vars, HasSnapshot, BatchHasRows, WrittenHasRow
  <2> QED
    BY <2>1, <2>2, <2>3, <2>5, <2>6, <2>7, <2>8, <2>9, <2>10, <2>11, <2>12
       DEF Next, Terminated
<1>3. TailInv => MergeShowsEveryFlow
  BY DEF TailInv, WrittenHasRow, MergeShowsEveryFlow, unflushedFlows
<1> QED BY <1>1, <1>2, <1>3, TypeCorrect, PTL DEF Spec

-----------------------------------------------------------------------------
(* The bytes the flusher drops from memory.                                 *)

\* Reports still count: a parser that outlives a panicked packet loop may
\* report to a session that is closed.
Kept == decode = "panicked" => ~closed

\* The retained snapshot is the decoder's flow, with its bytes or without.
SnapshotIsDecoders == \A f \in Flows : dflows[f] = dec[f] \/ dflows[f] = Emptied(dec[f])

\* hub.stop waits for the decoder and the loop before the final flush.
CloseOrder ==
    /\ closed => decode # "running"
    /\ decode = "drained" => handing = {}
    /\ fpc # "idle" /\ final => life = "closed"
    /\ fpc = "idle" => ~final

OwedApart == pending \cap stored = {}

\* What is promised of a flow's bodies is what was reported until it was done.
PromiseInv ==
    \A f \in Flows :
        /\ promised[f] <= dec[f].body
        /\ ~dec[f].done => promised[f] = dec[f].body

Gone(f) == dflows[f].body # dec[f].body

\* Of bytes that left memory what was promised is behind the row's ref, which is at hand.
GoneIsStored ==
    \A f \in Flows :
        Gone(f) => f \in stored /\ quoted[f] = row[f].body /\ promised[f] <= row[f].body

\* A write of a final body has what was promised, and no more will be.
FinalIsWhole ==
    \A f \in Flows :
        writes[f].bodies = "final" =>
            promised[f] <= writes[f].snap.body /\ (final \/ dec[f].done)

\* A write in flight of a flow without bytes in memory quotes its ref.
GoneIsQuoted ==
    fpc = "flows" =>
        \A f \in Flows :
            Gone(f) /\ writes[f].bodies # "none" =>
                writes[f].bodies = "stored" /\ writes[f].ref = quoted[f]

\* Phase 2 put the whole body behind the row's ref and kept the ref.
FinalLanded ==
    fpc \in {"frames", "commit"} =>
        \A f \in Flows :
            writes[f].bodies = "final" =>
                writes[f].ref = writes[f].snap.body /\ row[f].body = writes[f].snap.body

OrderInv == SnapshotIsDecoders /\ CloseOrder /\ OwedApart /\ FinalLanded

BodyInv == PromiseInv /\ OrderInv /\ (Kept => GoneIsStored /\ FinalIsWhole /\ GoneIsQuoted)

\* What a snapshot without its bytes keeps.
LEMMA EmptiedSnap ==
    ASSUME NEW s \in Snap
    PROVE  /\ Emptied(Emptied(s)) = Emptied(s)
           /\ Emptied(s).body = 0
           /\ Emptied(s).done <=> s.done
  BY DEF Emptied, Snap

\* hub.stop's order and the decoder's own: the part of BodyInv that holds however
\* a session ends.
LEMMA OrderStep ==
    ASSUME TypeOK, OrderInv, [Next]_vars
    PROVE  OrderInv'
<1> USE DEF decoderVars, hubVars, bookVars, batchVars, bundleVars, OrderInv
<1>1. ASSUME NEW f \in Flows, OnFlow(f) PROVE OrderInv'
  <2>1. SnapshotIsDecoders'
    BY <1>1 DEF OnFlow, SnapshotIsDecoders, Emptied, TypeOK
  <2> QED BY <1>1, <2>1 DEF OnFlow, CloseOrder, closed, OwedApart, FinalLanded
<1>2. ASSUME NEW f \in Flows, Publish(f) PROVE OrderInv'
  BY <1>2 DEF Publish, SnapshotIsDecoders, Emptied, CloseOrder, closed, OwedApart, FinalLanded
<1>3. ASSUME NEW f \in Flows, PublishMessage(f) PROVE OrderInv'
  BY <1>3 DEF PublishMessage, SnapshotIsDecoders, Emptied, CloseOrder, closed, OwedApart, FinalLanded
<1>4. ASSUME NEW fin \in BOOLEAN, TakeBatch(fin), fpc = "idle", fin => life = "closed",
             UNCHANGED <<decoderVars, dflows, flows, messages, pending, quoted,
                         flushErr, loop, life, bundleVars>>
      PROVE  OrderInv'
  <2>1. fpc' # "idle"
    BY <1>4 DEF TakeBatch, AfterBatch
  <2>2. FinalLanded'
    BY <1>4 DEF TakeBatch, AfterBatch, FinalLanded
  <2>3. CloseOrder'
    BY <1>4, <2>1 DEF TakeBatch, CloseOrder, closed
  <2> QED BY <1>4, <2>2, <2>3 DEF TakeBatch, SnapshotIsDecoders, Emptied, OwedApart
<1>5. CASE FlushBegin BY <1>5, <1>4 DEF FlushBegin
<1>6. CASE FinalFlushBegin BY <1>6, <1>4 DEF FinalFlushBegin
<1>7. CASE InsertFlowWrites
  <2>1. FinalLanded'
    BY <1>7 DEF InsertFlowWrites, FinalLanded, RefWritten
  <2> QED BY <1>7, <2>1 DEF InsertFlowWrites, SnapshotIsDecoders, Emptied, CloseOrder, closed, OwedApart
<1>8. CASE InsertMessages
  BY <1>8 DEF InsertMessages, SnapshotIsDecoders, Emptied, CloseOrder, closed, OwedApart, FinalLanded
<1>9. CASE FlushCommit
  <2>1. SnapshotIsDecoders'
    <3>1. ASSUME NEW f \in Flows
          PROVE  dflows'[f] = dflows[f] \/ dflows'[f] = Emptied(dflows[f])
      BY <1>9 DEF FlushCommit, releaseBodies
    <3>2. ASSUME NEW f \in Flows
          PROVE  dflows'[f] = dec[f] \/ dflows'[f] = Emptied(dec[f])
      <4>1. dec[f] \in Snap
        BY DEF TypeOK
      <4> QED BY <3>1, <4>1, EmptiedSnap DEF SnapshotIsDecoders
    <3> QED BY <1>9, <3>2 DEF FlushCommit, SnapshotIsDecoders
  <2>2. CloseOrder'
    BY <1>9 DEF FlushCommit, CloseOrder, closed
  <2>3. OwedApart'
    BY <1>9 DEF FlushCommit, OwedApart
  <2> QED BY <1>9, <2>1, <2>2, <2>3 DEF FlushCommit, FinalLanded
<1>10. CASE FlushFail
  BY <1>10 DEF FlushFail, SnapshotIsDecoders, Emptied, CloseOrder, closed, OwedApart, FinalLanded
<1>11. CASE DecodeDrained \/ DecodePanicked \/ FailReported \/ HubStop \/ StopFlusher
            \/ MarkClosed \/ FinalFlushRefused
  <2>1. CloseOrder'
    BY <1>11 DEF DecodeDrained, DecodePanicked, FailReported, HubStop, StopFlusher, MarkClosed,
                 FinalFlushRefused, CloseOrder, closed
  <2> QED BY <1>11, <2>1 DEF DecodeDrained, DecodePanicked, FailReported, HubStop, StopFlusher,
                 MarkClosed, FinalFlushRefused, SnapshotIsDecoders, Emptied, OwedApart, FinalLanded
<1>12. CASE UNCHANGED vars
  BY <1>12 DEF vars, SnapshotIsDecoders, Emptied, CloseOrder, closed, OwedApart, FinalLanded
<1> QED
  BY <1>1, <1>2, <1>3, <1>5, <1>6, <1>7, <1>8, <1>9, <1>10, <1>11, <1>12 DEF Next, Terminated

\* A report of a flow that is done promises nothing, any other one all it has.
LEMMA PromiseStep ==
    ASSUME TypeOK, TypeOK', PromiseInv, [Next]_vars
    PROVE  PromiseInv'
<1>1. ASSUME NEW f \in Flows, OnFlow(f) PROVE PromiseInv'
  <2> SUFFICES ASSUME NEW g \in Flows
               PROVE  promised'[g] <= dec'[g].body /\ (~dec'[g].done => promised'[g] = dec'[g].body)
    BY DEF PromiseInv
  <2>1. CASE g # f
    BY <1>1, <2>1 DEF OnFlow, PromiseInv, TypeOK
  <2>2. CASE g = f
    <3>1. PICK s \in NextSnaps(dec[f]) :
             /\ dec' = [dec EXCEPT ![f] = s]
             /\ promised' = IF dec[f].done THEN promised ELSE [promised EXCEPT ![f] = s.body]
      BY <1>1 DEF OnFlow
    <3>2. dec'[f] = s
      BY <3>1 DEF TypeOK
    <3>3. s \in Snap /\ dec[f] \in Snap /\ promised[f] \in Nat
      BY <3>1, BoundsAssumption DEF TypeOK, NextSnaps
    <3>4. /\ dec[f].body \in Nat /\ s.body \in Nat
          /\ dec[f].done \in BOOLEAN /\ s.done \in BOOLEAN
      BY <3>3, BoundsAssumption DEF Snap
    <3>5. s.body >= dec[f].body /\ (dec[f].done => s.done)
      BY <3>1 DEF NextSnaps
    <3>6. CASE dec[f].done
      BY <2>2, <3>1, <3>2, <3>3, <3>4, <3>5, <3>6 DEF PromiseInv
    <3>7. CASE ~dec[f].done
      <4>1. promised'[f] = s.body
        BY <3>1, <3>7 DEF TypeOK
      <4> QED BY <2>2, <3>2, <3>4, <4>1
    <3> QED BY <3>6, <3>7
  <2> QED BY <2>1, <2>2
<1>2. ASSUME UNCHANGED <<dec, promised>> PROVE PromiseInv'
  BY <1>2 DEF PromiseInv
<1> QED
  BY <1>1, <1>2 DEF Next, Publish, PublishMessage, DecodeDrained, DecodePanicked, FlushBegin,
         FinalFlushBegin, InsertFlowWrites, InsertMessages, FlushCommit, FlushFail, FailReported,
         HubStop, StopFlusher, MarkClosed, FinalFlushRefused, Terminated, vars, decoderVars

\* Once a panicked decode reports to a closed session it always may.
LEMMA KeptBefore ==
    ASSUME TypeOK, OrderInv, [Next]_vars, Kept'
    PROVE  Kept
<1> USE DEF decoderVars, hubVars, bookVars, batchVars, bundleVars
<1>1. closed => closed'
  BY DEF Next, OnFlow, Publish, PublishMessage, DecodeDrained, DecodePanicked, FlushBegin,
         FinalFlushBegin, InsertFlowWrites, InsertMessages, FlushCommit, FlushFail, FailReported,
         HubStop, StopFlusher, MarkClosed, FinalFlushRefused, Terminated, vars, closed
<1>2. decode = "panicked" => decode' = "panicked"
  BY DEF Next, OnFlow, Publish, PublishMessage, DecodeDrained, DecodePanicked, FlushBegin,
         FinalFlushBegin, InsertFlowWrites, InsertMessages, FlushCommit, FlushFail, FailReported,
         HubStop, StopFlusher, MarkClosed, FinalFlushRefused, Terminated, vars
<1> QED BY <1>1, <1>2 DEF Kept

\* The three kinds of write phase 1 chooses, field by field.
LEMMA BatchWriteCases ==
    ASSUME NEW f \in Flows, NEW fin \in BOOLEAN
    PROVE  /\ f \in dirty => /\ BatchWrite(f, fin).bodies = DirtyDisposition(f, fin)
                              /\ BatchWrite(f, fin).snap = dflows[f]
                              /\ BatchWrite(f, fin).ref = quoted[f]
           /\ f \notin dirty /\ f \in pending /\ (fin \/ bodiesSettled(dflows[f]))
                => /\ BatchWrite(f, fin).bodies = "final"
                   /\ BatchWrite(f, fin).snap = dflows[f]
           /\ f \notin dirty /\ ~(f \in pending /\ (fin \/ bodiesSettled(dflows[f])))
                => BatchWrite(f, fin).bodies = "none"
<1>1. CASE f \in dirty
  <2>1. BatchWrite(f, fin) = [bodies |-> DirtyDisposition(f, fin), snap |-> dflows[f],
                              ref |-> quoted[f]]
    BY <1>1 DEF BatchWrite
  <2> QED BY <1>1, <2>1
<1>2. CASE f \notin dirty /\ f \in pending /\ (fin \/ bodiesSettled(dflows[f]))
  <2>1. BatchWrite(f, fin) = [bodies |-> "final", snap |-> dflows[f], ref |-> 0]
    BY <1>2 DEF BatchWrite
  <2> QED BY <1>2, <2>1
<1>3. CASE f \notin dirty /\ ~(f \in pending /\ (fin \/ bodiesSettled(dflows[f])))
  <2>1. BatchWrite(f, fin) = NoWrite
    BY <1>3 DEF BatchWrite
  <2> QED BY <1>3, <2>1 DEF NoWrite
<1> QED BY <1>1, <1>2, <1>3

\* Phase 1 never takes a flow without bytes in memory for one to be written.
LEMMA TakeBatchKeeps ==
    ASSUME TypeOK, PromiseInv, OrderInv, GoneIsStored, NEW fin \in BOOLEAN, TakeBatch(fin),
           UNCHANGED <<dec, dflows, pending, promised, quoted, row>>
    PROVE  (GoneIsStored /\ FinalIsWhole /\ GoneIsQuoted)'
<1> USE DEF OrderInv
<1>1. ASSUME NEW f \in Flows, Gone(f)
      PROVE  f \in stored /\ f \notin pending /\ dflows[f].body = 0
  <2>1. dflows[f] = Emptied(dec[f])
    BY <1>1 DEF SnapshotIsDecoders, Gone
  <2>2. dec[f] \in Snap
    BY DEF TypeOK
  <2> QED BY <1>1, <2>1, <2>2, EmptiedSnap DEF GoneIsStored, OwedApart
<1>2. \A f \in Flows : writes'[f] = BatchWrite(f, fin)
  BY DEF TakeBatch
<1>3. ASSUME NEW f \in Flows, Gone(f)
      PROVE  /\ f \in dirty => writes'[f].bodies = "stored" /\ writes'[f].ref = quoted[f]
             /\ f \notin dirty => writes'[f].bodies = "none"
  <2>1. f \in stored /\ f \notin pending /\ dflows[f].body = 0
    BY <1>1, <1>3
  <2>2. DirtyDisposition(f, fin) = "stored"
    BY <2>1 DEF DirtyDisposition, changedSince
  <2> QED BY <1>2, <2>1, <2>2, BatchWriteCases
<1>4. GoneIsStored'
  BY <1>3 DEF GoneIsStored, Gone, TakeBatch
<1>5. GoneIsQuoted'
  BY <1>3 DEF GoneIsStored, GoneIsQuoted, Gone
<1>6. FinalIsWhole'
  <2> SUFFICES ASSUME NEW f \in Flows, writes'[f].bodies = "final"
               PROVE  promised[f] <= writes'[f].snap.body /\ (fin \/ dec[f].done)
    BY DEF FinalIsWhole, TakeBatch
  <2>1. ~Gone(f)
    BY <1>3
  <2>2. writes'[f].snap = dflows[f] /\ (fin \/ dflows[f].done)
    <3>1. f \in dirty => DirtyDisposition(f, fin) = "final"
      BY <1>2, BatchWriteCases
    <3>2. f \in dirty /\ ~fin => dflows[f].done
      BY <3>1 DEF DirtyDisposition, bodiesSettled
    <3>3. f \notin dirty => f \in pending /\ (fin \/ bodiesSettled(dflows[f]))
      BY <1>2, BatchWriteCases
    <3>4. f \notin dirty /\ ~fin => dflows[f].done
      BY <3>3 DEF bodiesSettled
    <3>5. writes'[f].snap = dflows[f]
      BY <1>2, <3>3, BatchWriteCases
    <3> QED BY <3>2, <3>4, <3>5
  <2>3. dflows[f].done <=> dec[f].done
    <3>1. dec[f] \in Snap
      BY DEF TypeOK
    <3> QED BY <3>1, EmptiedSnap DEF SnapshotIsDecoders
  <2>4. promised[f] <= dec[f].body
    BY DEF PromiseInv
  <2> QED BY <2>1, <2>2, <2>3, <2>4 DEF Gone
<1> QED BY <1>4, <1>5, <1>6

\* Every step keeps the only copy of every body.
LEMMA BodyStep ==
    ASSUME TypeOK, TypeOK', BodyInv, [Next]_vars
    PROVE  BodyInv'
<1> USE DEF decoderVars, hubVars, bookVars, batchVars, bundleVars
<1> SUFFICES ASSUME Kept'
             PROVE  (GoneIsStored /\ FinalIsWhole /\ GoneIsQuoted)'
  BY OrderStep, PromiseStep DEF BodyInv
<1>0. Kept /\ PromiseInv /\ OrderInv /\ GoneIsStored /\ FinalIsWhole /\ GoneIsQuoted
  BY KeptBefore DEF BodyInv
<1> DEFINE Goal == (GoneIsStored /\ FinalIsWhole /\ GoneIsQuoted)'
<1>1. ASSUME NEW f \in Flows, OnFlow(f) PROVE Goal
  <2>1. dflows' = [dflows EXCEPT ![f] = dec'[f]] /\ dec'[f] \in NextSnaps(dec[f])
        /\ dec' = [dec EXCEPT ![f] = dec'[f]]
    BY <1>1 DEF OnFlow, TypeOK
  <2>2. ~Gone(f)'
    BY <2>1 DEF Gone, TypeOK
  <2>3. \A g \in Flows : g # f =>
           dflows'[g] = dflows[g] /\ dec'[g] = dec[g] /\ promised'[g] = promised[g]
    BY <1>1, <2>1 DEF OnFlow, TypeOK
  <2>4. GoneIsStored' /\ GoneIsQuoted'
    BY <1>0, <1>1, <2>2, <2>3 DEF OnFlow, GoneIsStored, GoneIsQuoted, Gone
  <2>5. ~final
    BY <1>0, <1>1 DEF OnFlow, OrderInv, CloseOrder, Kept, closed, TypeOK
  <2>6. writes[f].bodies = "final" => promised'[f] = promised[f] /\ dec'[f].done
    BY <1>0, <1>1, <2>1, <2>5 DEF OnFlow, FinalIsWhole, NextSnaps
  <2>7. FinalIsWhole'
    BY <1>0, <1>1, <2>3, <2>6 DEF OnFlow, FinalIsWhole
  <2> QED BY <2>4, <2>7
<1>2. ASSUME NEW f \in Flows, Publish(f) PROVE Goal
  BY <1>0, <1>2 DEF Publish, GoneIsStored, FinalIsWhole, GoneIsQuoted, Gone
<1>3. ASSUME NEW f \in Flows, PublishMessage(f) PROVE Goal
  BY <1>0, <1>3 DEF PublishMessage, GoneIsStored, FinalIsWhole, GoneIsQuoted, Gone
<1>4. CASE FlushBegin BY <1>0, <1>4, TakeBatchKeeps DEF FlushBegin
<1>5. CASE FinalFlushBegin BY <1>0, <1>5, TakeBatchKeeps DEF FinalFlushBegin
<1>6. CASE InsertFlowWrites
  <2>1. ASSUME NEW f \in Flows
        PROVE  /\ writes'[f].bodies = writes[f].bodies
               /\ writes'[f].snap = writes[f].snap
               /\ writes[f].bodies = "none" => row'[f] = row[f]
               /\ writes[f].bodies = "stored" => row'[f].body = writes[f].ref
    BY <1>6 DEF InsertFlowWrites, RefWritten
  <2>2. GoneIsStored'
    BY <1>0, <1>6, <2>1 DEF InsertFlowWrites, GoneIsStored, GoneIsQuoted, Gone
  <2>3. FinalIsWhole'
    BY <1>0, <1>6, <2>1 DEF InsertFlowWrites, FinalIsWhole
  <2> QED BY <1>6, <2>2, <2>3 DEF InsertFlowWrites, GoneIsQuoted
<1>7. CASE InsertMessages
  BY <1>0, <1>7 DEF InsertMessages, GoneIsStored, FinalIsWhole, GoneIsQuoted, Gone
<1>8. CASE FlushCommit
  <2>1. ASSUME NEW f \in Flows, f \in Settled
        PROVE  promised[f] <= row[f].body /\ writes[f].ref = row[f].body
    BY <1>0, <1>8, <2>1 DEF FlushCommit, Settled, FinalIsWhole, OrderInv, FinalLanded
  <2>2. ASSUME NEW f \in Flows, f \notin Settled
        PROVE  dflows'[f] = dflows[f] /\ quoted'[f] = quoted[f]
    BY <1>8, <2>2 DEF FlushCommit, releaseBodies
  <2>3. ASSUME NEW f \in Flows, f \in Settled
        PROVE  quoted'[f] = writes[f].ref
    BY <1>8, <2>3 DEF FlushCommit
  <2>4. GoneIsStored'
    BY <1>0, <1>8, <2>1, <2>2, <2>3 DEF FlushCommit, GoneIsStored, Gone
  <2> QED BY <1>8, <2>4 DEF FlushCommit, FinalIsWhole, GoneIsQuoted, NoWrite
<1>9. CASE FlushFail
  BY <1>0, <1>9 DEF FlushFail, GoneIsStored, FinalIsWhole, GoneIsQuoted, Gone, NoWrite
<1>10. CASE DecodeDrained \/ DecodePanicked \/ FailReported \/ HubStop \/ StopFlusher
            \/ MarkClosed \/ FinalFlushRefused
  BY <1>0, <1>10 DEF DecodeDrained, DecodePanicked, FailReported, HubStop, StopFlusher, MarkClosed,
               FinalFlushRefused, GoneIsStored, FinalIsWhole, GoneIsQuoted, Gone
<1>11. CASE UNCHANGED vars
  BY <1>0, <1>11 DEF vars, GoneIsStored, FinalIsWhole, GoneIsQuoted, Gone
<1> QED
  BY <1>1, <1>2, <1>3, <1>4, <1>5, <1>6, <1>7, <1>8, <1>9, <1>10, <1>11 DEF Next, Terminated

LEMMA BodyInit == Init => BodyInv
  BY DEF Init, BodyInv, PromiseInv, OrderInv, SnapshotIsDecoders, CloseOrder, closed, OwedApart, FinalLanded,
         GoneIsStored, FinalIsWhole, GoneIsQuoted, Gone, NoWrite, NoSnap

\* No body is lost, for any number of flows, reports and bytes, whatever a decoder does to
\* a flow's bodies after it called them done: of what releaseBodiesLocked drops, all that
\* was reported up to then is behind the row's ref, and no later write of the row takes
\* the ref away (flush.go:140-185, 208-228).
THEOREM BodiesKept == Spec => []NoBodyLost
<1>1. TypeOK /\ TypeOK' /\ BodyInv /\ [Next]_vars => BodyInv'
  BY BodyStep
<1>2. TypeOK /\ BodyInv => NoBodyLost
  <2> SUFFICES ASSUME TypeOK, BodyInv, Kept, NEW f \in Flows PROVE Reach(f) >= promised[f]
    BY DEF NoBodyLost, Kept
  <2>1. /\ row[f].body \in Nat /\ dflows[f].body \in Nat /\ dec[f].body \in Nat
        /\ promised[f] \in Nat
    BY BoundsAssumption DEF TypeOK, Snap
  <2> QED BY <2>1 DEF BodyInv, PromiseInv, GoneIsStored, Gone, Reach
<1> QED BY BodyInit, <1>1, <1>2, TypeCorrect, PTL DEF Spec

-----------------------------------------------------------------------------
(* The refinement of SessionRecord: the invariant.                           *)

Open == life \notin {"recorded", "unrecorded"}

\* Nothing in the hub or the bundle is ahead of the decoder.
NothingAhead ==
    \A f \in Flows :
        /\ row[f].body <= dec[f].body
        /\ row[f].ver <= dec[f].ver
        /\ quoted[f] <= dec[f].body
        /\ flows[f] <= dec[f].ver
        /\ writes[f].snap.body <= dec[f].body
        /\ writes[f].snap.ver <= dec[f].ver
        /\ writes[f].ref <= dec[f].body

\* The flush loop flushes while it runs, and has ended when the session is closed.
LoopOrder ==
    /\ fpc # "idle" /\ ~final => loop = "running"
    /\ closed => loop = "exited"

\* While the session is open, what was promised of bytes that left memory is behind the
\* row's ref and a write in flight quotes it, also of a flow that a straggler reports after the close.
OpenBodies == Open => GoneIsStored /\ GoneIsQuoted

\* The disposition of a write in flight says where the flow is in the books.
InFlight ==
    fpc # "idle" =>
        \A f \in Flows :
            /\ writes[f].bodies \in {"final", "pending"} => f \notin stored
            /\ writes[f].bodies = "stored" => f \in stored
            /\ writes[f].bodies = "pending" => f \in flushing
            /\ f \in flushing => writes[f].bodies # "none"

\* The write in flight is no older than the row it replaces.
RowsAdvance ==
    fpc = "flows" =>
        \A f \in Flows : writes[f].bodies # "none" => row[f].ver <= writes[f].snap.ver

\* The final flush leaves nothing over.
FinalTakesAll ==
    final =>
        /\ ~flushErr
        /\ dirty = {}
        /\ nmsgs = Len(messages)
        /\ \A f \in pending : writes[f].bodies # "none"
        /\ \A f \in Flows : writes[f].bodies # "pending"

BooksInv == /\ NothingAhead /\ LoopOrder /\ OpenBodies
            /\ InFlight /\ RowsAdvance /\ FinalTakesAll

Unfailed == ~flushErr /\ life # "unrecorded"

\* A flow viewers were told of is in the bundle as they were told, or on its way.
Tracked ==
    Unfailed =>
        \A f \in Flows :
            \/ flows[f] <= row[f].ver
            \/ f \in dirty
            \/ fpc = "flows" /\ writes[f].bodies # "none" /\ flows[f] <= writes[f].snap.ver

\* The decoder has reported nothing of f since the flusher last took it.
Calm(f) == f \notin handing \cup dirty

\* A ref that has all there is to keep of a flow's bodies.
Whole(f, ref) == promised[f] <= ref /\ dflows[f].body <= ref

\* The ref a write gives to a calm flow is of its whole bodies, and so is what was
\* written of it.
QuotedWhole ==
    Kept /\ fpc = "flows" =>
        \A f \in Flows :
            Calm(f) /\ writes[f].bodies \in {"final", "stored"} => Whole(f, RefWritten(writes[f]))

WrittenWhole ==
    Kept /\ fpc \in {"frames", "commit"} =>
        \A f \in Flows :
            Calm(f) /\ writes[f].bodies \in {"final", "stored"} => Whole(f, row[f].body)

\* The bodies of a published flow are in the bundle, or something will put them there.
BodiesOwed ==
    Kept /\ Unfailed =>
        \A f \in Flows : flows[f] > 0 =>
            \/ ~Calm(f)
            \/ f \in pending
            \/ f \in stored /\ Whole(f, row[f].body)
            \/ fpc # "idle" /\ f \in flushing /\ writes[f].bodies # "none"

\* Nothing is owed by a session that is recorded.
RecordedOwesNothing ==
    life = "recorded" =>
        /\ dirty = {} /\ pending = {} /\ ~flushErr
        /\ Accepted \subseteq saved

RecordInv == BooksInv /\ Tracked /\ QuotedWhole /\ WrittenWhole /\ BodiesOwed /\ RecordedOwesNothing

-----------------------------------------------------------------------------
(* Lemmas about the decoder's snapshots and the batch.                       *)

\* The hub's snapshot of a flow is its last report, with the bytes or without.
LEMMA SnapshotFacts ==
    ASSUME TypeOK, SnapshotIsDecoders, NEW f \in Flows
    PROVE  /\ dflows[f].ver = dec[f].ver
           /\ dflows[f].body = 0 \/ dflows[f].body = dec[f].body
           /\ dec[f].ver \in Nat /\ dec[f].body \in Nat
<1>1. dec[f] \in Snap
  BY DEF TypeOK
<1>2. dec[f].ver \in Nat /\ dec[f].body \in Nat
  BY <1>1, BoundsAssumption DEF Snap
<1>3. Emptied(dec[f]).ver = dec[f].ver /\ Emptied(dec[f]).body = 0
  BY DEF Emptied
<1>4. dflows[f] = dec[f] \/ dflows[f] = Emptied(dec[f])
  BY DEF SnapshotIsDecoders
<1> QED BY <1>2, <1>3, <1>4

\* A batch write quotes the hub's snapshot of the flow and its ref, or nothing.
LEMMA BatchWriteFields ==
    ASSUME NEW f \in Flows, NEW fin \in BOOLEAN
    PROVE  /\ BatchWrite(f, fin).snap = dflows[f] \/ BatchWrite(f, fin).snap = NoSnap
           /\ BatchWrite(f, fin).ref = quoted[f] \/ BatchWrite(f, fin).ref = 0
           /\ BatchWrite(f, fin).bodies # "none" => BatchWrite(f, fin).snap = dflows[f]
           /\ BatchWrite(f, fin).bodies \in Dispositions
<1>1. CASE f \in dirty
  <2>1. BatchWrite(f, fin) = [bodies |-> DirtyDisposition(f, fin), snap |-> dflows[f],
                              ref |-> quoted[f]]
    BY <1>1 DEF BatchWrite
  <2> QED BY <2>1 DEF DirtyDisposition, Dispositions
<1>2. CASE f \notin dirty /\ f \in pending /\ (fin \/ bodiesSettled(dflows[f]))
  <2>1. BatchWrite(f, fin) = [bodies |-> "final", snap |-> dflows[f], ref |-> 0]
    BY <1>2 DEF BatchWrite
  <2> QED BY <2>1 DEF Dispositions
<1>3. CASE f \notin dirty /\ ~(f \in pending /\ (fin \/ bodiesSettled(dflows[f])))
  <2>1. BatchWrite(f, fin) = NoWrite
    BY <1>3 DEF BatchWrite
  <2> QED BY <2>1 DEF NoWrite, Dispositions
<1> QED BY <1>1, <1>2, <1>3

\* Phase 1 in one place: what each flow's write is, and where it leaves the flow.
LEMMA TakenWrites ==
    ASSUME NEW fin \in BOOLEAN, TakeBatch(fin), NEW f \in Flows, OwedApart
    PROVE  /\ writes'[f] = BatchWrite(f, fin)
           /\ f \in dirty => writes'[f].bodies = DirtyDisposition(f, fin)
           /\ f \in dirty => writes'[f].bodies # "none" /\ fpc' = "flows" /\ f \in flushing'
           /\ fin /\ f \in pending => writes'[f].bodies # "none"
           /\ fin => writes'[f].bodies # "pending"
           /\ writes'[f].bodies \in {"final", "pending"} => f \notin stored'
           /\ writes'[f].bodies = "stored" => f \in dirty /\ f \in stored'
           /\ writes'[f].bodies = "pending" => f \in flushing'
           /\ f \in flushing' => writes'[f].bodies # "none"
           /\ f \notin dirty => (f \in stored' <=> f \in stored)
           /\ fpc' \in {"frames", "commit"} => writes'[f].bodies = "none"
<1>1. /\ \A g \in Flows : writes'[g] = BatchWrite(g, fin)
      /\ flushing' = dirty
      /\ stored' = stored \ {g \in dirty : writes'[g].bodies \in {"final", "pending"}}
  BY DEF TakeBatch
<1>2. /\ f \in dirty => writes'[f].bodies = DirtyDisposition(f, fin)
      /\ f \notin dirty /\ f \in pending /\ (fin \/ bodiesSettled(dflows[f]))
            => writes'[f].bodies = "final"
      /\ f \notin dirty /\ ~(f \in pending /\ (fin \/ bodiesSettled(dflows[f])))
            => writes'[f].bodies = "none"
  BY <1>1, BatchWriteCases
<1>3. /\ DirtyDisposition(f, fin) \in {"stored", "final", "pending"}
      /\ DirtyDisposition(f, fin) = "stored" => f \in stored
      /\ fin => DirtyDisposition(f, fin) # "pending"
  BY DEF DirtyDisposition
<1>4. f \in pending => f \notin stored
  BY DEF OwedApart
<1>5. /\ writes'[f].bodies # "none" => fpc' = "flows"
      /\ fpc' \in {"frames", "commit"} => writes'[f].bodies = "none"
  BY <1>1 DEF TakeBatch, AfterBatch
<1> QED BY <1>1, <1>2, <1>3, <1>4, <1>5

-----------------------------------------------------------------------------
(* The invariant is kept.                                                    *)

\* Reports only grow, and everything else is copied from them.
LEMMA AheadStep ==
    ASSUME TypeOK, TypeOK', OrderInv, NothingAhead, [Next]_vars
    PROVE  NothingAhead'
<1> USE DEF decoderVars, hubVars, bookVars, batchVars, bundleVars, OrderInv
<1>1. ASSUME NEW f \in Flows, OnFlow(f) PROVE NothingAhead'
  <2> SUFFICES ASSUME NEW g \in Flows
               PROVE  /\ row[g].body <= dec'[g].body /\ row[g].ver <= dec'[g].ver
                      /\ quoted[g] <= dec'[g].body /\ flows[g] <= dec'[g].ver
                      /\ writes[g].snap.body <= dec'[g].body
                      /\ writes[g].snap.ver <= dec'[g].ver
                      /\ writes[g].ref <= dec'[g].body
    BY <1>1 DEF OnFlow, NothingAhead
  <2>1. /\ dec[g].body \in Nat /\ dec[g].ver \in Nat
        /\ dec'[g].body \in Nat /\ dec'[g].ver \in Nat
        /\ row[g].body \in Nat /\ row[g].ver \in Nat /\ quoted[g] \in Nat
        /\ flows[g] \in Nat /\ writes[g].snap.body \in Nat /\ writes[g].snap.ver \in Nat
        /\ writes[g].ref \in Nat
    <3>1. dec[g] \in Snap /\ dec'[g] \in Snap /\ writes[g] \in Write
      BY DEF TypeOK
    <3>2. writes[g].snap \in Snap /\ writes[g].ref \in 0..MaxBody
      BY <3>1 DEF Write
    <3>3. \A t \in Snap : t.ver \in Nat /\ t.body \in Nat
      BY BoundsAssumption DEF Snap
    <3>4. row[g] \in [ver : 0..MaxReports, body : 0..MaxBody]
      BY DEF TypeOK
    <3>5. quoted[g] \in 0..MaxBody /\ flows[g] \in 0..MaxReports
      BY DEF TypeOK
    <3> QED BY <3>1, <3>2, <3>3, <3>4, <3>5, BoundsAssumption
  <2>2. dec'[g] = dec[g] \/ dec'[g] \in NextSnaps(dec[g])
    BY <1>1 DEF OnFlow, TypeOK
  <2>3. dec'[g].body >= dec[g].body /\ dec'[g].ver >= dec[g].ver
    BY <2>1, <2>2 DEF NextSnaps
  <2> QED BY <2>1, <2>3 DEF NothingAhead
<1>2. ASSUME NEW f \in Flows, Publish(f) PROVE NothingAhead'
  <2>1. \A g \in Flows : flows'[g] = flows[g] \/ flows'[g] = dec[g].ver
    BY <1>2 DEF Publish, TypeOK
  <2>2. \A g \in Flows : dec[g].ver \in Nat
    BY BoundsAssumption DEF TypeOK, Snap
  <2> QED BY <1>2, <2>1, <2>2 DEF Publish, NothingAhead
<1>3. ASSUME NEW fin \in BOOLEAN, TakeBatch(fin), UNCHANGED <<dec, row, quoted, flows>>
      PROVE  NothingAhead'
  <2> SUFFICES ASSUME NEW f \in Flows
               PROVE  /\ writes'[f].snap.body <= dec[f].body
                      /\ writes'[f].snap.ver <= dec[f].ver
                      /\ writes'[f].ref <= dec[f].body
    BY <1>3 DEF NothingAhead
  <2>1. writes'[f] = BatchWrite(f, fin)
    BY <1>3 DEF TakeBatch
  <2> QED BY <2>1, BatchWriteFields, SnapshotFacts DEF NothingAhead, NoSnap
<1>4. CASE FlushBegin \/ FinalFlushBegin
  BY <1>3, <1>4 DEF FlushBegin, FinalFlushBegin
<1>5. CASE InsertFlowWrites
  <2>1. ASSUME NEW f \in Flows
        PROVE  /\ row'[f] = row[f] \/ (/\ row'[f].ver = writes[f].snap.ver
                                       /\ row'[f].body = RefWritten(writes[f]))
               /\ writes'[f].snap = writes[f].snap
               /\ writes'[f].ref = RefWritten(writes[f])
    BY <1>5 DEF InsertFlowWrites
  <2>2. ASSUME NEW f \in Flows PROVE RefWritten(writes[f]) <= dec[f].body
    <3>1. dec[f].body \in Nat
      BY BoundsAssumption DEF TypeOK, Snap
    <3> QED BY <3>1 DEF RefWritten, NothingAhead
  <2> QED BY <1>5, <2>1, <2>2 DEF InsertFlowWrites, NothingAhead
<1>6. CASE FlushCommit
  <2>1. ASSUME NEW f \in Flows
        PROVE  /\ quoted'[f] = quoted[f] \/ quoted'[f] = writes[f].ref
               /\ writes'[f] = NoWrite
               /\ dec[f].body \in Nat /\ dec[f].ver \in Nat
    <3>1. dec[f].body \in Nat /\ dec[f].ver \in Nat
      <4>1. dec[f] \in Snap
        BY DEF TypeOK
      <4> QED BY <4>1, BoundsAssumption DEF Snap
    <3>2. writes'[f] = NoWrite
      BY <1>6 DEF FlushCommit
    <3>3. quoted'[f] = quoted[f] \/ quoted'[f] = writes[f].ref
      BY <1>6 DEF FlushCommit
    <3> QED BY <3>1, <3>2, <3>3
  <2> QED BY <1>6, <2>1 DEF FlushCommit, NothingAhead, NoWrite, NoSnap
<1>7. CASE FlushFail
  <2>1. \A f \in Flows : writes'[f] = NoWrite /\ dec[f].body \in Nat /\ dec[f].ver \in Nat
    BY <1>7, BoundsAssumption DEF FlushFail, TypeOK, Snap
  <2> QED BY <1>7, <2>1 DEF FlushFail, NothingAhead, NoWrite, NoSnap
<1>8. ASSUME UNCHANGED <<dec, row, quoted, flows, writes>> PROVE NothingAhead'
  BY <1>8 DEF NothingAhead
<1> QED
  BY <1>1, <1>2, <1>4, <1>5, <1>6, <1>7, <1>8
     DEF Next, Terminated, PublishMessage, DecodeDrained, DecodePanicked, InsertMessages, FailReported,
         HubStop, StopFlusher, MarkClosed, FinalFlushRefused, vars

\* hub.stop joins the loop before it closes the session.
LEMMA LoopStep ==
    ASSUME TypeOK, OrderInv, LoopOrder, [Next]_vars
    PROVE  LoopOrder'
<1> USE DEF decoderVars, hubVars, bookVars, batchVars, bundleVars, OrderInv, CloseOrder, LoopOrder, closed
<1>1. ASSUME NEW f \in Flows, OnFlow(f) \/ Publish(f) \/ PublishMessage(f) PROVE LoopOrder'
  BY <1>1 DEF OnFlow, Publish, PublishMessage
<1>2. CASE FlushBegin \/ FinalFlushBegin
  BY <1>2 DEF FlushBegin, FinalFlushBegin, TakeBatch
<1>3. CASE InsertFlowWrites \/ InsertMessages \/ FlushCommit \/ FlushFail
  BY <1>3 DEF InsertFlowWrites, InsertMessages, FlushCommit, FlushFail, TypeOK
<1>4. CASE DecodeDrained \/ DecodePanicked \/ FailReported \/ HubStop \/ StopFlusher
           \/ MarkClosed \/ FinalFlushRefused \/ UNCHANGED vars
  BY <1>4 DEF DecodeDrained, DecodePanicked, FailReported, HubStop, StopFlusher, MarkClosed,
              FinalFlushRefused, vars
<1> QED BY <1>1, <1>2, <1>3, <1>4 DEF Next, Terminated

\* Bytes that left memory stay within a reader's reach while the session is open.
LEMMA OpenStep ==
    ASSUME TypeOK, TypeOK', BodyInv, LoopOrder, OpenBodies, [Next]_vars
    PROVE  OpenBodies'
<1> USE DEF decoderVars, hubVars, bookVars, batchVars, bundleVars, OrderInv
<1> DEFINE Goal == (GoneIsStored /\ GoneIsQuoted)'
<1> SUFFICES ASSUME Open' PROVE Goal
  BY DEF OpenBodies
<1>0. Open /\ PromiseInv /\ OrderInv /\ GoneIsStored /\ GoneIsQuoted
  <2>1. Open
    BY DEF Next, OnFlow, Publish, PublishMessage, DecodeDrained, DecodePanicked, FlushBegin,
           FinalFlushBegin, InsertFlowWrites, InsertMessages, FlushCommit, FlushFail, FailReported,
           HubStop, StopFlusher, MarkClosed, FinalFlushRefused, Terminated, vars, Open,
           CloseOrder, BodyInv
  <2> QED BY <2>1 DEF OpenBodies, BodyInv
<1>1. ASSUME NEW f \in Flows, OnFlow(f) PROVE Goal
  <2>1. /\ dflows'[f] = dec'[f]
        /\ \A g \in Flows : g # f =>
              dflows'[g] = dflows[g] /\ dec'[g] = dec[g] /\ promised'[g] = promised[g]
    BY <1>1 DEF OnFlow, TypeOK
  <2> QED BY <1>0, <1>1, <2>1 DEF OnFlow, GoneIsStored, GoneIsQuoted, Gone
<1>2. ASSUME NEW f \in Flows, Publish(f) \/ PublishMessage(f) PROVE Goal
  BY <1>0, <1>2 DEF Publish, PublishMessage, GoneIsStored, GoneIsQuoted, Gone
<1>3. CASE FlushBegin \/ FinalFlushBegin
  BY <1>0, <1>3, TakeBatchKeeps DEF FlushBegin, FinalFlushBegin
<1>4. CASE InsertFlowWrites
  <2>1. ASSUME NEW f \in Flows
        PROVE  /\ writes[f].bodies = "none" => row'[f] = row[f]
               /\ writes[f].bodies = "stored" => row'[f].body = writes[f].ref
    BY <1>4 DEF InsertFlowWrites, RefWritten
  <2>2. GoneIsStored'
    BY <1>0, <1>4, <2>1 DEF InsertFlowWrites, GoneIsStored, GoneIsQuoted, Gone
  <2> QED BY <1>4, <2>2 DEF InsertFlowWrites, GoneIsQuoted
<1>5. CASE InsertMessages
  BY <1>0, <1>5 DEF InsertMessages, GoneIsStored, GoneIsQuoted, Gone
<1>6. CASE FlushCommit
  <2>1. ~final
    BY <1>6 DEF FlushCommit, Open
  <2>2. Kept /\ FinalIsWhole /\ FinalLanded
    BY <1>6, <2>1 DEF FlushCommit, LoopOrder, Kept, BodyInv, TypeOK
  <2>3. ASSUME NEW f \in Settled
        PROVE  f \in Flows /\ promised[f] <= row[f].body /\ writes[f].ref = row[f].body
    BY <1>6, <2>2 DEF FlushCommit, Settled, FinalIsWhole, FinalLanded
  <2>4. ASSUME NEW f \in Flows
        PROVE  /\ f \notin Settled => dflows'[f] = dflows[f] /\ quoted'[f] = quoted[f]
               /\ f \in Settled => quoted'[f] = writes[f].ref
    BY <1>6 DEF FlushCommit, releaseBodies
  <2>5. GoneIsStored'
    BY <1>0, <1>6, <2>3, <2>4 DEF FlushCommit, GoneIsStored, Gone
  <2> QED BY <1>6, <2>5 DEF FlushCommit, GoneIsQuoted
<1>7. CASE FlushFail
  BY <1>0, <1>7 DEF FlushFail, GoneIsStored, GoneIsQuoted, Gone
<1>8. CASE DecodeDrained \/ DecodePanicked \/ FailReported \/ HubStop \/ StopFlusher
           \/ MarkClosed \/ FinalFlushRefused \/ UNCHANGED vars
  BY <1>0, <1>8 DEF DecodeDrained, DecodePanicked, FailReported, HubStop, StopFlusher, MarkClosed,
                    FinalFlushRefused, vars, GoneIsStored, GoneIsQuoted, Gone
<1> QED BY <1>1, <1>2, <1>3, <1>4, <1>5, <1>6, <1>7, <1>8 DEF Next, Terminated

\* The dispositions of a batch go with the books until it is committed or dropped.
LEMMA BatchStep ==
    ASSUME TypeOK, TypeOK', OrderInv, NothingAhead, InFlight, RowsAdvance, [Next]_vars
    PROVE  InFlight' /\ RowsAdvance'
<1> USE DEF decoderVars, hubVars, bookVars, batchVars, bundleVars, OrderInv
<1> DEFINE Goal == InFlight' /\ RowsAdvance'
<1>1. ASSUME UNCHANGED <<writes, stored, flushing, fpc, row>> PROVE Goal
  BY <1>1 DEF InFlight, RowsAdvance
<1>2. ASSUME NEW f \in Flows, OnFlow(f) \/ Publish(f) \/ PublishMessage(f) PROVE Goal
  BY <1>1, <1>2 DEF OnFlow, Publish, PublishMessage
<1>3. ASSUME NEW fin \in BOOLEAN, TakeBatch(fin), UNCHANGED row PROVE Goal
  <2>1. InFlight'
    BY <1>3, TakenWrites DEF InFlight
  <2>2. ASSUME NEW f \in Flows, writes'[f].bodies # "none"
        PROVE  row[f].ver <= writes'[f].snap.ver
    <3>1. writes'[f].snap = dflows[f]
      BY <1>3, <2>2, TakenWrites, BatchWriteFields
    <3> QED BY <3>1, SnapshotFacts DEF NothingAhead
  <2> QED BY <1>3, <2>1, <2>2 DEF RowsAdvance
<1>4. CASE FlushBegin \/ FinalFlushBegin
  BY <1>3, <1>4 DEF FlushBegin, FinalFlushBegin
<1>5. CASE InsertFlowWrites
  <2>1. \A f \in Flows : writes'[f].bodies = writes[f].bodies
    BY <1>5 DEF InsertFlowWrites
  <2> QED BY <1>5, <2>1 DEF InsertFlowWrites, InFlight, RowsAdvance
<1>6. CASE InsertMessages
  BY <1>6 DEF InsertMessages, InFlight, RowsAdvance
<1>7. CASE FlushCommit \/ FlushFail
  BY <1>7 DEF FlushCommit, FlushFail, InFlight, RowsAdvance
<1>8. CASE DecodeDrained \/ DecodePanicked \/ FailReported \/ HubStop \/ StopFlusher
           \/ MarkClosed \/ FinalFlushRefused \/ UNCHANGED vars
  BY <1>1, <1>8 DEF DecodeDrained, DecodePanicked, FailReported, HubStop, StopFlusher, MarkClosed,
                    FinalFlushRefused, vars
<1> QED BY <1>2, <1>4, <1>5, <1>6, <1>7, <1>8 DEF Next, Terminated

\* Nothing is added to the hub behind the final flush: the session is closed.
LEMMA FinalStep ==
    ASSUME TypeOK, OrderInv, FinalTakesAll, [Next]_vars
    PROVE  FinalTakesAll'
<1> USE DEF decoderVars, hubVars, bookVars, batchVars, bundleVars, OrderInv
<1>0. final => fpc # "idle" /\ closed
  BY DEF CloseOrder, closed
<1>1. ASSUME UNCHANGED <<final, flushErr, dirty, nmsgs, messages, pending, writes>>
      PROVE  FinalTakesAll'
  BY <1>1 DEF FinalTakesAll
<1>2. ASSUME NEW f \in Flows, OnFlow(f) PROVE FinalTakesAll'
  BY <1>1, <1>2 DEF OnFlow
<1>3. ASSUME NEW f \in Flows, Publish(f) \/ PublishMessage(f) PROVE FinalTakesAll'
  BY <1>0, <1>3 DEF Publish, PublishMessage, FinalTakesAll
<1>4. CASE FlushBegin
  BY <1>4 DEF FlushBegin, TakeBatch, FinalTakesAll
<1>5. CASE FinalFlushBegin
  <2>1. TakeBatch(TRUE) /\ OwedApart /\ pending \subseteq Flows
    BY <1>5 DEF FinalFlushBegin, TypeOK
  <2>2. /\ \A f \in pending : writes'[f].bodies # "none"
        /\ \A f \in Flows : writes'[f].bodies # "pending"
    BY <2>1, TakenWrites
  <2> QED BY <1>5, <2>1, <2>2 DEF FinalFlushBegin, TakeBatch, FinalTakesAll
<1>6. CASE InsertFlowWrites
  <2>1. \A f \in Flows : writes'[f].bodies = writes[f].bodies
    BY <1>6 DEF InsertFlowWrites
  <2> QED BY <1>6, <2>1 DEF InsertFlowWrites, FinalTakesAll, TypeOK
<1>7. CASE InsertMessages
  BY <1>1, <1>7 DEF InsertMessages
<1>8. CASE FlushCommit \/ FlushFail
  BY <1>8 DEF FlushCommit, FlushFail, FinalTakesAll
<1>9. CASE DecodeDrained \/ DecodePanicked \/ FailReported \/ HubStop \/ StopFlusher
           \/ MarkClosed \/ FinalFlushRefused \/ UNCHANGED vars
  BY <1>1, <1>9 DEF DecodeDrained, DecodePanicked, FailReported, HubStop, StopFlusher, MarkClosed,
                    FinalFlushRefused, vars
<1> QED BY <1>2, <1>3, <1>4, <1>5, <1>6, <1>7, <1>8, <1>9 DEF Next, Terminated

\* A failed write is remembered, and so is a session that could not be recorded.
LEMMA UnfailedBefore ==
    ASSUME TypeOK, OrderInv, [Next]_vars, Unfailed'
    PROVE  Unfailed
<1> USE DEF decoderVars, hubVars, bookVars, batchVars, bundleVars, OrderInv
<1>1. flushErr => flushErr'
  BY DEF Next, OnFlow, Publish, PublishMessage, DecodeDrained, DecodePanicked, FlushBegin,
         FinalFlushBegin, InsertFlowWrites, InsertMessages, FlushCommit, FlushFail, FailReported,
         HubStop, StopFlusher, MarkClosed, FinalFlushRefused, Terminated, vars
<1>2. ASSUME life = "unrecorded" PROVE life' = "unrecorded"
  <2>1. fpc # "idle" => ~final
    BY <1>2 DEF CloseOrder
  <2>2. CASE FlushCommit
    BY <1>2, <2>1, <2>2 DEF FlushCommit
  <2>3. CASE FlushFail
    BY <1>2, <2>1, <2>3 DEF FlushFail
  <2> QED BY <1>2, <2>2, <2>3
     DEF Next, OnFlow, Publish, PublishMessage, DecodeDrained, DecodePanicked, FlushBegin,
         FinalFlushBegin, InsertFlowWrites, InsertMessages, FailReported,
         HubStop, StopFlusher, MarkClosed, FinalFlushRefused, Terminated, vars
<1> QED BY <1>1, <1>2 DEF Unfailed

\* What viewers were told of a flow is never forgotten by a batch that succeeds.
LEMMA TrackedStep ==
    ASSUME TypeOK, TypeOK', OrderInv, NothingAhead, RowsAdvance, Tracked, [Next]_vars
    PROVE  Tracked'
<1> USE DEF decoderVars, hubVars, bookVars, batchVars, bundleVars, OrderInv
<1> SUFFICES ASSUME Unfailed' PROVE Tracked'
  BY DEF Tracked
<1>0. Unfailed
  BY UnfailedBefore
<1>1. ASSUME UNCHANGED <<flows, row, dirty, writes, fpc>> PROVE Tracked'
  BY <1>0, <1>1 DEF Tracked
<1>2. ASSUME NEW f \in Flows, OnFlow(f) PROVE Tracked'
  BY <1>1, <1>2 DEF OnFlow
<1>3. ASSUME NEW f \in Flows, Publish(f) PROVE Tracked'
  <2>1. \A g \in Flows : g # f => flows'[g] = flows[g]
    BY <1>3 DEF Publish, TypeOK
  <2>2. flows' = flows \/ f \in dirty'
    BY <1>3 DEF Publish, markDirty
  <2>3. dirty \subseteq dirty'
    BY <1>3 DEF Publish, markDirty
  <2> QED BY <1>0, <1>3, <2>1, <2>2, <2>3 DEF Publish, Tracked
<1>4. ASSUME NEW f \in Flows, PublishMessage(f) PROVE Tracked'
  BY <1>0, <1>4 DEF PublishMessage, markDirty, Tracked
<1>5. ASSUME NEW fin \in BOOLEAN, TakeBatch(fin), fpc = "idle", UNCHANGED <<flows, row>>
      PROVE  Tracked'
  <2>1. ASSUME NEW f \in Flows, f \in dirty
        PROVE  fpc' = "flows" /\ writes'[f].bodies # "none" /\ flows[f] <= writes'[f].snap.ver
    <3>1. writes'[f].bodies # "none" /\ fpc' = "flows" /\ writes'[f].snap = dflows[f]
      BY <1>5, <2>1, TakenWrites, BatchWriteFields
    <3> QED BY <3>1, SnapshotFacts DEF NothingAhead
  <2> QED BY <1>0, <1>5, <2>1 DEF Tracked
<1>6. CASE FlushBegin \/ FinalFlushBegin
  BY <1>5, <1>6 DEF FlushBegin, FinalFlushBegin
<1>7. CASE InsertFlowWrites
  <2>1. ASSUME NEW f \in Flows
        PROVE  /\ writes[f].bodies = "none" => row'[f] = row[f]
               /\ writes[f].bodies # "none" => row'[f].ver = writes[f].snap.ver
               /\ flows[f] \in Nat /\ row[f].ver \in Nat /\ writes[f].snap.ver \in Nat
    <3>1. row'[f] = IF writes[f].bodies = "none" THEN row[f]
                    ELSE [ver |-> writes[f].snap.ver,
                          body |-> RefWritten(writes[f])]
      BY <1>7 DEF InsertFlowWrites
    <3>2. flows[f] \in Nat /\ row[f].ver \in Nat
      BY BoundsAssumption DEF TypeOK
    <3>3. writes[f].snap.ver \in Nat
      <4>1. writes[f] \in Write
        BY DEF TypeOK
      <4>2. writes[f].snap \in Snap
        BY <4>1 DEF Write
      <4> QED BY <4>2, BoundsAssumption DEF Snap
    <3> QED BY <3>1, <3>2, <3>3
  <2> QED BY <1>0, <1>7, <2>1 DEF InsertFlowWrites, Tracked, RowsAdvance
<1>8. CASE InsertMessages
  BY <1>0, <1>8 DEF InsertMessages, Tracked
<1>9. CASE FlushCommit
  BY <1>0, <1>9 DEF FlushCommit, Tracked
<1>10. CASE FlushFail
  BY <1>10 DEF FlushFail, Unfailed
<1>11. CASE DecodeDrained \/ DecodePanicked \/ FailReported \/ HubStop \/ StopFlusher
           \/ MarkClosed \/ FinalFlushRefused \/ UNCHANGED vars
  BY <1>1, <1>11 DEF DecodeDrained, DecodePanicked, FailReported, HubStop, StopFlusher, MarkClosed,
                     FinalFlushRefused, vars
<1> QED BY <1>2, <1>3, <1>4, <1>6, <1>7, <1>8, <1>9, <1>10, <1>11 DEF Next, Terminated

\* A body that leaves memory leaves no less to keep.
LEMMA WholeStays ==
    ASSUME TypeOK, TypeOK', NEW f \in Flows, NEW ref \in Nat, Whole(f, ref),
           promised'[f] = promised[f], dflows'[f] = dflows[f] \/ dflows'[f] = Emptied(dflows[f])
    PROVE  Whole(f, ref)'
<1>1. dflows'[f].body = dflows[f].body \/ dflows'[f].body = 0
  BY DEF Emptied
<1> QED BY <1>1 DEF Whole

\* The ref given to a calm flow, and the row written of it, hold its whole bodies.
LEMMA WholeStep ==
    ASSUME TypeOK, TypeOK', BodyInv, NothingAhead, QuotedWhole, WrittenWhole, [Next]_vars
    PROVE  QuotedWhole' /\ WrittenWhole'
<1> USE DEF decoderVars, hubVars, bookVars, batchVars, bundleVars, OrderInv
<1> DEFINE Goal == QuotedWhole' /\ WrittenWhole'
<1> SUFFICES ASSUME Kept' PROVE Goal
  BY DEF QuotedWhole, WrittenWhole
<1>0. Kept /\ PromiseInv /\ OrderInv /\ GoneIsStored /\ FinalIsWhole
  BY KeptBefore DEF BodyInv
<1>1. ASSUME UNCHANGED <<dflows, promised, handing, dirty, writes, row, fpc>> PROVE Goal
  BY <1>0, <1>1 DEF QuotedWhole, WrittenWhole, Calm, Whole, RefWritten
<1>2. ASSUME NEW f \in Flows, OnFlow(f) PROVE Goal
  <2>1. \A g \in Flows : Calm(g)' => /\ Calm(g)
                                   /\ dflows'[g] = dflows[g] /\ promised'[g] = promised[g]
    BY <1>2 DEF OnFlow, Calm, TypeOK
  <2>2. UNCHANGED <<writes, row, fpc>>
    BY <1>2 DEF OnFlow
  <2> QED BY <1>0, <2>1, <2>2 DEF QuotedWhole, WrittenWhole, Whole, RefWritten
<1>3. ASSUME NEW f \in Flows, Publish(f) PROVE Goal
  <2>1. ~closed
    BY <1>0, <1>3 DEF Publish, CloseOrder, Kept, TypeOK
  <2>2. \A g \in Flows : Calm(g)' => Calm(g)
    BY <1>3, <2>1 DEF Publish, Calm, markDirty
  <2> QED BY <1>0, <1>3, <2>2 DEF Publish, QuotedWhole, WrittenWhole, Whole, RefWritten
<1>4. ASSUME NEW f \in Flows, PublishMessage(f) PROVE Goal
  <2>1. \A g \in Flows : Calm(g)' => Calm(g)
    BY <1>4 DEF PublishMessage, Calm, markDirty
  <2> QED BY <1>0, <1>4, <2>1 DEF PublishMessage, QuotedWhole, WrittenWhole, Whole, RefWritten
<1>5. ASSUME NEW fin \in BOOLEAN, TakeBatch(fin),
             UNCHANGED <<dec, dflows, pending, promised, quoted, row>>
      PROVE  Goal
  <2>0. ASSUME NEW f \in Flows
        PROVE  /\ quoted[f] \in Nat /\ dec[f].body \in Nat /\ quoted[f] <= dec[f].body
               /\ promised[f] \in Nat /\ promised[f] <= dec[f].body
    BY <1>0, BoundsAssumption DEF TypeOK, Snap, NothingAhead, PromiseInv
  <2>1. ASSUME NEW f \in Flows, writes'[f].bodies = "stored"
        PROVE  Whole(f, writes'[f].ref)
    <3>1. f \in dirty /\ DirtyDisposition(f, fin) = "stored"
      BY <1>0, <1>5, <2>1, TakenWrites
    <3>2. writes'[f].ref = quoted[f]
      BY <1>0, <1>5, <3>1, TakenWrites, BatchWriteCases
    <3>3. dflows[f].body = 0 \/ dflows[f].body = quoted[f]
      BY <3>1 DEF DirtyDisposition, changedSince
    <3>4. promised[f] <= quoted[f]
      <4>1. CASE Gone(f)
        BY <1>0, <4>1 DEF GoneIsStored
      <4>2. CASE ~Gone(f)
        BY <2>0, <3>3, <4>2 DEF Gone
      <4> QED BY <4>1, <4>2
    <3> QED BY <2>0, <3>2, <3>3, <3>4 DEF Whole
  <2>2. ASSUME NEW f \in Flows, writes'[f].bodies = "final"
        PROVE  Whole(f, writes'[f].snap.body)
    <3>1. writes'[f].snap = dflows[f]
      BY <1>0, <1>5, <2>2, TakenWrites, BatchWriteFields
    <3>2. promised[f] <= writes'[f].snap.body
      <4>1. FinalIsWhole'
        BY <1>0, <1>5, TakeBatchKeeps
      <4> QED BY <1>5, <2>2, <4>1 DEF FinalIsWhole
    <3>3. dflows[f].body \in Nat
      BY <1>0, <2>0, SnapshotFacts
    <3> QED BY <3>1, <3>2, <3>3 DEF Whole
  <2>3. QuotedWhole'
    BY <1>5, <2>1, <2>2 DEF QuotedWhole, RefWritten, Whole
  <2>4. WrittenWhole'
    BY <1>0, <1>5, TakenWrites DEF WrittenWhole
  <2> QED BY <2>3, <2>4
<1>6. CASE FlushBegin \/ FinalFlushBegin
  BY <1>5, <1>6 DEF FlushBegin, FinalFlushBegin
<1>7. CASE InsertFlowWrites
  <2>1. ASSUME NEW f \in Flows
        PROVE  /\ writes'[f].bodies = writes[f].bodies
               /\ writes[f].bodies # "none" => row'[f].body = RefWritten(writes[f])
    BY <1>7 DEF InsertFlowWrites
  <2>2. /\ fpc = "flows" /\ fpc' # "flows"
        /\ UNCHANGED <<dflows, promised, handing, dirty>>
    BY <1>7 DEF InsertFlowWrites
  <2>3. WrittenWhole'
    BY <1>0, <2>1, <2>2 DEF WrittenWhole, QuotedWhole, Calm, Whole
  <2> QED BY <2>2, <2>3 DEF QuotedWhole
<1>8. CASE InsertMessages
  BY <1>0, <1>8 DEF InsertMessages, QuotedWhole, WrittenWhole, Calm, Whole
<1>9. CASE FlushCommit \/ FlushFail
  BY <1>9 DEF FlushCommit, FlushFail, QuotedWhole, WrittenWhole
<1>10. CASE DecodeDrained \/ DecodePanicked \/ FailReported \/ HubStop \/ StopFlusher
            \/ MarkClosed \/ FinalFlushRefused \/ UNCHANGED vars
  BY <1>1, <1>10 DEF DecodeDrained, DecodePanicked, FailReported, HubStop, StopFlusher, MarkClosed,
                     FinalFlushRefused, vars
<1> QED BY <1>2, <1>3, <1>4, <1>6, <1>7, <1>8, <1>9, <1>10 DEF Next, Terminated

\* A published flow's bodies are never dropped from the books before they are stored.
LEMMA OwedStep ==
    ASSUME TypeOK, TypeOK', BodyInv, InFlight, QuotedWhole, WrittenWhole, BodiesOwed, [Next]_vars
    PROVE  BodiesOwed'
<1> USE DEF decoderVars, hubVars, bookVars, batchVars, bundleVars, OrderInv
<1> SUFFICES ASSUME Kept', Unfailed' PROVE BodiesOwed'
  BY DEF BodiesOwed
<1>0. Unfailed /\ Kept /\ OrderInv /\ FinalIsWhole
  BY UnfailedBefore, KeptBefore DEF BodyInv
<1>1. ASSUME UNCHANGED <<dflows, promised, flows, handing, dirty, pending, stored, row, fpc,
                         flushing, writes>>
      PROVE  BodiesOwed'
  BY <1>0, <1>1 DEF BodiesOwed, Calm, Whole
<1>2. ASSUME NEW f \in Flows, OnFlow(f) PROVE BodiesOwed'
  <2>1. \A g \in Flows : Calm(g)' => /\ Calm(g)
                                   /\ dflows'[g] = dflows[g] /\ promised'[g] = promised[g]
    BY <1>2 DEF OnFlow, Calm, TypeOK
  <2> QED BY <1>0, <1>2, <2>1 DEF OnFlow, BodiesOwed, Whole
<1>3. ASSUME NEW f \in Flows, Publish(f) PROVE BodiesOwed'
  <2>1. ~closed
    BY <1>0, <1>3 DEF Publish, CloseOrder, Kept, TypeOK
  <2>2. \A g \in Flows : Calm(g)' => Calm(g) /\ flows'[g] = flows[g]
    BY <1>3, <2>1 DEF Publish, Calm, markDirty, TypeOK
  <2> QED BY <1>0, <1>3, <2>2 DEF Publish, BodiesOwed, Whole
<1>4. ASSUME NEW f \in Flows, PublishMessage(f) PROVE BodiesOwed'
  <2>1. \A g \in Flows : Calm(g)' => Calm(g)
    BY <1>4 DEF PublishMessage, Calm, markDirty
  <2> QED BY <1>0, <1>4, <2>1 DEF PublishMessage, BodiesOwed, Whole
<1>5. ASSUME NEW fin \in BOOLEAN, TakeBatch(fin), fpc = "idle",
             UNCHANGED <<dflows, promised, flows, handing, pending, row>>
      PROVE  BodiesOwed'
  <2>1. \A f \in Flows :
           /\ f \in dirty => fpc' # "idle" /\ f \in flushing' /\ writes'[f].bodies # "none"
           /\ f \notin dirty => (f \in stored' <=> f \in stored)
    BY <1>0, <1>5, TakenWrites
  <2> QED BY <1>0, <1>5, <2>1 DEF BodiesOwed, Calm, Whole
<1>6. CASE FlushBegin \/ FinalFlushBegin
  BY <1>5, <1>6 DEF FlushBegin, FinalFlushBegin
<1>7. CASE InsertFlowWrites
  <2>1. /\ fpc = "flows" /\ fpc' # "idle"
        /\ UNCHANGED <<dflows, promised, flows, handing, dirty, pending, stored, flushing>>
    BY <1>7 DEF InsertFlowWrites
  <2>2. ASSUME NEW f \in Flows
        PROVE  /\ writes'[f].bodies = writes[f].bodies
               /\ writes[f].bodies = "none" => row'[f] = row[f]
               /\ writes[f].bodies # "none" => row'[f].body = RefWritten(writes[f])
               /\ writes[f].bodies \in Dispositions
    BY <1>7 DEF InsertFlowWrites, TypeOK, Write
  <2>3. ASSUME NEW f \in Flows, f \in stored, Whole(f, row[f].body), Calm(f)
        PROVE  Whole(f, row'[f].body)
    BY <1>0, <2>1, <2>2, <2>3 DEF InFlight, QuotedWhole, Dispositions
  <2> QED BY <1>0, <2>1, <2>2, <2>3 DEF BodiesOwed, Calm, Whole
<1>8. CASE InsertMessages
  BY <1>0, <1>8 DEF InsertMessages, BodiesOwed, Calm, Whole
<1>9. CASE FlushCommit
  <2>1. /\ fpc = "commit"
        /\ stored' = stored \cup Settled
        /\ pending' = (pending \ Settled) \cup (flushing \ stored')
        /\ UNCHANGED <<promised, flows, handing, dirty, row>>
    BY <1>9 DEF FlushCommit
  <2>2. ASSUME NEW f \in Flows, Whole(f, row[f].body) PROVE Whole(f, row[f].body)'
    <3>1. dflows'[f] = dflows[f] \/ dflows'[f] = Emptied(dflows[f])
      BY <1>9 DEF FlushCommit, releaseBodies
    <3>2. row[f].body \in Nat
      BY BoundsAssumption DEF TypeOK
    <3> QED BY <2>1, <2>2, <3>1, <3>2, WholeStays DEF Whole
  <2> SUFFICES ASSUME NEW f \in Flows, flows[f] > 0, Calm(f)
               PROVE  f \in pending' \/ (f \in stored' /\ Whole(f, row[f].body))
    BY <2>1, <2>2 DEF BodiesOwed, Calm
  <2>3. f \in Settled <=> writes[f].bodies = "final"
    BY DEF Settled, Calm
  <2>4. writes[f].bodies \in {"final", "stored"} => Whole(f, row[f].body)
    BY <1>0, <2>1 DEF WrittenWhole
  <2>5. CASE f \in Settled
    BY <2>1, <2>3, <2>4, <2>5
  <2>6. CASE f \notin Settled /\ f \in flushing /\ writes[f].bodies # "none"
    <3>1. writes[f].bodies \in {"pending", "stored"}
      BY <2>3, <2>6 DEF TypeOK, Write, Dispositions
    <3> QED BY <2>1, <2>4, <2>6, <3>1 DEF InFlight
  <2>7. CASE f \notin Settled /\ (f \in pending \/ (f \in stored /\ Whole(f, row[f].body)))
    BY <2>1, <2>7
  <2> QED BY <1>0, <2>5, <2>6, <2>7 DEF BodiesOwed
<1>10. CASE FlushFail
  BY <1>10 DEF FlushFail, Unfailed
<1>11. CASE DecodeDrained \/ DecodePanicked \/ FailReported \/ HubStop \/ StopFlusher
            \/ MarkClosed \/ FinalFlushRefused \/ UNCHANGED vars
  BY <1>1, <1>11 DEF DecodeDrained, DecodePanicked, FailReported, HubStop, StopFlusher, MarkClosed,
                     FinalFlushRefused, vars
<1> QED BY <1>2, <1>3, <1>4, <1>6, <1>7, <1>8, <1>9, <1>10, <1>11 DEF Next, Terminated

\* The final flush leaves nothing in the hub, and nothing enters a closed session.
LEMMA RecordedStep ==
    ASSUME TypeOK, OrderInv, LoopOrder, InFlight, FinalTakesAll, FramesInv,
           RecordedOwesNothing, [Next]_vars
    PROVE  RecordedOwesNothing'
<1> USE DEF decoderVars, hubVars, bookVars, batchVars, bundleVars, OrderInv
<1> SUFFICES ASSUME life' = "recorded"
             PROVE  dirty' = {} /\ pending' = {} /\ ~flushErr' /\ Accepted' \subseteq saved'
  BY DEF RecordedOwesNothing
<1>1. CASE life = "recorded"
  <2>1. fpc = "idle" /\ loop = "exited" /\ closed
    BY <1>1 DEF CloseOrder, LoopOrder, closed, TypeOK
  <2>2. UNCHANGED <<dirty, pending, flushErr, frames, saved>>
    BY <1>1, <2>1 DEF Next, OnFlow, Publish, PublishMessage, DecodeDrained, DecodePanicked, FlushBegin,
           FinalFlushBegin, InsertFlowWrites, InsertMessages, FlushCommit, FlushFail, FailReported,
           HubStop, StopFlusher, MarkClosed, FinalFlushRefused, Terminated, vars
  <2> QED BY <1>1, <2>2 DEF RecordedOwesNothing, Accepted
<1>2. CASE life # "recorded"
  <2>1. FlushCommit /\ final
    BY <1>2 DEF Next, OnFlow, Publish, PublishMessage, DecodeDrained, DecodePanicked, FlushBegin,
           FinalFlushBegin, InsertFlowWrites, InsertMessages, FlushCommit, FlushFail, FailReported,
           HubStop, StopFlusher, MarkClosed, FinalFlushRefused, Terminated, vars
  <2>2. /\ fpc = "commit"
        /\ dirty' = dirty /\ flushErr' = flushErr /\ frames' = frames /\ saved' = saved
        /\ stored' = stored \cup Settled
        /\ pending' = (pending \ Settled) \cup (flushing \ stored')
    BY <2>1 DEF FlushCommit
  <2>3. dirty = {} /\ ~flushErr /\ nmsgs = Len(messages)
    BY <2>1 DEF FinalTakesAll
  <2>4. ASSUME NEW f \in Flows, writes[f].bodies # "none"
        PROVE  f \in Settled \/ f \in stored
    <3>1. writes[f].bodies \in {"final", "stored"}
      BY <2>1, <2>4 DEF FinalTakesAll, TypeOK, Write, Dispositions
    <3> QED BY <2>2, <2>3, <3>1 DEF Settled, InFlight
  <2>5. pending' = {}
    <3>1. \A f \in pending : f \in Settled
      BY <2>1, <2>4 DEF FinalTakesAll, OwedApart, TypeOK
    <3>2. \A f \in flushing : f \in stored'
      BY <2>2, <2>4 DEF InFlight, TypeOK
    <3> QED BY <2>2, <3>1, <3>2
  <2>6. Accepted \subseteq saved
    <3> SUFFICES ASSUME NEW m \in Accepted, m \notin saved PROVE FALSE
      OBVIOUS
    <3>1. PICK i \in 1..Len(messages) : messages[i] = m
      BY DEF FramesInv, NoneMissing
    <3> QED BY <2>2, <2>3, <3>1 DEF FramesInv, TrimmedAreSaved
  <2> QED BY <2>2, <2>3, <2>5, <2>6 DEF Accepted
<1> QED BY <1>1, <1>2

-----------------------------------------------------------------------------
RefInv == TypeOK /\ BodyInv /\ FramesInv /\ RecordInv

LEMMA RefInit == Init => BodyInv /\ FramesInv /\ RecordInv
<1> SUFFICES ASSUME Init PROVE BodyInv /\ FramesInv /\ RecordInv
  OBVIOUS
<1>2. FramesInv
  BY DEF Init, FramesInv, OnlyAccepted, NoneMissing, NoneTwice, TrimmedAreSaved, Accepted, Frame
<1>3. BooksInv
  BY DEF Init, BooksInv, NothingAhead, LoopOrder, OpenBodies, GoneIsStored, GoneIsQuoted, Gone,
         InFlight, RowsAdvance, FinalTakesAll, NoWrite, NoSnap, closed
<1>4. Tracked /\ QuotedWhole /\ WrittenWhole /\ BodiesOwed /\ RecordedOwesNothing
  BY DEF Init, Tracked, QuotedWhole, WrittenWhole, BodiesOwed, RecordedOwesNothing
<1> QED BY <1>2, <1>3, <1>4, BodyInit DEF RecordInv

LEMMA RefStep ==
    ASSUME TypeOK', RefInv, [Next]_vars
    PROVE  RefInv'
<1> USE DEF RefInv, RecordInv, BooksInv
<1>1. OrderInv
  BY DEF BodyInv
<1>2. BodyInv' /\ FramesInv'
  BY BodyStep, FramesStep
<1>3. BooksInv'
  BY <1>1, AheadStep, LoopStep, OpenStep, BatchStep, FinalStep
<1>4. Tracked' /\ QuotedWhole' /\ WrittenWhole' /\ BodiesOwed' /\ RecordedOwesNothing'
  BY <1>1, TrackedStep, WholeStep, OwedStep, RecordedStep
<1> QED BY <1>2, <1>3, <1>4

\* The final flush leaves every flow and every frame in the bundle (persistLive,
\* ingest.go:777): rows at the version viewers were told of, with all that was reported
\* of their bodies until they were done, whatever was flushed, released and reported
\* again before.
THEOREM RecordIsComplete == Spec => []RecordedComplete
<1>1. TypeOK' /\ RefInv /\ [Next]_vars => RefInv'
  BY RefStep
<1>2. RefInv => RecordedComplete
  <2> SUFFICES ASSUME RefInv, life = "recorded"
               PROVE  /\ \A f \in Flows : flows[f] > 0 =>
                            /\ row[f].ver >= flows[f]
                            /\ decode = "drained" => row[f].body >= promised[f]
                      /\ \A f \in Flows : \A k \in 1..frames[f] : <<f, k>> \in saved
    BY DEF RecordedComplete
  <2>1. OrderInv /\ LoopOrder /\ RecordedOwesNothing /\ Tracked /\ BodiesOwed /\ TypeOK
    BY DEF RefInv, RecordInv, BooksInv, BodyInv
  <2>2. /\ dirty = {} /\ pending = {} /\ ~flushErr /\ Accepted \subseteq saved
        /\ fpc = "idle"
    BY <2>1 DEF RecordedOwesNothing, OrderInv, CloseOrder, LoopOrder, closed, TypeOK
  <2>3. ASSUME NEW f \in Flows PROVE row[f].ver >= flows[f]
    <3>1. flows[f] \in Nat /\ row[f].ver \in Nat
      BY <2>1, BoundsAssumption DEF TypeOK
    <3> QED BY <2>1, <2>2, <3>1 DEF Tracked, Unfailed
  <2>4. ASSUME NEW f \in Flows, flows[f] > 0, decode = "drained"
        PROVE  row[f].body >= promised[f]
    <3>1. Calm(f) /\ Kept
      BY <2>1, <2>2, <2>4 DEF OrderInv, CloseOrder, Calm, Kept
    <3>2. row[f].body \in Nat /\ promised[f] \in Nat
      BY <2>1, BoundsAssumption DEF TypeOK
    <3> QED BY <2>1, <2>2, <2>4, <3>1, <3>2 DEF BodiesOwed, Unfailed, Whole
  <2>5. ASSUME NEW f \in Flows, NEW k \in 1..frames[f] PROVE <<f, k>> \in saved
    <3>1. <<f, k>> \in Accepted
      BY <2>1, BoundsAssumption DEF Accepted, Frame, TypeOK
    <3> QED BY <2>2, <3>1
  <2> QED BY <2>3, <2>4, <2>5
<1> QED BY RefInit, <1>1, <1>2, TypeCorrect, PTL DEF Spec, RefInv

-----------------------------------------------------------------------------
(* The simulation.                                                           *)

\* What a reader can have lies between the row and the decoder's last report.
LEMMA ReadableBounds ==
    ASSUME RefInv, NEW f \in Flows
    PROVE  /\ Reach(f) \in Nat /\ row[f].body \in Nat /\ dec[f].body \in Nat
           /\ dflows[f].body \in Nat
           /\ row[f].body <= Reach(f) /\ Reach(f) <= dec[f].body
           /\ dflows[f].body <= Reach(f)
           /\ Reach(f) = row[f].body \/ Reach(f) = dflows[f].body
<1>1. SnapshotIsDecoders /\ TypeOK /\ NothingAhead
  BY DEF RefInv, RecordInv, BooksInv, BodyInv, OrderInv
<1>2. row[f].body \in Nat /\ row[f].body <= dec[f].body
  BY <1>1, BoundsAssumption DEF NothingAhead, TypeOK
<1> QED BY <1>1, <1>2, SnapshotFacts DEF Reach

PromisedIsReadable ==
    \A f \in Flows :
        /\ promised[f] <= Reach(f)
        /\ ~dec[f].done => Reach(f) = dec[f].body

\* While the session is open, a reader can have all that was promised.
LEMMA PromisedReadable == RefInv /\ Open => PromisedIsReadable
<1> SUFFICES ASSUME RefInv, Open, NEW f \in Flows
             PROVE  promised[f] <= Reach(f) /\ (~dec[f].done => Reach(f) = dec[f].body)
  BY DEF PromisedIsReadable
<1>1. TypeOK /\ PromiseInv /\ GoneIsStored
  BY DEF RefInv, RecordInv, BooksInv, BodyInv, OpenBodies
<1>2. promised[f] \in Nat
  BY <1>1, BoundsAssumption DEF TypeOK
<1> QED BY <1>1, <1>2, ReadableBounds DEF PromiseInv, GoneIsStored, Gone

LEMMA PromisedReadableNext == RefInv' /\ Open' => PromisedIsReadable'
  BY PromisedReadable, PTL

\* onFlow's first section: a report, of bodies that have only grown.
LEMMA OnFlowHears ==
    ASSUME RefInv, RefInv', NEW f \in Flows, OnFlow(f)
    PROVE  Record!Hear(f)
<1> USE DEF decoderVars, hubVars, bookVars, batchVars, bundleVars
<1> DEFINE Done == {g \in Flows : dec[g].done}
<1>1. TypeOK /\ TypeOK' /\ NothingAhead
  BY DEF RefInv, RecordInv, BooksInv
<1>2. /\ dec' = [dec EXCEPT ![f] = dec'[f]] /\ dec'[f] \in NextSnaps(dec[f])
      /\ dflows' = [dflows EXCEPT ![f] = dec'[f]]
      /\ promised' = IF dec[f].done THEN promised ELSE [promised EXCEPT ![f] = dec'[f].body]
      /\ UNCHANGED <<decode, frames, flows, row, saved, life>>
  BY <1>1 DEF OnFlow, TypeOK
<1>3. /\ dec'[f].ver = dec[f].ver + 1 /\ dec'[f].body >= dec[f].body /\ dflows'[f] = dec'[f]
      /\ dec[f].done => dec'[f].done
  BY <1>1, <1>2 DEF NextSnaps, TypeOK
<1>4. \A g \in Flows : g # f => dec'[g] = dec[g] /\ Reach(g)' = Reach(g)
  BY <1>1, <1>2 DEF TypeOK, Reach
<1>5. Reach(f)' >= Reach(f) /\ Reach(f)' = dec'[f].body
  <2>1. dec'[f].body \in Nat
    BY <1>1, BoundsAssumption DEF TypeOK, Snap
  <2>2. Reach(f)' = IF row[f].body > dec'[f].body THEN row[f].body ELSE dec'[f].body
    BY <1>2, <1>3 DEF Reach
  <2>3. row[f].body <= dec[f].body
    BY <1>1 DEF NothingAhead
  <2> QED BY <1>3, <2>1, <2>2, <2>3, ReadableBounds
<1>6. [g \in Flows |-> dec'[g].ver] = [[g \in Flows |-> dec[g].ver] EXCEPT ![f] = @ + 1]
  BY <1>3, <1>4
<1>7. [g \in Flows |-> Reach(g)'] = [[g \in Flows |-> Reach(g)] EXCEPT ![f] = Reach(f)']
  BY <1>4
<1>8. Done' \in {Done, Done \cup {f}}
  BY <1>3, <1>4
<1>9. promised' = IF f \in Done THEN promised ELSE [promised EXCEPT ![f] = Reach(f)']
  BY <1>2, <1>5
<1> HIDE DEF Done
<1> QED BY <1>2, <1>5, <1>6, <1>7, <1>8, <1>9 DEF Record!Hear, Outcome, Done

\* Phase 2 writes rows no reader can tell from what it had.
LEMMA InsertKeeps ==
    ASSUME RefInv, RefInv', InsertFlowWrites
    PROVE  Record!KeepFlows
<1> USE DEF decoderVars, hubVars, bookVars, batchVars, bundleVars
<1>1. /\ TypeOK /\ NothingAhead /\ NothingAhead' /\ RowsAdvance /\ LoopOrder /\ CloseOrder
      /\ SnapshotIsDecoders /\ OpenBodies
  BY DEF RefInv, RecordInv, BooksInv, BodyInv, OrderInv
<1>2. /\ fpc = "flows"
      /\ UNCHANGED <<dec, decode, frames, promised, dflows, flows, saved, life>>
  BY DEF InsertFlowWrites
<1>3. Open
  BY <1>1, <1>2 DEF LoopOrder, CloseOrder, closed, Open
<1>4. ASSUME NEW f \in Flows
      PROVE  /\ writes[f].bodies = "none" => row'[f] = row[f]
             /\ writes[f].bodies # "none" => /\ row'[f].ver = writes[f].snap.ver
                                             /\ row'[f].body = RefWritten(writes[f])
             /\ row'[f].ver <= dec[f].ver /\ row'[f].body <= dec[f].body
             /\ row[f].ver \in Nat /\ row'[f].body \in Nat
  BY <1>1, <1>2, BoundsAssumption DEF InsertFlowWrites, NothingAhead, RefInv, TypeOK
<1>5. ASSUME NEW f \in Flows
      PROVE  Reach(f)' = Reach(f) /\ row'[f].body <= Reach(f)
  <2>1. CASE Gone(f)
    <3>1. row'[f].body = row[f].body
      BY <1>1, <1>2, <1>3, <1>4, <2>1 DEF OpenBodies, GoneIsStored, GoneIsQuoted, RefWritten
    <3> QED BY <1>2, <3>1, ReadableBounds DEF Reach
  <2>2. CASE ~Gone(f)
    BY <1>2, <1>4, <2>2, ReadableBounds DEF Reach, Gone
  <2> QED BY <2>1, <2>2
<1>6. \A f \in Flows : row'[f].ver >= row[f].ver
  BY <1>1, <1>2, <1>4 DEF RowsAdvance
<1> QED BY <1>2, <1>3, <1>4, <1>5, <1>6 DEF Record!KeepFlows, Outcome, Open

\* ... and frames that are new to the bundle, or none.
LEMMA InsertKeepsFrames ==
    ASSUME RefInv, RefInv', InsertMessages, saved' # saved
    PROVE  Record!KeepFrames
<1> USE DEF decoderVars, hubVars, bookVars, batchVars, bundleVars
<1>1. LoopOrder /\ CloseOrder /\ OnlyAccepted'
  BY DEF RefInv, RecordInv, BooksInv, BodyInv, OrderInv, FramesInv
<1>2. /\ fpc = "frames" /\ saved \subseteq saved'
      /\ UNCHANGED <<dec, decode, frames, promised, dflows, flows, row, life>>
  BY DEF InsertMessages
<1>3. Open
  BY <1>1, <1>2 DEF LoopOrder, CloseOrder, closed, Open
<1>4. saved' \subseteq Record!Arrived
  BY <1>1, <1>2 DEF OnlyAccepted, Accepted, Frame, Record!Arrived
<1>5. \A f \in Flows : Reach(f)' = Reach(f)
  BY <1>2 DEF Reach
<1> QED BY <1>2, <1>3, <1>4, <1>5 DEF Record!KeepFrames, Outcome, Open

\* Phase 3 of a flush in the middle of a session takes nothing from a reader but what
\* a decoder reported after it was done.
LEMMA CommitLosesLate ==
    ASSUME RefInv, RefInv', FlushCommit, ~final
    PROVE  Record!LoseLate
<1> USE DEF decoderVars, hubVars, bookVars, batchVars, bundleVars
<1>1. LoopOrder /\ TypeOK
  BY DEF RefInv, RecordInv, BooksInv
<1>2. /\ fpc = "commit" /\ UNCHANGED <<dec, decode, frames, promised, flows, row, saved, life>>
  BY DEF FlushCommit
<1>3. Open /\ Open'
  BY <1>1, <1>2 DEF LoopOrder, closed, Open
<1>4. PromisedIsReadable /\ PromisedIsReadable'
  BY <1>3, PromisedReadable, PromisedReadableNext
<1>5. ASSUME NEW f \in Flows
      PROVE  /\ Reach(f)' <= Reach(f) /\ Reach(f)' >= promised[f]
             /\ ~dec[f].done => Reach(f)' = Reach(f)
  <2>1. dflows'[f].body = dflows[f].body \/ dflows'[f].body = 0
    BY DEF FlushCommit, releaseBodies, Emptied
  <2>2. Reach(f)' <= Reach(f) /\ Reach(f)' \in Nat
    BY <1>2, <2>1, ReadableBounds DEF Reach
  <2>3. promised[f] \in Nat
    BY <1>1, BoundsAssumption DEF TypeOK
  <2> QED BY <1>2, <1>4, <2>2, <2>3 DEF PromisedIsReadable
<1> QED BY <1>2, <1>3, <1>5 DEF Record!LoseLate, Outcome, Open

\* Phase 3 of the final flush records the session.
LEMMA CommitSettles ==
    ASSUME RefInv, RefInv', FlushCommit, final
    PROVE  Record!Settle
<1> USE DEF decoderVars, hubVars, bookVars, batchVars, bundleVars
<1>1. /\ TypeOK /\ OrderInv /\ CloseOrder /\ LoopOrder /\ WrittenWhole /\ BodiesOwed /\ InFlight
      /\ FinalTakesAll /\ Tracked' /\ BodiesOwed' /\ RecordedOwesNothing'
  BY DEF RefInv, RecordInv, BooksInv, BodyInv, OrderInv
<1>2. /\ fpc = "commit" /\ fpc' = "idle" /\ life' = "recorded"
      /\ UNCHANGED <<dec, decode, handing, frames, promised, flows, row, saved, dirty, flushErr>>
  BY DEF FlushCommit
<1>3. life = "closed" /\ closed /\ closed' /\ Open
  BY <1>1, <1>2 DEF CloseOrder, closed, Open
<1>4. dirty' = {} /\ pending' = {} /\ ~flushErr' /\ Accepted' \subseteq saved
  BY <1>1, <1>2 DEF RecordedOwesNothing
<1>5. \A f \in Flows : flows[f] <= row[f].ver
  BY <1>1, <1>2, <1>4 DEF Tracked, Unfailed
<1>6. ASSUME decode # "panicked", NEW f \in Flows
      PROVE  /\ Kept' /\ Calm(f)' /\ Calm(f) /\ Kept
             /\ flows[f] > 0 => Whole(f, row[f].body)'
  <2>1. Kept' /\ Calm(f)' /\ Calm(f) /\ Kept
    BY <1>1, <1>2, <1>3, <1>4, <1>6 DEF CloseOrder, Kept, Calm, TypeOK
  <2> QED BY <1>1, <1>2, <1>4, <2>1 DEF BodiesOwed, Unfailed, Whole
<1>7. ASSUME NEW f \in Flows
      PROVE  /\ row[f].body <= Reach(f)' /\ Reach(f)' <= Reach(f)
             /\ decode # "panicked" => Reach(f)' = Reach(f)
             /\ decode # "panicked" /\ flows[f] > 0 => row[f].body = Reach(f)
  <2>1. /\ f \in Settled => dflows'[f].body = 0
        /\ f \notin Settled => dflows'[f] = dflows[f]
    BY DEF FlushCommit, releaseBodies, Emptied
  <2>2. CASE f \in Settled
    <3>1. decode # "panicked" => dflows[f].body <= row[f].body
      BY <1>1, <1>2, <1>6, <2>2 DEF WrittenWhole, Settled, Whole
    <3> QED BY <1>2, <2>1, <2>2, <3>1, ReadableBounds DEF Reach
  <2>3. CASE f \notin Settled
    <3>1. decode # "panicked" /\ flows[f] > 0 => dflows[f].body <= row[f].body
      BY <1>2, <1>6, <2>1, <2>3 DEF Whole
    <3> QED BY <1>2, <2>1, <2>3, <3>1, ReadableBounds DEF Reach
  <2> QED BY <2>2, <2>3
<1>8. Record!Arrived \subseteq saved
  BY <1>2, <1>4 DEF Accepted, Frame, Record!Arrived
<1>9. \A f \in Flows : flows[f] \in Nat /\ row[f].ver \in Nat
  BY <1>1, BoundsAssumption DEF TypeOK
<1> QED
  BY <1>2, <1>3, <1>5, <1>7, <1>8, <1>9 DEF Record!Settle, Outcome

\* Every step of the flusher is a step of the record, or none at all.
LEMMA Simulation ==
    ASSUME RefInv, RefInv', [Next]_vars
    PROVE  [Record!Next]_(Record!record)
<1> USE DEF decoderVars, hubVars, bookVars, batchVars, bundleVars
<1>0. TypeOK /\ CloseOrder
  BY DEF RefInv, BodyInv, OrderInv
<1>1. ASSUME UNCHANGED <<dec, decode, frames, promised, dflows, flows, row, saved, Outcome>>
      PROVE  UNCHANGED Record!record
  BY <1>1 DEF Record!record, Reach
<1>2. ASSUME NEW f \in Flows, OnFlow(f) PROVE Record!Next
  BY <1>2, OnFlowHears DEF Record!Next
<1>3. ASSUME NEW f \in Flows, Publish(f) PROVE [Record!Next]_(Record!record)
  <2>1. CASE closed
    BY <1>1, <1>3, <2>1 DEF Publish, Outcome
  <2>2. CASE ~closed
    <3>1. flows' = [flows EXCEPT ![f] = dec[f].ver]
      BY <1>3, <2>2 DEF Publish
    <3>2. \A g \in Flows : Reach(g)' = Reach(g)
      BY <1>3 DEF Publish, Reach
    <3>3. Record!Show(f)
      BY <1>3, <2>2, <3>1, <3>2 DEF Publish, Record!Show, Outcome, closed
    <3> QED BY <3>3 DEF Record!Next
  <2> QED BY <2>1, <2>2
<1>4. ASSUME NEW f \in Flows, PublishMessage(f) PROVE Record!Next
  <2>1. \A g \in Flows : Reach(g)' = Reach(g)
    BY <1>4 DEF PublishMessage, Reach
  <2>2. Record!Arrive(f)
    BY <1>4, <2>1 DEF PublishMessage, Record!Arrive, Outcome, closed
  <2> QED BY <2>2 DEF Record!Next
<1>5. CASE DecodePanicked
  <2>1. \A g \in Flows : Reach(g)' = Reach(g)
    BY <1>5 DEF DecodePanicked, Reach
  <2>2. Record!Break
    BY <1>5, <2>1 DEF DecodePanicked, Record!Break, Outcome
  <2> QED BY <2>2 DEF Record!Next
<1>6. CASE DecodeDrained
  <2>1. (decode' = "panicked") = (decode = "panicked")
    BY <1>6 DEF DecodeDrained
  <2>2. \A g \in Flows : Reach(g)' = Reach(g)
    BY <1>6 DEF DecodeDrained, Reach
  <2> QED BY <1>6, <2>1, <2>2 DEF DecodeDrained, Record!record, Outcome
<1>7. CASE FlushBegin \/ FinalFlushBegin
  BY <1>1, <1>7 DEF FlushBegin, FinalFlushBegin, Outcome
<1>8. CASE InsertFlowWrites
  BY <1>8, InsertKeeps DEF Record!Next
<1>9. CASE InsertMessages
  <2>1. CASE saved' # saved
    BY <1>9, <2>1, InsertKeepsFrames DEF Record!Next
  <2>2. CASE saved' = saved
    BY <1>1, <1>9, <2>2 DEF InsertMessages, Outcome
  <2> QED BY <2>1, <2>2
<1>10. CASE FlushCommit
  <2>1. final \in BOOLEAN
    BY <1>0 DEF TypeOK
  <2> QED BY <1>10, <2>1, CommitLosesLate, CommitSettles DEF Record!Next
<1>11. ASSUME life' = "unrecorded", life = "closed",
              UNCHANGED <<dec, decode, frames, promised, dflows, flows, row, saved>>
       PROVE  Record!Next
  <2>1. \A g \in Flows : Reach(g)' = Reach(g)
    BY <1>11 DEF Reach
  <2>2. Record!Fail
    BY <1>11, <2>1 DEF Record!Fail, Outcome
  <2> QED BY <2>2 DEF Record!Next
<1>12. CASE FlushFail
  <2>1. CASE final
    BY <1>0, <1>11, <1>12, <2>1 DEF FlushFail, CloseOrder
  <2>2. CASE ~final
    BY <1>1, <1>12, <2>2 DEF FlushFail, Outcome
  <2> QED BY <2>1, <2>2
<1>13. CASE FinalFlushRefused
  BY <1>11, <1>13 DEF FinalFlushRefused
<1>14. CASE FailReported \/ HubStop \/ StopFlusher \/ MarkClosed \/ UNCHANGED vars
  BY <1>1, <1>14 DEF FailReported, HubStop, StopFlusher, MarkClosed, vars, Outcome
<1> QED
  BY <1>2, <1>3, <1>4, <1>5, <1>6, <1>7, <1>8, <1>9, <1>10, <1>12, <1>13, <1>14 DEF Next, Terminated

\* The flusher implements the record, for every set of flows and every bound, whatever a
\* decoder does to a flow's bodies after it called them done: up to there "moving a
\* flow's bytes to disk is invisible to readers" (flush.go:6-8), and a session ends as
\* recorded with all that readers have of it in its bundle.
THEOREM Implements == Spec => ImplementsRecord
<1>1. Init => Record!Init
  BY DEF Init, Record!Init, Reach, Outcome, NoSnap
<1>2. TypeOK' /\ RefInv /\ [Next]_vars => RefInv'
  BY RefStep
<1>3. RefInv /\ RefInv' /\ [Next]_vars => [Record!Next]_(Record!record)
  BY Simulation
<1> QED BY RefInit, <1>1, <1>2, <1>3, TypeCorrect, PTL DEF Spec, RefInv, ImplementsRecord, Record!Spec


-----------------------------------------------------------------------------
(* What the reads rely on of the flusher.                                   *)

\* The hub holds each flow's frames in the order of their numbers.
HubInOrder ==
    \A i, j \in 1..Len(messages) :
        i < j /\ messages[i][1] = messages[j][1] => messages[i][2] < messages[j][2]

\* The bundle holds each flow's frames from the first on, with no gap.
SavedFromTheFirst ==
    \A m \in saved : \A k \in 1..m[2] : <<m[1], k>> \in saved

\* The flush at close takes every frame, and no more arrive.
FinalTakesFrames ==
    /\ final => fpc # "idle" /\ life = "closed" /\ nmsgs = Len(messages)
    /\ life = "recorded" => messages = << >>

\* A flow in onFlow has been reported.
HandedIsReported == \A f \in handing : dec[f].ver > 0

FlushOrder == HubInOrder /\ SavedFromTheFirst /\ FinalTakesFrames /\ HandedIsReported

-----------------------------------------------------------------------------
(* The reader's own invariant.                                              *)

\* Which call is where, and what it has of its variables there.
Control ==
    /\ asked \in Flows
    /\ at \in {"start", "asking", "hub", "found", "alone"} => sub = "none" /\ timeline = << >>
    /\ at \in {"start", "asking", "found", "alone"} => answer = {}
    /\ at = "subscribed" => sub # "none" /\ timeline = << >>
    /\ at = "following" => sub # "none"
    /\ at \in {"found", "alone", "subscribed", "following"} => call = "StreamMessages"
    /\ at = "hub" => call # "StreamMessages"
    /\ at = "alone" => life = "recorded"
    /\ sub # "none" => call = "StreamMessages"
    /\ sub = "nil" => answer = {}

\* The frames waiting in the channel.
Queued == {inbox[i] : i \in 1..Len(inbox)}

\* The channel's frames are accepted ones, in order, and none that was dropped.
Channel ==
    /\ sub # "open" => inbox = << >> /\ lost = {}
    /\ Queued \subseteq Accepted
    /\ lost \subseteq Accepted
    /\ Queued \cap lost = {}
    /\ \A i, j \in 1..Len(inbox) :
          i < j /\ inbox[i][1] = inbox[j][1] => inbox[i][2] < inbox[j][2]

\* Before the backfill: the snapshot's frames follow on the bundle's, and what is
\* in neither is in the channel or was dropped from it.
Gathered ==
    at \in {"alone", "subscribed"} =>
        /\ \A m \in answer :
              /\ m \in Accepted /\ m[1] = asked
              /\ \A k \in 1..m[2] : <<asked, k>> \in saved \cup answer
        /\ sub = "open" =>
              \A k \in 1..frames[asked] : <<asked, k>> \in saved \cup answer \cup Queued \cup lost

\* After it: what was not sent is in the channel or was dropped from it.
Followed ==
    /\ at = "following" /\ sub = "open" =>
          \A k \in 1..frames[asked] : k \in Sent \/ <<asked, k>> \in Queued \cup lost
    /\ at = "answered" /\ call = "StreamMessages" => closed

ReadInv ==
    /\ Control
    /\ Channel
    /\ Gathered
    /\ Followed
    /\ TimelineIsFaithful

\* What GetFlow knows on its way: the flow it owes stays published.
FlowOwed ==
    call = "GetFlow" /\ at \in {"asking", "hub"} => \A f \in owed : f = asked /\ flows[f] > 0

-----------------------------------------------------------------------------
(* Lemmas about the order the backfill sends in.                            *)

\* The part of InOrder that follows on s: the numbers of ks, from the least on.
Sorted(ks) == [i \in 1..Cardinality(ks) |-> CHOOSE k \in ks : Cardinality({j \in ks : j <= k}) = i]

\* A finite set of numbers, put in order: each once, in increasing order, and nothing else.
LEMMA SortedIsInOrder ==
    ASSUME NEW n \in Nat, NEW ks \in SUBSET (1..n)
    PROVE  /\ Cardinality(ks) \in Nat
           /\ Sorted(ks) \in Seq(ks) /\ Len(Sorted(ks)) = Cardinality(ks)
           /\ \A k \in ks : \E i \in 1..Cardinality(ks) : Sorted(ks)[i] = k
           /\ \A i, j \in 1..Cardinality(ks) : i < j => Sorted(ks)[i] < Sorted(ks)[j]
<1> DEFINE c == Cardinality(ks)
           below(k) == {j \in ks : j <= k}
           rank == [k \in ks |-> Cardinality(below(k))]
<1>0. \A k \in ks : k \in Nat
  OBVIOUS
<1>1. IsFiniteSet(ks) /\ c \in Nat
  <2>1. n \in Int /\ 1 \in Int
    OBVIOUS
  <2>2. IsFiniteSet(1..n)
    BY <2>1, FS_Interval
  <2>3. IsFiniteSet(ks)
    BY <2>2, FS_Subset
  <2> QED BY <2>3, FS_CardinalityType
<1>2. ASSUME NEW k \in ks PROVE IsFiniteSet(below(k)) /\ rank[k] \in 1..c
  <2>1. below(k) \in SUBSET ks
    OBVIOUS
  <2>2. IsFiniteSet(below(k)) /\ Cardinality(below(k)) <= c
    BY <1>1, <2>1, FS_Subset
  <2>3. k \in below(k)
    OBVIOUS
  <2>4. Cardinality(below(k)) \in Nat /\ Cardinality(below(k)) # 0
    BY <2>2, <2>3, FS_CardinalityType, FS_EmptySet
  <2> QED BY <1>1, <2>2, <2>4
<1>3. ASSUME NEW k \in ks, NEW l \in ks, k < l PROVE rank[k] < rank[l]
  <2>1. below(k) \in SUBSET below(l) /\ l \in below(l) /\ l \notin below(k)
    <3>1. k \in Nat /\ l \in Nat
      BY <1>0
    <3>2. ASSUME NEW j \in ks, j <= k PROVE j <= l
      BY <3>1, <3>2, <1>0, <1>3
    <3>3. l <= l /\ ~(l <= k)
      BY <3>1, <1>3
    <3> QED BY <3>2, <3>3
  <2>2. Cardinality(below(k)) <= Cardinality(below(l)) /\ Cardinality(below(k)) # Cardinality(below(l))
    BY <2>1, <1>2, FS_Subset
  <2> QED BY <2>2, <1>2
<1>4. rank \in Injection(ks, 1..c)
  <2>1. ASSUME NEW k \in ks, NEW l \in ks, rank[k] = rank[l] PROVE k = l
    BY <2>1, <1>2, <1>3
  <2>2. rank \in [ks -> 1..c]
    BY <1>2
  <2> QED BY <2>1, <2>2 DEF Injection, IsInjective
<1>5. IsFiniteSet(1..c) /\ Cardinality(1..c) = c
  BY <1>1, FS_Interval
<1>6. rank \in Surjection(ks, 1..c)
  BY <1>4, <1>5, FS_Injection
<1>7. ASSUME NEW i \in 1..c PROVE Sorted(ks)[i] \in ks /\ rank[Sorted(ks)[i]] = i
  <2>1. \E k \in ks : rank[k] = i
    BY <1>6 DEF Surjection
  <2>2. \E k \in ks : Cardinality({j \in ks : j <= k}) = i
    BY <2>1
  <2> QED BY <2>2 DEF Sorted
<1>8. ASSUME NEW k \in ks PROVE \E i \in 1..c : Sorted(ks)[i] = k
  <2>1. rank[k] \in 1..c
    BY <1>2
  <2>2. Sorted(ks)[rank[k]] \in ks /\ rank[Sorted(ks)[rank[k]]] = rank[k]
    BY <1>7, <2>1
  <2>3. Sorted(ks)[rank[k]] = k
    BY <2>2, <1>4 DEF Injection, IsInjective
  <2> QED BY <2>1, <2>3
<1>9. ASSUME NEW i \in 1..c, NEW j \in 1..c, i < j PROVE Sorted(ks)[i] < Sorted(ks)[j]
  <2>1. /\ Sorted(ks)[i] \in ks /\ rank[Sorted(ks)[i]] = i
        /\ Sorted(ks)[j] \in ks /\ rank[Sorted(ks)[j]] = j
    BY <1>7
  <2>2. Sorted(ks)[i] > Sorted(ks)[j] => rank[Sorted(ks)[j]] < rank[Sorted(ks)[i]]
    BY <2>1, <1>0, <1>3
  <2>3. Sorted(ks)[i] \in Nat /\ Sorted(ks)[j] \in Nat
    BY <2>1, <1>0
  <2>4. i \in Nat /\ j \in Nat
    BY <1>1
  <2> QED BY <2>1, <2>2, <2>3, <2>4, <1>9
<1>10. Sorted(ks) \in [1..c -> ks]
  BY <1>7 DEF Sorted
<1>11. Sorted(ks) \in Seq(ks) /\ Len(Sorted(ks)) = c
  BY <1>1, <1>10
<1> QED BY <1>1, <1>8, <1>9, <1>11

-----------------------------------------------------------------------------
(* Lemmas about the flusher.                                                *)

\* The hub's list grows at its end, by a new frame that is the next of its flow, or
\* loses a prefix to the commit, or stays.
LEMMA HubStep ==
    ASSUME TypeOK, [Next]_vars
    PROVE  \/ /\ \E f \in Flows : PublishMessage(f)
              /\ saved' = saved
           \/ /\ frames' = frames
              /\ FlushCommit \/ messages' = messages
              /\ saved' = saved \/ InsertMessages
<1> USE DEF decoderVars, hubVars, bookVars, batchVars, bundleVars
<1>1. ASSUME NEW f \in Flows, OnFlow(f) \/ Publish(f) \/ PublishMessage(f)
      PROVE  \/ PublishMessage(f) /\ saved' = saved
             \/ frames' = frames /\ messages' = messages /\ saved' = saved
  BY <1>1 DEF OnFlow, Publish, PublishMessage
<1>2. CASE FlushBegin \/ FinalFlushBegin \/ InsertFlowWrites \/ InsertMessages \/ FlushCommit \/ FlushFail
  BY <1>2 DEF FlushBegin, FinalFlushBegin, InsertFlowWrites, InsertMessages, FlushCommit, FlushFail
<1>3. CASE DecodeDrained \/ DecodePanicked \/ FailReported \/ HubStop \/ StopFlusher \/ MarkClosed
           \/ FinalFlushRefused \/ UNCHANGED vars
  BY <1>3 DEF DecodeDrained, DecodePanicked, FailReported, HubStop, StopFlusher, MarkClosed,
              FinalFlushRefused, vars
<1> QED BY <1>1, <1>2, <1>3 DEF Next, Terminated

\* What publishMessage appends.
LEMMA PublishedFrame ==
    ASSUME TypeOK, NEW f \in Flows, PublishMessage(f)
    PROVE  /\ ~closed
           /\ <<f, frames[f] + 1>> \in Frame
           /\ <<f, frames[f] + 1>> \notin Accepted
           /\ Len(messages') = Len(messages) + 1
           /\ \A i \in 1..Len(messages) : messages'[i] = messages[i]
           /\ messages'[Len(messages) + 1] = <<f, frames[f] + 1>>
           /\ Last(messages') = <<f, frames[f] + 1>>
           /\ frames' = [frames EXCEPT ![f] = frames[f] + 1]
           /\ Accepted' = Accepted \cup {<<f, frames[f] + 1>>}
<1> DEFINE m == <<f, frames[f] + 1>>
<1>0. frames[f] \in Nat /\ frames[f] < MaxFrames /\ MaxFrames \in Nat
  BY BoundsAssumption DEF PublishMessage, TypeOK
<1>1. m \in Frame /\ m \notin Accepted
  BY <1>0 DEF Frame, Accepted
<1>2. ~closed /\ frames' = [frames EXCEPT ![f] = frames[f] + 1] /\ messages' = Append(messages, m)
  BY DEF PublishMessage
<1>3. /\ Len(messages') = Len(messages) + 1
      /\ \A i \in 1..Len(messages) : messages'[i] = messages[i]
      /\ messages'[Len(messages) + 1] = m
  BY <1>1, <1>2 DEF TypeOK
<1>4. Last(messages') = m
  BY <1>3 DEF Last
<1>5. ASSUME NEW k \in Frame
      PROVE  k[2] <= frames'[k[1]] <=> k[2] <= frames[k[1]] \/ k = m
  <2>1. PICK g \in Flows, j \in 1..MaxFrames : k = <<g, j>>
    BY DEF Frame
  <2>2. j \in Nat /\ frames[f] \in Nat /\ frames[g] \in Nat
    BY BoundsAssumption DEF TypeOK
  <2>3. CASE g = f
    BY <1>2, <2>1, <2>2, <2>3 DEF TypeOK
  <2>4. CASE g # f
    BY <1>2, <2>1, <2>2, <2>4 DEF TypeOK
  <2> QED BY <2>3, <2>4
<1>6. Accepted' = Accepted \cup {m}
  BY <1>1, <1>5 DEF Accepted
<1> QED BY <1>1, <1>2, <1>3, <1>4, <1>6

\* A frame is a flow and a number.
LEMMA FrameParts ==
    ASSUME NEW m \in Frame
    PROVE  m[1] \in Flows /\ m[2] \in 1..MaxFrames /\ m[2] \in Nat /\ m = <<m[1], m[2]>>
  BY BoundsAssumption DEF Frame

\* The order of the hub's list survives every step.
LEMMA HubInOrderStep ==
    ASSUME TypeOK, FramesInv, HubInOrder, [Next]_vars
    PROVE  HubInOrder'
<1>1. CASE messages' = messages
  BY <1>1 DEF HubInOrder
<1>2. ASSUME NEW f \in Flows, PublishMessage(f) PROVE HubInOrder'
  <2> DEFINE n == Len(messages)
             m == <<f, frames[f] + 1>>
  <2>1. /\ Len(messages') = n + 1 /\ n \in Nat
        /\ \A i \in 1..n : messages'[i] = messages[i]
        /\ messages'[n + 1] = m
    <3>1. n \in Nat
      BY DEF TypeOK
    <3> QED BY <1>2, <3>1, PublishedFrame
  <2>2. ASSUME NEW i \in 1..n, messages[i][1] = f PROVE messages[i][2] < frames[f] + 1
    <3>1. messages[i] \in Accepted
      BY DEF FramesInv, OnlyAccepted
    <3>2. messages[i][2] <= frames[f] /\ messages[i] \in Frame
      BY <3>1, <2>2 DEF Accepted
    <3>3. messages[i][2] \in Nat /\ frames[f] \in Nat
      BY <3>2, FrameParts, BoundsAssumption DEF TypeOK
    <3> QED BY <3>2, <3>3
  <2> SUFFICES ASSUME NEW i \in 1..(n + 1), NEW j \in 1..(n + 1), i < j,
                      messages'[i][1] = messages'[j][1]
               PROVE  messages'[i][2] < messages'[j][2]
    BY <2>1 DEF HubInOrder
  <2>3. i \in 1..n
    BY <2>1
  <2>4. CASE j \in 1..n
    BY <2>1, <2>3, <2>4 DEF HubInOrder
  <2>5. CASE j = n + 1
    BY <2>1, <2>2, <2>3, <2>5
  <2> QED BY <2>1, <2>4, <2>5
<1>3. CASE FlushCommit
  <2> DEFINE n == Len(messages)
  <2>1. n \in Nat /\ nmsgs \in 0..n /\ messages' = Trimmed
    BY <1>3 DEF FlushCommit, TypeOK
  <2>2. /\ Len(messages') = n - nmsgs
        /\ \A i \in 1..(n - nmsgs) : messages'[i] = messages[nmsgs + i]
    BY <2>1, TrimmedType DEF TypeOK
  <2>3. \A i, j \in 1..(n - nmsgs) :
           nmsgs + i \in 1..n /\ nmsgs + j \in 1..n /\ (i < j => nmsgs + i < nmsgs + j)
    BY <2>1
  <2> QED BY <2>2, <2>3, SMTT(30) DEF HubInOrder
<1> QED BY <1>1, <1>2, <1>3, HubStep

\* InsertMessages writes the hub's first frames, so the bundle has no gap after it.
LEMMA SavedStep ==
    ASSUME TypeOK, FramesInv, HubInOrder, SavedFromTheFirst, [Next]_vars
    PROVE  SavedFromTheFirst' /\ saved \subseteq saved'
<1>1. CASE saved' = saved
  BY <1>1 DEF SavedFromTheFirst
<1>2. CASE InsertMessages
  <2>1. /\ saved' = saved \cup {messages[i] : i \in 1..nmsgs}
        /\ nmsgs \in 0..Len(messages) /\ Len(messages) \in Nat
    BY <1>2 DEF InsertMessages, TypeOK
  <2> SUFFICES ASSUME NEW i \in 1..nmsgs, NEW k \in 1..messages[i][2]
               PROVE  <<messages[i][1], k>> \in saved'
    BY <2>1 DEF SavedFromTheFirst
  <2> DEFINE m == messages[i]
             low == <<m[1], k>>
  <2>2. i \in 1..Len(messages)
    BY <2>1
  <2>3. m \in Accepted /\ m \in Frame
    BY <2>2 DEF FramesInv, OnlyAccepted, Accepted
  <2>4. m[1] \in Flows /\ m[2] \in 1..MaxFrames /\ m[2] <= frames[m[1]]
    BY <2>3, FrameParts DEF Accepted
  <2>5. frames[m[1]] \in Nat /\ k \in Nat /\ m[2] \in Nat
    BY <2>4, BoundsAssumption DEF TypeOK
  <2>6. k \in 1..MaxFrames /\ k <= frames[m[1]]
    BY <2>4, <2>5, BoundsAssumption
  <2>7. low \in Accepted
    BY <2>4, <2>6 DEF Accepted, Frame
  <2>8. CASE low \in saved
    BY <2>1, <2>8
  <2>9. CASE low \notin saved
    <3>1. PICK j \in 1..Len(messages) : messages[j] = low
      BY <2>7, <2>9 DEF FramesInv, NoneMissing
    <3>2. ~(i < j)
      BY <2>2, <2>5, <3>1 DEF HubInOrder
    <3>3. j \in 1..nmsgs
      BY <2>1, <3>2
    <3> QED BY <2>1, <3>1, <3>3
  <2> QED BY <2>8, <2>9
<1> QED BY <1>1, <1>2, HubStep

\* The flush at close starts on all the frames there are, and ends with none left.
LEMMA FinalFramesStep ==
    ASSUME TypeOK, FinalTakesFrames, [Next]_vars
    PROVE  FinalTakesFrames'
<1> USE DEF FinalTakesFrames, closed, decoderVars, hubVars, bookVars, batchVars, bundleVars
<1>1. ASSUME NEW f \in Flows, OnFlow(f) \/ Publish(f) PROVE FinalTakesFrames'
  BY <1>1 DEF OnFlow, Publish
<1>2. ASSUME NEW f \in Flows, PublishMessage(f) PROVE FinalTakesFrames'
  BY <1>2 DEF PublishMessage
<1>3. CASE FlushBegin
  BY <1>3 DEF FlushBegin, TakeBatch
<1>4. CASE FinalFlushBegin
  BY <1>4 DEF FinalFlushBegin, TakeBatch, AfterBatch
<1>5. CASE InsertFlowWrites \/ InsertMessages
  BY <1>5 DEF InsertFlowWrites, InsertMessages
<1>6. CASE FlushCommit
  <2>1. final' = FALSE /\ messages' = Trimmed /\ life' = IF final THEN "recorded" ELSE life
    BY <1>6 DEF FlushCommit
  <2>2. ASSUME nmsgs = Len(messages) \/ messages = << >> PROVE Trimmed = << >>
    <3>1. Trimmed \in Seq(Frame) /\ Len(Trimmed) = Len(messages) - nmsgs
      BY TrimmedType DEF TypeOK
    <3>2. Len(messages) \in Nat /\ nmsgs \in 0..Len(messages)
      BY DEF TypeOK
    <3>3. messages = << >> => Len(messages) = 0
      OBVIOUS
    <3>4. Len(Trimmed) = 0
      BY <2>2, <3>1, <3>2, <3>3
    <3> QED BY <3>1, <3>4, EmptySeq
  <2> QED BY <2>1, <2>2
<1>7. CASE FlushFail
  BY <1>7 DEF FlushFail
<1>8. CASE DecodeDrained \/ DecodePanicked \/ FailReported \/ HubStop \/ StopFlusher \/ MarkClosed
           \/ FinalFlushRefused \/ UNCHANGED vars
  BY <1>8 DEF DecodeDrained, DecodePanicked, FailReported, HubStop, StopFlusher, MarkClosed,
              FinalFlushRefused, vars
<1> QED BY <1>1, <1>2, <1>3, <1>4, <1>5, <1>6, <1>7, <1>8 DEF Next, Terminated

\* A flow in onFlow keeps its version, which a report only raises.
LEMMA HandedStep ==
    ASSUME TypeOK, HandedIsReported, [Next]_vars
    PROVE  /\ HandedIsReported'
           /\ \A f \in Flows : flows[f] > 0 => flows'[f] > 0
<1> USE DEF decoderVars, hubVars, bookVars, batchVars, bundleVars
<1>1. ASSUME UNCHANGED <<dec, handing, flows>>
      PROVE  HandedIsReported' /\ \A f \in Flows : flows[f] > 0 => flows'[f] > 0
  BY <1>1 DEF HandedIsReported
<1>2. ASSUME NEW f \in Flows, OnFlow(f)
      PROVE  HandedIsReported' /\ flows' = flows
  <2>1. PICK s \in NextSnaps(dec[f]) : dec' = [dec EXCEPT ![f] = s]
    BY <1>2 DEF OnFlow
  <2>2. s.ver = dec[f].ver + 1 /\ dec[f].ver \in Nat
    BY BoundsAssumption DEF NextSnaps, TypeOK, Snap
  <2>3. dec'[f].ver > 0 /\ \A g \in Flows : g # f => dec'[g] = dec[g]
    BY <2>1, <2>2 DEF TypeOK
  <2>4. handing' = handing \cup {f} /\ flows' = flows /\ handing \subseteq Flows
    BY <1>2 DEF OnFlow, TypeOK
  <2> QED BY <2>3, <2>4 DEF HandedIsReported
<1>3. ASSUME NEW f \in Flows, Publish(f)
      PROVE  HandedIsReported' /\ \A g \in Flows : flows[g] > 0 => flows'[g] > 0
  <2>1. dec[f].ver > 0 /\ dec' = dec /\ handing' \subseteq handing
    BY <1>3 DEF Publish, HandedIsReported
  <2>2. flows' = flows \/ flows' = [flows EXCEPT ![f] = dec[f].ver]
    BY <1>3 DEF Publish
  <2> QED BY <2>1, <2>2 DEF HandedIsReported, TypeOK
<1>4. CASE FlushBegin \/ FinalFlushBegin \/ InsertFlowWrites \/ InsertMessages \/ FlushCommit \/ FlushFail
  BY <1>4, <1>1 DEF FlushBegin, FinalFlushBegin, InsertFlowWrites, InsertMessages, FlushCommit, FlushFail
<1>5. CASE DecodeDrained \/ DecodePanicked \/ FailReported \/ HubStop \/ StopFlusher \/ MarkClosed
           \/ FinalFlushRefused \/ UNCHANGED vars
  BY <1>5, <1>1 DEF DecodeDrained, DecodePanicked, FailReported, HubStop, StopFlusher, MarkClosed,
              FinalFlushRefused, vars
<1>6. ASSUME NEW f \in Flows, PublishMessage(f)
      PROVE  HandedIsReported' /\ \A g \in Flows : flows[g] > 0 => flows'[g] > 0
  BY <1>6, <1>1 DEF PublishMessage
<1> QED BY <1>1, <1>2, <1>3, <1>4, <1>5, <1>6 DEF Next, Terminated

\* All of them, with what is shown of the frames above.
FlushInv == TypeOK /\ FramesInv /\ FlushOrder

LEMMA FlushCorrect == Spec => []FlushInv
<1>1. Init => FlushOrder
  BY DEF Init, FlushOrder, HubInOrder, SavedFromTheFirst, FinalTakesFrames, HandedIsReported
<1>2. TypeOK /\ FramesInv /\ FlushOrder /\ [Next]_vars => FlushOrder'
  BY HubInOrderStep, SavedStep, FinalFramesStep, HandedStep DEF FlushOrder
<1> QED BY <1>1, <1>2, FramesKept, TypeCorrect, PTL DEF Spec, FlushInv

-----------------------------------------------------------------------------
(* The reader's steps.                                                      *)

\* A session that is over stays over, and one that is live was live before.
LEMMA LifeStep ==
    ASSUME FinalTakesFrames, [Next]_vars
    PROVE  /\ life = "recorded" => life' = "recorded"
           /\ closed => closed'
           /\ life' = "live" => life = "live"
<1> USE DEF FinalTakesFrames, closed
<1>1. ASSUME NEW f \in Flows, OnFlow(f) \/ Publish(f) \/ PublishMessage(f) PROVE life' = life
  BY <1>1 DEF OnFlow, Publish, PublishMessage
<1>2. CASE FlushBegin \/ FinalFlushBegin \/ InsertFlowWrites \/ InsertMessages \/ FlushCommit \/ FlushFail
  BY <1>2 DEF FlushBegin, FinalFlushBegin, InsertFlowWrites, InsertMessages, FlushCommit, FlushFail
<1>3. CASE DecodeDrained \/ DecodePanicked \/ FailReported \/ HubStop \/ StopFlusher \/ MarkClosed
           \/ FinalFlushRefused \/ UNCHANGED vars
  BY <1>3 DEF DecodeDrained, DecodePanicked, FailReported, HubStop, StopFlusher, MarkClosed,
              FinalFlushRefused, vars
<1> QED BY <1>1, <1>2, <1>3 DEF Next, Terminated

\* A call changes nothing in the gateway.
LEMMA ReaderOnlyReads == ASSUME Reader PROVE UNCHANGED vars
  BY DEF Reader, Call, ReadStore, ReadHub, WaitForLive, SubscribeMessages, Backfill, Forward, EndOfStream

LEMMA ReadIsFlush == ASSUME [ReadNext]_allVars PROVE [Next]_vars
  BY ReaderOnlyReads DEF ReadNext, Gateway, allVars

\* What LiveFlush keeps it keeps under its readers.
LEMMA FlushUnderReads == ReadSpec => []FlushInv
<1>1. ReadInit => Init
  BY DEF ReadInit
<1> QED BY <1>1, ReadIsFlush, FlushCorrect, PTL DEF ReadSpec, Spec

\* The order of a call's steps.
LEMMA ControlStep ==
    ASSUME FlushInv, Control, [ReadNext]_allVars
    PROVE  Control'
<1> USE DEF Control
<1>1. CASE Gateway
  <2>1. life = "recorded" => life' = "recorded"
    BY <1>1, LifeStep DEF Gateway, FlushInv, FlushOrder
  <2> QED BY <1>1, <2>1 DEF Gateway
<1>2. CASE Call \/ ReadStore
  BY <1>2 DEF Call, ReadStore
<1>3. CASE ReadHub
  BY <1>3 DEF ReadHub
<1>4. CASE WaitForLive
  BY <1>4 DEF WaitForLive, vars
<1>5. CASE SubscribeMessages
  BY <1>5 DEF SubscribeMessages
<1>6. CASE Backfill
  BY <1>6 DEF Backfill
<1>7. CASE Forward \/ EndOfStream
  BY <1>7 DEF Forward, EndOfStream
<1>8. CASE UNCHANGED allVars
  BY <1>8 DEF allVars, readVars, vars
<1> QED BY <1>1, <1>2, <1>3, <1>4, <1>5, <1>6, <1>7, <1>8 DEF ReadNext, Reader

LEMMA ControlKept == ReadSpec => []Control
<1>1. ReadInit => Control
  BY DEF ReadInit, Control
<1> QED BY <1>1, ControlStep, FlushUnderReads, PTL DEF ReadSpec

-----------------------------------------------------------------------------
\* A flow a viewer has been told of is found by GetFlow for as long as the session
\* is live, for any number of flows: if its row was not there yet when the bundle was
\* read, the hub still has its proto, which no flush takes away (server.go:63-95).
THEOREM FlowIsFound == ReadSpec => []FlowFound
<1> DEFINE FlowInv == FlowOwed /\ FlowFound
<1>1. ReadInit => FlowInv
  BY DEF ReadInit, FlowOwed, FlowFound, Complete
<1>2. FlushInv /\ Control /\ FlowInv /\ [ReadNext]_allVars => FlowInv'
  <2> SUFFICES ASSUME FlushInv, Control, FlowInv, [ReadNext]_allVars
               PROVE  FlowInv'
    OBVIOUS
  <2> USE DEF FlowOwed, FlowFound, Complete, registered, Control
  <2>1. CASE Gateway
    <3>1. \A f \in Flows : flows[f] > 0 => flows'[f] > 0
      BY <2>1, HandedStep DEF Gateway, FlushInv, FlushOrder
    <3>2. life' = "live" => life = "live"
      BY <2>1, LifeStep DEF Gateway, FlushInv, FlushOrder
    <3>3. call' = call /\ at' = at /\ owed' = owed /\ answer' = answer /\ asked' = asked
      BY <2>1 DEF Gateway
    <3>4. asked \in Flows
      BY DEF Control
    <3> QED BY <3>1, <3>2, <3>3, <3>4
  <2>2. CASE Call
    <3>1. PICK c \in ReadCalls : call' = c /\ owed' = Owed(c)
      BY <2>2 DEF Call
    <3>2. at' = "asking" /\ asked' = asked /\ flows' = flows
      BY <2>2 DEF Call, vars, hubVars
    <3>3. c = "GetFlow" => Owed(c) = {f \in {asked} : flows[f] > 0}
      BY DEF Owed
    <3> QED BY <3>1, <3>2, <3>3
  <2>3. CASE ReadStore
    <3>1. /\ at = "asking" /\ answer' = FromStore
          /\ at' = IF AsksHub THEN "hub" ELSE "answered"
          /\ UNCHANGED <<call, owed, asked, flows, life>>
      BY <2>3 DEF ReadStore, vars, hubVars
    <3>2. call = "GetFlow" => FromStore = {f \in {asked} : row[f].ver > 0}
      BY DEF FromStore
    <3>3. call = "GetFlow" /\ ~AsksHub => asked \in answer'
      BY <3>1, <3>2 DEF AsksHub
    <3> QED BY <3>1, <3>3
  <2>4. CASE ReadHub
    <3>1. /\ at = "hub" /\ at' = "answered"
          /\ answer' = answer \cup (IF registered THEN FromHub ELSE {})
          /\ UNCHANGED <<call, owed, asked, flows, life>>
      BY <2>4 DEF ReadHub, vars, hubVars
    <3>2. call = "GetFlow" => FromHub = {f \in {asked} : flows[f] > 0}
      BY DEF FromHub, liveFlow
    <3> QED BY <3>1, <3>2
  <2>5. CASE WaitForLive \/ SubscribeMessages \/ Backfill \/ Forward \/ EndOfStream
    BY <2>5 DEF WaitForLive, SubscribeMessages, Backfill, Forward, EndOfStream
  <2>6. CASE UNCHANGED allVars
    BY <2>6 DEF allVars, readVars, vars, hubVars
  <2> QED BY <2>1, <2>2, <2>3, <2>4, <2>5, <2>6 DEF ReadNext, Reader
<1> QED BY <1>1, <1>2, ControlKept, FlushUnderReads, PTL DEF ReadSpec

-----------------------------------------------------------------------------
(* What the backfill sends.                                                 *)

Rising(s) == \A i, j \in 1..Len(s) : i < j => s[i] < s[j]
NumbersOf(s) == {s[i] : i \in 1..Len(s)}

\* InOrder puts the numbers of fs after s, all of them and each once.
LEMMA InOrderSends ==
    ASSUME NEW fs \in SUBSET Frame, NEW s \in Seq(1..MaxFrames), Rising(s),
           \A m \in fs : \A k \in NumbersOf(s) : k < m[2]
    PROVE  /\ InOrder(s, fs) \in Seq(1..MaxFrames)
           /\ Rising(InOrder(s, fs))
           /\ NumbersOf(InOrder(s, fs)) = NumbersOf(s) \cup {m[2] : m \in fs}
<1> DEFINE ks == {m[2] : m \in fs}
           c == Cardinality(ks)
           t == Sorted(ks)
           r == InOrder(s, fs)
           n == Len(s)
<1>1. ks \in SUBSET (1..MaxFrames) /\ MaxFrames \in Nat
  BY FrameParts, BoundsAssumption
<1>2. /\ c \in Nat /\ t \in Seq(ks) /\ Len(t) = c
      /\ \A k \in ks : \E i \in 1..c : t[i] = k
      /\ \A i, j \in 1..c : i < j => t[i] < t[j]
  <2> HIDE DEF ks
  <2> QED BY <1>1, SortedIsInOrder
<1>3. r = s \o t
  BY DEF InOrder, Sorted
<1>4. \A i \in 1..c : t[i] \in ks
  <2> HIDE DEF ks, t, c
  <2> QED BY <1>2, ElementOfSeq
<1> HIDE DEF ks, t, r, c
<1>5. t \in Seq(1..MaxFrames)
  <2>1. ASSUME NEW S, NEW T, S \subseteq T, NEW q \in Seq(S) PROVE q \in Seq(T)
    BY <2>1, ElementOfSeq
  <2> QED BY <1>1, <1>2, <2>1
<1>6. n \in Nat
  OBVIOUS
<1>7. /\ r \in Seq(1..MaxFrames) /\ Len(r) = n + c
      /\ \A i \in 1..(n + c) : r[i] = IF i <= n THEN s[i] ELSE t[i - n]
  <2>1. /\ s \o t \in Seq(1..MaxFrames) /\ Len(s \o t) = n + Len(t)
        /\ \A i \in 1..(n + Len(t)) : (s \o t)[i] = IF i <= n THEN s[i] ELSE t[i - n]
    BY <1>5, ConcatProperties
  <2> QED BY <1>2, <1>3, <2>1
<1>8. \A i \in 1..c : t[i] \in ks /\ t[i] \in Nat
  <2>1. \A k \in ks : k \in Nat
    BY <1>1
  <2> QED BY <2>1, <1>4
<1>9. \A i \in 1..n : s[i] \in NumbersOf(s) /\ s[i] \in Nat
  <2>1. \A i \in 1..n : s[i] \in 1..MaxFrames
    BY ElementOfSeq
  <2> QED BY <1>1, <2>1 DEF NumbersOf
<1>10. \A k \in NumbersOf(s), l \in ks : k < l
  BY DEF ks
<1>11. \A i \in 1..(n + c) : i \notin 1..n => i - n \in 1..c /\ ~(i <= n)
  BY <1>2, <1>6
<1>12. \A i \in 1..c : n + i \in 1..(n + c) /\ ~(n + i <= n) /\ (n + i) - n = i
  BY <1>2, <1>6
<1>13. \A i \in 1..n : i \in 1..(n + c) /\ i <= n
  BY <1>2, <1>6
<1>14. Rising(r)
  <2> SUFFICES ASSUME NEW i \in 1..(n + c), NEW j \in 1..(n + c), i < j
               PROVE  r[i] < r[j]
    BY <1>7 DEF Rising
  <2>1. CASE j \in 1..n
    <3>1. i \in 1..n
      BY <1>6, <2>1, <1>2
    <3> QED BY <1>7, <1>13, <2>1, <3>1 DEF Rising
  <2>2. CASE i \in 1..n /\ j \notin 1..n
    BY <1>7, <1>8, <1>9, <1>10, <1>11, <1>13, <2>2
  <2>3. CASE i \notin 1..n /\ j \notin 1..n
    <3>1. i - n \in 1..c /\ j - n \in 1..c /\ i - n < j - n
      BY <1>2, <1>6, <1>11, <2>3
    <3> QED BY <1>2, <1>7, <1>11, <2>3, <3>1
  <2> QED BY <2>1, <2>2, <2>3, <1>2, <1>6
<1>15. NumbersOf(r) = NumbersOf(s) \cup ks
  <2>1. ASSUME NEW i \in 1..(n + c) PROVE r[i] \in NumbersOf(s) \cup ks
    BY <1>7, <1>8, <1>9, <1>11, <1>13
  <2>2. ASSUME NEW i \in 1..n PROVE s[i] \in NumbersOf(r)
    BY <1>7, <1>13 DEF NumbersOf
  <2>3. ASSUME NEW k \in ks PROVE k \in NumbersOf(r)
    <3>1. PICK i \in 1..c : t[i] = k
      BY <1>2
    <3> QED BY <1>7, <1>12, <3>1 DEF NumbersOf
  <2> QED BY <2>1, <2>2, <2>3, <1>7 DEF NumbersOf
<1> QED BY <1>7, <1>14, <1>15 DEF ks, r

\* The backfill sends exactly the frames of the bundle and of the snapshot, in order.
LEMMA BackfillSends ==
    ASSUME FlushInv, ReadInv, Backfill
    PROVE  /\ timeline' \in Seq(1..MaxFrames)
           /\ Rising(timeline')
           /\ \A k \in 1..MaxFrames :
                 k \in NumbersOf(timeline') <=> <<asked, k>> \in saved \cup answer
<1> DEFINE kept == storedFrames(asked)
           tail == answer \ kept
           first == InOrder(<< >>, kept)
<1>1. timeline' = InOrder(first, tail) /\ at \in {"subscribed", "alone"}
  BY DEF Backfill
<1>2. saved \in SUBSET Frame /\ \A m \in answer : m \in Frame /\ m[1] = asked
  BY <1>1 DEF FlushInv, TypeOK, ReadInv, Gathered, Accepted
<1>3. kept \in SUBSET Frame /\ tail \in SUBSET Frame
  BY <1>2 DEF storedFrames
<1>4. << >> \in Seq(1..MaxFrames) /\ Rising(<< >>) /\ NumbersOf(<< >>) = {}
  BY DEF Rising, NumbersOf
<1>5. /\ first \in Seq(1..MaxFrames)
      /\ Rising(first)
      /\ NumbersOf(first) = {m[2] : m \in kept}
  <2> HIDE DEF kept
  <2>1. \A m \in kept : \A k \in NumbersOf(<< >>) : k < m[2]
    BY <1>4
  <2> QED BY <1>3, <1>4, <2>1, InOrderSends
<1>6. ASSUME NEW m \in tail, NEW k \in NumbersOf(first) PROVE k < m[2]
  <2>1. PICK l \in kept : l[2] = k
    BY <1>5
  <2>2. l \in saved /\ l[1] = asked /\ l \in Frame
    BY <1>3 DEF storedFrames
  <2>3. m \in Frame /\ m[1] = asked /\ m \notin kept
    BY <1>2, <1>3
  <2>4. m[2] \in 1..MaxFrames /\ m[2] \in Nat /\ m = <<asked, m[2]>> /\ k \in Nat
    BY <2>1, <2>2, <2>3, FrameParts
  <2>5. CASE m[2] <= k
    <3>1. m[2] \in 1..l[2]
      BY <2>1, <2>4, <2>5, BoundsAssumption
    <3>2. <<asked, m[2]>> \in saved
      BY <2>2, <3>1 DEF FlushInv, FlushOrder, SavedFromTheFirst
    <3> QED BY <2>3, <2>4, <3>2 DEF storedFrames
  <2> QED BY <2>4, <2>5
<1>7. /\ timeline' \in Seq(1..MaxFrames)
      /\ Rising(timeline')
      /\ NumbersOf(timeline') = NumbersOf(first) \cup {m[2] : m \in tail}
  <2> HIDE DEF first, tail
  <2> QED BY <1>1, <1>3, <1>5, <1>6, InOrderSends
<1>8. ASSUME NEW k \in 1..MaxFrames
      PROVE  k \in NumbersOf(timeline') <=> <<asked, k>> \in saved \cup answer
  <2>1. k \in NumbersOf(timeline') <=> \E m \in kept \cup tail : m[2] = k
    BY <1>5, <1>7
  <2>2. ASSUME NEW m \in kept \cup tail, m[2] = k PROVE <<asked, k>> \in saved \cup answer
    <3>1. m \in Frame /\ m[1] = asked /\ m \in saved \cup answer
      BY <1>2, <1>3 DEF storedFrames
    <3>2. m = <<asked, k>>
      BY <2>2, <3>1, FrameParts
    <3> QED BY <3>1, <3>2
  <2>3. ASSUME <<asked, k>> \in saved \cup answer PROVE <<asked, k>> \in kept \cup tail
    BY <2>3 DEF storedFrames
  <2> QED BY <2>1, <2>2, <2>3
<1> QED BY <1>7, <1>8

-----------------------------------------------------------------------------
(* The channel.                                                             *)

\* A step of the gateway puts the frame it publishes in an open channel, or drops it,
\* and leaves the channel alone otherwise.
LEMMA GatewayStep ==
    ASSUME FlushInv, ReadTypeOK, Gateway
    PROVE  \/ /\ frames' = frames
              /\ inbox' = inbox /\ lost' = lost
           \/ \E f \in Flows :
                 /\ PublishMessage(f)
                 /\ \/ sub # "open" /\ inbox' = inbox /\ lost' = lost
                    \/ /\ sub = "open" /\ Len(inbox) < Buffer
                       /\ inbox' = Append(inbox, <<f, frames[f] + 1>>) /\ lost' = lost
                    \/ /\ sub = "open"
                       /\ inbox' = inbox /\ lost' = lost \cup {<<f, frames[f] + 1>>}
<1> USE DEF FlushInv
<1>1. Next /\ FanOut
  BY DEF Gateway
<1>2. Len(messages) \in Nat /\ nmsgs \in 0..Len(messages)
  BY DEF TypeOK
<1>3. ASSUME NEW f \in Flows, PublishMessage(f)
      PROVE  \/ sub # "open" /\ inbox' = inbox /\ lost' = lost
             \/ /\ sub = "open" /\ Len(inbox) < Buffer
                /\ inbox' = Append(inbox, <<f, frames[f] + 1>>) /\ lost' = lost
             \/ /\ sub = "open"
                /\ inbox' = inbox /\ lost' = lost \cup {<<f, frames[f] + 1>>}
  <2>1. Len(messages') > Len(messages) /\ Last(messages') = <<f, frames[f] + 1>>
    <3>1. Len(messages') = Len(messages) + 1 /\ Last(messages') = <<f, frames[f] + 1>>
      BY <1>3, PublishedFrame
    <3> QED BY <1>2, <3>1
  <2> QED BY <1>1, <2>1 DEF FanOut, Published
<1>4. ASSUME FlushCommit \/ messages' = messages PROVE inbox' = inbox /\ lost' = lost
  <2>1. FlushCommit => Len(messages') = Len(messages) - nmsgs
    BY TrimmedType DEF FlushCommit, TypeOK
  <2>2. ~(Len(messages') > Len(messages))
    BY <1>2, <1>4, <2>1
  <2> QED BY <1>1, <2>2 DEF FanOut, Published
<1> QED BY <1>1, <1>3, <1>4, HubStep

\* Putting a frame at the end of the channel.
LEMMA Enqueue ==
    ASSUME inbox \in Seq(Frame), NEW m \in Frame, inbox' = Append(inbox, m)
    PROVE  /\ inbox' \in Seq(Frame) /\ Len(inbox') = Len(inbox) + 1
           /\ Len(inbox) \in Nat
           /\ \A i \in 1..Len(inbox) : inbox'[i] = inbox[i]
           /\ inbox'[Len(inbox) + 1] = m
           /\ Queued' = Queued \cup {m}
<1>1. /\ inbox' \in Seq(Frame) /\ Len(inbox') = Len(inbox) + 1
      /\ Len(inbox) \in Nat
      /\ \A i \in 1..Len(inbox) : inbox'[i] = inbox[i]
      /\ inbox'[Len(inbox) + 1] = m
  OBVIOUS
<1>2. \A i \in 1..(Len(inbox) + 1) : i \in 1..Len(inbox) \/ i = Len(inbox) + 1
  BY <1>1
<1>3. \A i \in 1..Len(inbox) : i \in 1..(Len(inbox) + 1)
  BY <1>1
<1>4. Len(inbox) + 1 \in 1..(Len(inbox) + 1)
  BY <1>1
<1>5. Queued' = Queued \cup {m}
  BY <1>1, <1>2, <1>3, <1>4 DEF Queued
<1> QED BY <1>1, <1>5

\* Taking the frame at its head.
LEMMA Dequeue ==
    ASSUME inbox \in Seq(Frame), inbox # << >>, inbox' = Tail(inbox)
    PROVE  /\ inbox' \in Seq(Frame) /\ Len(inbox') = Len(inbox) - 1
           /\ Len(inbox) \in Nat \ {0}
           /\ \A i \in 1..Len(inbox') : i + 1 \in 1..Len(inbox) /\ inbox'[i] = inbox[i + 1]
           /\ Head(inbox) = inbox[1] /\ 1 \in 1..Len(inbox) /\ Head(inbox) \in Frame
           /\ Queued = Queued' \cup {Head(inbox)}
<1>1. Len(inbox) \in Nat \ {0}
  BY EmptySeq
<1>2. /\ inbox' \in Seq(Frame) /\ Len(inbox') = Len(inbox) - 1
      /\ \A i \in 1..Len(inbox') : inbox'[i] = inbox[i + 1]
      /\ Head(inbox) = inbox[1] /\ Head(inbox) \in Frame
  BY HeadTailProperties
<1>3. \A i \in 1..Len(inbox') : i + 1 \in 1..Len(inbox)
  BY <1>1, <1>2
<1>4. 1 \in 1..Len(inbox)
  BY <1>1
<1>5. \A i \in 1..Len(inbox) : i = 1 \/ (i - 1 \in 1..Len(inbox') /\ (i - 1) + 1 = i)
  BY <1>1, <1>2
<1>6. Queued = Queued' \cup {Head(inbox)}
  <2>1. ASSUME NEW m \in Queued PROVE m \in Queued' \cup {Head(inbox)}
    BY <1>2, <1>5 DEF Queued
  <2>2. ASSUME NEW m \in Queued' PROVE m \in Queued
    BY <1>2, <1>3 DEF Queued
  <2>3. Head(inbox) \in Queued
    BY <1>2, <1>4 DEF Queued
  <2> QED BY <2>1, <2>2, <2>3
<1> QED BY <1>1, <1>2, <1>3, <1>4, <1>6

\* The frames in the channel stay in order and apart from the dropped ones.
LEMMA ChannelStep ==
    ASSUME FlushInv, ReadInv, [ReadNext]_allVars
    PROVE  /\ Channel'
           /\ inbox' \in Seq(Frame) /\ Len(inbox') <= Buffer /\ lost' \subseteq Frame
<1> USE DEF ReadInv, FlushInv, TimelineIsFaithful
<1>0. inbox \in Seq(Frame) /\ Len(inbox) <= Buffer /\ lost \subseteq Frame /\ Len(inbox) \in Nat /\ Buffer \in Nat
  BY ReadAssumption DEF ReadTypeOK
<1>1. CASE Gateway
  <2>1. sub' = sub
    BY <1>1 DEF Gateway
  <2>2. CASE frames' = frames /\ inbox' = inbox /\ lost' = lost
    BY <1>0, <2>1, <2>2 DEF Channel, Queued, Accepted
  <2>3. ASSUME NEW f \in Flows, PublishMessage(f),
               \/ sub # "open" /\ inbox' = inbox /\ lost' = lost
               \/ /\ sub = "open" /\ Len(inbox) < Buffer
                  /\ inbox' = Append(inbox, <<f, frames[f] + 1>>) /\ lost' = lost
               \/ /\ sub = "open"
                  /\ inbox' = inbox /\ lost' = lost \cup {<<f, frames[f] + 1>>}
        PROVE  Channel' /\ inbox' \in Seq(Frame) /\ Len(inbox') <= Buffer /\ lost' \subseteq Frame
    <3> DEFINE m == <<f, frames[f] + 1>>
    <3>1. m \in Frame /\ m \notin Accepted /\ Accepted' = Accepted \cup {m}
      BY <2>3, PublishedFrame
    <3>2. Queued \subseteq Accepted /\ lost \subseteq Accepted /\ Queued \cap lost = {}
      BY DEF Channel
    <3>3. CASE inbox' = inbox /\ ((lost' = lost /\ sub # "open") \/ (lost' = lost \cup {m} /\ sub = "open"))
      <4>1. Queued' = Queued
        BY <3>3 DEF Queued
      <4> QED BY <1>0, <2>1, <3>1, <3>2, <3>3, <4>1 DEF Channel
    <3>4. CASE inbox' = Append(inbox, m) /\ Len(inbox) < Buffer /\ lost' = lost /\ sub = "open"
      <4> DEFINE n == Len(inbox)
      <4>1. /\ inbox' \in Seq(Frame) /\ Len(inbox') = n + 1
            /\ \A i \in 1..n : inbox'[i] = inbox[i]
            /\ inbox'[n + 1] = m
            /\ Queued' = Queued \cup {m}
        BY <1>0, <3>1, <3>4, Enqueue
      <4>2. ASSUME NEW i \in 1..n, inbox[i][1] = f PROVE inbox[i][2] < frames[f] + 1
        <5>1. inbox[i] \in Accepted
          BY <3>2 DEF Queued
        <5>2. inbox[i][2] <= frames[f] /\ inbox[i] \in Frame
          BY <5>1, <4>2 DEF Accepted
        <5>3. inbox[i][2] \in Nat /\ frames[f] \in Nat
          BY <5>2, FrameParts, BoundsAssumption DEF TypeOK
        <5> QED BY <4>2, <5>2, <5>3
      <4>3. ASSUME NEW i \in 1..(n + 1), NEW j \in 1..(n + 1), i < j, inbox'[i][1] = inbox'[j][1]
            PROVE  inbox'[i][2] < inbox'[j][2]
        <5>1. i \in 1..n
          BY <1>0, <4>3
        <5>2. CASE j \in 1..n
          BY <4>1, <4>3, <5>1, <5>2 DEF Channel
        <5>3. CASE j = n + 1
          BY <4>1, <4>2, <4>3, <5>1, <5>3
        <5> QED BY <1>0, <5>2, <5>3
      <4>4. n + 1 <= Buffer
        BY <1>0, <3>4
      <4> QED BY <1>0, <2>1, <3>1, <3>2, <3>4, <4>1, <4>3, <4>4 DEF Channel
    <3> QED BY <2>3, <3>3, <3>4
  <2> QED BY <1>1, <2>2, <2>3, GatewayStep
<1>2. CASE UNCHANGED <<frames, inbox, lost>> /\ (sub' # "open" => inbox = << >> /\ lost = {})
  BY <1>0, <1>2 DEF Channel, Queued, Accepted
<1>3. CASE Forward
  <2>1. /\ inbox # << >> /\ inbox' = Tail(inbox) /\ lost' = lost /\ sub' = sub /\ frames' = frames
    BY <1>3 DEF Forward, vars, decoderVars
  <2>2. /\ inbox' \in Seq(Frame) /\ Len(inbox') = Len(inbox) - 1
        /\ Len(inbox) \in Nat \ {0}
        /\ \A i \in 1..Len(inbox') : i + 1 \in 1..Len(inbox) /\ inbox'[i] = inbox[i + 1]
        /\ Queued = Queued' \cup {Head(inbox)}
    BY <1>0, <2>1, Dequeue
  <2>3. sub = "open"
    BY <2>1 DEF Channel
  <2>4. ASSUME NEW i \in 1..Len(inbox'), NEW j \in 1..Len(inbox'), i < j, inbox'[i][1] = inbox'[j][1]
        PROVE  inbox'[i][2] < inbox'[j][2]
    <3>1. i + 1 < j + 1 /\ i + 1 \in 1..Len(inbox) /\ j + 1 \in 1..Len(inbox)
      BY <2>2, <2>4
    <3> QED BY <2>2, <2>4, <3>1 DEF Channel
  <2>5. Len(inbox') <= Buffer
    BY <1>0, <2>2
  <2> QED BY <1>0, <2>1, <2>2, <2>3, <2>4, <2>5 DEF Channel, Accepted
<1>4. CASE Call \/ ReadStore \/ ReadHub \/ WaitForLive \/ Backfill \/ EndOfStream
  BY <1>2, <1>4 DEF Call, ReadStore, ReadHub, WaitForLive, Backfill, EndOfStream, Channel, vars, decoderVars
<1>5. CASE SubscribeMessages
  <2>1. sub = "none"
    BY <1>5 DEF SubscribeMessages, Control
  <2> QED BY <1>2, <1>5, <2>1 DEF SubscribeMessages, Channel, vars, decoderVars
<1>6. CASE UNCHANGED allVars
  BY <1>2, <1>6 DEF allVars, readVars, vars, decoderVars, Channel
<1> QED BY <1>1, <1>3, <1>4, <1>5, <1>6 DEF ReadNext, Reader

\* A frame the gateway publishes while a follower is subscribed is in the channel, or
\* dropped from it, and no frame leaves either.
LEMMA NewFrameIsHeld ==
    ASSUME FlushInv, ReadInv, Gateway
    PROVE  /\ Accepted \subseteq Accepted'
           /\ Queued \subseteq Queued' /\ lost \subseteq lost'
           /\ sub = "open" =>
                 \A k \in 1..frames'[asked] : k \in 1..frames[asked] \/ <<asked, k>> \in Queued' \cup lost'
           /\ closed => frames'[asked] = frames[asked]
<1> USE DEF ReadInv, FlushInv, TimelineIsFaithful
<1>1. CASE frames' = frames /\ inbox' = inbox /\ lost' = lost
  BY <1>1 DEF Accepted, Queued
<1>2. ASSUME NEW f \in Flows, PublishMessage(f),
             \/ sub # "open" /\ inbox' = inbox /\ lost' = lost
             \/ /\ sub = "open" /\ Len(inbox) < Buffer
                /\ inbox' = Append(inbox, <<f, frames[f] + 1>>) /\ lost' = lost
             \/ /\ sub = "open"
                /\ inbox' = inbox /\ lost' = lost \cup {<<f, frames[f] + 1>>}
      PROVE  /\ Accepted \subseteq Accepted'
             /\ Queued \subseteq Queued' /\ lost \subseteq lost'
             /\ sub = "open" =>
                   \A k \in 1..frames'[asked] :
                      k \in 1..frames[asked] \/ <<asked, k>> \in Queued' \cup lost'
             /\ ~closed
  <2> DEFINE m == <<f, frames[f] + 1>>
  <2>1. /\ m \in Frame /\ Accepted' = Accepted \cup {m} /\ ~closed
        /\ frames' = [frames EXCEPT ![f] = frames[f] + 1]
    BY <1>2, PublishedFrame
  <2>2. Queued \subseteq Queued' /\ lost \subseteq lost' /\ (sub = "open" => m \in Queued' \cup lost')
    BY <1>2, <2>1, Enqueue DEF ReadTypeOK, Queued
  <2>3. ASSUME NEW k \in 1..frames'[asked] PROVE k \in 1..frames[asked] \/ <<asked, k>> = m
    <3>1. asked \in Flows /\ frames[asked] \in Nat
      BY BoundsAssumption DEF TypeOK, Control
    <3>2. CASE asked = f
      <4>1. frames'[asked] = frames[asked] + 1
        BY <2>1, <3>1, <3>2 DEF TypeOK
      <4> QED BY <3>1, <3>2, <4>1
    <3>3. CASE asked # f
      BY <2>1, <3>1, <3>3 DEF TypeOK
    <3> QED BY <3>2, <3>3
  <2> QED BY <2>1, <2>2, <2>3
<1> QED BY <1>1, <1>2, GatewayStep

\* What the backfill is about to send stays on top of what the bundle has.
LEMMA GatheredStep ==
    ASSUME FlushInv, ReadInv, [ReadNext]_allVars
    PROVE  Gathered'
<1> USE DEF ReadInv, FlushInv, TimelineIsFaithful
<1>1. CASE Gateway
  <2> SUFFICES ASSUME at \in {"alone", "subscribed"}
               PROVE  /\ \A m \in answer :
                            /\ m \in Accepted' /\ m[1] = asked
                            /\ \A k \in 1..m[2] : <<asked, k>> \in saved' \cup answer
                      /\ sub = "open" =>
                            \A k \in 1..frames'[asked] :
                               <<asked, k>> \in saved' \cup answer \cup Queued' \cup lost'
    BY <1>1 DEF Gateway, Gathered
  <2>1. saved \subseteq saved'
    BY <1>1, SavedStep DEF Gateway, FlushOrder
  <2>2. /\ \A m \in answer :
              /\ m \in Accepted /\ m[1] = asked
              /\ \A k \in 1..m[2] : <<asked, k>> \in saved \cup answer
        /\ sub = "open" =>
              \A k \in 1..frames[asked] : <<asked, k>> \in saved \cup answer \cup Queued \cup lost
    BY DEF Gathered
  <2> QED BY <1>1, <2>1, <2>2, NewFrameIsHeld
<1>2. CASE WaitForLive
  BY <1>2 DEF WaitForLive, Control, Gathered
<1>3. CASE SubscribeMessages
  <2>1. /\ at = "found" /\ sub = "none" /\ answer = {} /\ asked \in Flows
        /\ asked' = asked /\ saved' = saved /\ frames' = frames /\ inbox' = inbox /\ lost' = lost
    BY <1>3 DEF SubscribeMessages, Control, vars, decoderVars, bundleVars
  <2>2. CASE sub' = "nil" /\ answer' = answer
    BY <2>1, <2>2 DEF Gathered
  <2>3. CASE sub' = "open" /\ answer' = hubFrames(asked)
    <3>1. ASSUME NEW k \in 1..frames[asked] PROVE <<asked, k>> \in saved \cup answer'
      <4>1. <<asked, k>> \in Accepted
        BY <2>1, BoundsAssumption DEF Accepted, Frame, TypeOK
      <4>2. CASE <<asked, k>> \notin saved
        <5>1. PICK i \in 1..Len(messages) : messages[i] = <<asked, k>>
          BY <4>1, <4>2 DEF FramesInv, NoneMissing
        <5>2. messages[i][1] = asked
          BY <5>1
        <5> QED BY <2>3, <5>1, <5>2 DEF hubFrames
      <4> QED BY <4>2
    <3>2. ASSUME NEW m \in answer'
          PROVE  /\ m \in Accepted /\ m[1] = asked
                 /\ \A k \in 1..m[2] : k \in 1..frames[asked]
      <4>1. PICK i \in 1..Len(messages) : messages[i] = m /\ m[1] = asked
        BY <2>3, <3>2 DEF hubFrames
      <4>2. m \in Accepted /\ m \in Frame
        BY <4>1 DEF FramesInv, OnlyAccepted, Accepted
      <4>3. m[2] <= frames[asked] /\ m[2] \in Nat /\ frames[asked] \in Nat
        BY <2>1, <4>1, <4>2, FrameParts, BoundsAssumption DEF Accepted, TypeOK
      <4> QED BY <4>1, <4>2, <4>3
    <3> QED BY <2>1, <3>1, <3>2 DEF Gathered, Accepted
  <2> QED BY <1>3, <2>2, <2>3 DEF SubscribeMessages, snapshot
<1>4. CASE Call \/ ReadStore \/ ReadHub \/ Backfill \/ Forward \/ EndOfStream
  BY <1>4 DEF Call, ReadStore, ReadHub, Backfill, Forward, EndOfStream, Gathered
<1>5. CASE UNCHANGED allVars
  BY <1>5 DEF allVars, readVars, vars, decoderVars, bundleVars, Gathered, Accepted, Queued
<1> QED BY <1>1, <1>2, <1>3, <1>4, <1>5 DEF ReadNext, Reader

\* The timeline grows by the flow's next frame that was not dropped, or not at all.
LEMMA TimelineStep ==
    ASSUME FlushInv, ReadInv, [ReadNext]_allVars
    PROVE  /\ timeline' \in Seq(1..MaxFrames)
           /\ TimelineInOrder' /\ TimelineComplete' /\ Followed'
<1> USE DEF ReadInv, FlushInv, TimelineIsFaithful
<1>0. /\ timeline \in Seq(1..MaxFrames) /\ asked \in Flows
      /\ frames[asked] \in 0..MaxFrames /\ MaxFrames \in Nat
  BY BoundsAssumption DEF ReadTypeOK, TypeOK
<1>1. CASE Gateway
  <2>1. UNCHANGED <<call, at, asked, sub, timeline>>
    BY <1>1 DEF Gateway
  <2>2. /\ Queued \subseteq Queued' /\ lost \subseteq lost'
        /\ sub = "open" =>
              \A k \in 1..frames'[asked] : k \in 1..frames[asked] \/ <<asked, k>> \in Queued' \cup lost'
        /\ closed => frames'[asked] = frames[asked]
    BY <1>1, NewFrameIsHeld
  <2>3. closed => closed'
    BY <1>1, LifeStep DEF Gateway, FlushOrder
  <2>4. Sent' = Sent
    BY <2>1 DEF Sent
  <2>5. \A n : Sendable(n)' \subseteq Sendable(n)
    BY <2>1, <2>2 DEF Sendable
  <2>6. TimelineInOrder'
    BY <2>1, <2>4, <2>5 DEF TimelineInOrder
  <2>7. Followed'
    BY <2>1, <2>2, <2>3, <2>4 DEF Followed
  <2>8. TimelineComplete'
    <3> SUFFICES ASSUME call = "StreamMessages", at = "answered"
                 PROVE  Sendable(frames[asked])' \subseteq Sent'
      BY <2>1 DEF TimelineComplete
    <3>1. frames'[asked] = frames[asked]
      BY <2>2 DEF Followed
    <3>2. Sendable(frames[asked]) \subseteq Sent
      BY DEF TimelineComplete
    <3> QED BY <2>1, <2>2, <2>4, <3>1, <3>2 DEF Sendable
  <2> QED BY <1>0, <2>1, <2>6, <2>7, <2>8
<1>2. CASE Backfill
  <2>1. /\ at \in {"subscribed", "alone"}
        /\ at' = IF at = "alone" THEN "answered" ELSE "following"
        /\ UNCHANGED <<call, asked, sub, inbox, lost, frames, life, saved, answer>>
    BY <1>2 DEF Backfill, vars, decoderVars, bundleVars
  <2>2. /\ timeline' \in Seq(1..MaxFrames)
        /\ Rising(timeline')
        /\ \A k \in 1..MaxFrames : k \in Sent' <=> <<asked, k>> \in saved \cup answer
    BY <1>2, BackfillSends DEF Sent, NumbersOf
  <2>3. ASSUME NEW k \in Sent', NEW j \in 1..k PROVE j \in Sent'
    <3>1. k \in 1..MaxFrames
      BY <2>2, ElementOfSeq DEF Sent
    <3>2. j \in 1..MaxFrames
      BY <1>0, <3>1
    <3>3. <<asked, k>> \in saved \/ <<asked, k>> \in answer
      BY <2>2, <3>1
    <3>4. <<asked, j>> \in saved \cup answer
      BY <2>1, <3>3 DEF Gathered, FlushOrder, SavedFromTheFirst
    <3> QED BY <2>2, <3>2, <3>4
  <2>4. TimelineInOrder'
    <3> SUFFICES ASSUME NEW i \in 1..Len(timeline')
                 PROVE  /\ \A j \in 1..(i - 1) : timeline'[j] < timeline'[i]
                        /\ Sendable(timeline[i])' \subseteq Sent'
      BY DEF TimelineInOrder
    <3>1. Len(timeline') \in Nat
      BY <2>2
    <3>2. \A j \in 1..(i - 1) : j \in 1..Len(timeline') /\ j < i
      BY <3>1
    <3>3. timeline'[i] \in Sent'
      BY DEF Sent
    <3> QED BY <2>2, <2>3, <3>2, <3>3 DEF Rising, Sendable
  <2>5. Followed'
    <3>1. ASSUME at = "subscribed", sub = "open", NEW k \in 1..frames[asked]
          PROVE  k \in Sent' \/ <<asked, k>> \in Queued \cup lost
      <4>1. k \in 1..MaxFrames
        BY <1>0
      <4> QED BY <2>2, <3>1, <4>1 DEF Gathered
    <3>2. Queued' = Queued
      BY <2>1 DEF Queued
    <3>3. at = "alone" => closed'
      BY <2>1 DEF Control, closed
    <3> QED BY <2>1, <3>1, <3>2, <3>3 DEF Followed
  <2>6. TimelineComplete'
    <3> SUFFICES ASSUME at = "alone", NEW k \in 1..frames[asked]
                 PROVE  k \in Sent'
      BY <2>1 DEF TimelineComplete, Sendable
    <3>1. k \in 1..MaxFrames /\ k <= frames[asked]
      BY <1>0
    <3>2. <<asked, k>> \in Accepted
      BY <1>0, <3>1 DEF Accepted, Frame
    <3>3. messages = << >>
      BY DEF Control, FlushOrder, FinalTakesFrames
    <3>4. <<asked, k>> \in saved
      BY <3>2, <3>3 DEF FramesInv, NoneMissing
    <3> QED BY <2>2, <3>1, <3>4
  <2> QED BY <2>2, <2>4, <2>5, <2>6
<1>3. CASE Forward
  <2> DEFINE m == Head(inbox)
             n == Len(timeline)
  <2>1. /\ at = "following" /\ inbox # << >> /\ inbox' = Tail(inbox)
        /\ timeline' = IF m[1] = asked /\ isNew(m[2]) THEN Append(timeline, m[2]) ELSE timeline
        /\ UNCHANGED <<call, at, asked, sub, lost, frames>>
    BY <1>3 DEF Forward, vars, decoderVars
  <2>2. /\ Queued = Queued' \cup {m} /\ m \in Frame
        /\ m = inbox[1] /\ 1 \in 1..Len(inbox) /\ Len(inbox) \in Nat
    BY <2>1, Dequeue DEF ReadTypeOK
  <2>3. m \in Accepted /\ m \notin lost /\ sub = "open"
    BY <2>1, <2>2 DEF Channel
  <2>4. \A k \in 1..frames[asked] : k \in Sent \/ <<asked, k>> \in Queued \cup lost
    BY <2>1, <2>3 DEF Followed
  <2>5. n \in Nat /\ m[2] \in 1..MaxFrames /\ m[2] \in Nat /\ m = <<m[1], m[2]>>
    BY <1>0, <2>2, FrameParts
  <2>6. CASE ~(m[1] = asked /\ isNew(m[2]))
    <3>1. timeline' = timeline /\ Sent' = Sent
      BY <2>1, <2>6 DEF Sent
    <3>2. m[1] = asked => m[2] \in Sent
      BY <2>6 DEF isNew, Sent
    <3>3. Followed'
      BY <2>1, <2>2, <2>4, <2>5, <3>1, <3>2 DEF Followed
    <3>4. TimelineInOrder' /\ TimelineComplete'
      BY <2>1, <3>1 DEF TimelineInOrder, TimelineComplete, Sendable
    <3> QED BY <1>0, <3>1, <3>3, <3>4
  <2>7. CASE m[1] = asked /\ isNew(m[2])
    <3>1. /\ timeline' \in Seq(1..MaxFrames) /\ Len(timeline') = n + 1
          /\ \A i \in 1..n : timeline'[i] = timeline[i]
          /\ timeline'[n + 1] = m[2]
      BY <1>0, <2>1, <2>5, <2>7
    <3>2. /\ \A i \in 1..(n + 1) : i \in 1..n \/ i = n + 1
          /\ \A i \in 1..n : i \in 1..(n + 1)
          /\ n + 1 \in 1..(n + 1)
      BY <2>5
    <3>3. Sent' = Sent \cup {m[2]}
      BY <3>1, <3>2 DEF Sent
    <3>4. m[2] \notin Sent
      BY <2>7 DEF isNew, Sent
    <3>5. ASSUME NEW i \in 1..n PROVE timeline[i] < m[2]
      <4>1. timeline[i] \in 1..MaxFrames /\ timeline[i] \in Nat
        BY <1>0, ElementOfSeq
      <4>2. ASSUME m[2] <= timeline[i] PROVE FALSE
        <5>1. m[2] \in Sendable(timeline[i])
          BY <2>3, <2>5, <2>7, <4>1, <4>2 DEF Sendable
        <5> QED BY <3>4, <5>1 DEF TimelineInOrder
      <4> QED BY <2>5, <4>1, <4>2
    <3>6. ASSUME NEW k \in 1..(m[2] - 1), <<asked, k>> \notin lost PROVE k \in Sent
      <4>1. m[2] <= frames[asked]
        BY <2>3, <2>7 DEF Accepted
      <4>2. k \in 1..frames[asked] /\ k < m[2]
        BY <1>0, <2>5, <4>1
      <4>3. ASSUME NEW i \in 1..Len(inbox), inbox[i] = <<asked, k>> PROVE FALSE
        <5>1. i = 1 \/ 1 < i
          BY <2>2
        <5>2. inbox[i][1] = asked /\ inbox[i][2] = k
          BY <4>3
        <5>3. 1 < i => m[2] < k
          BY <2>2, <2>7, <5>2 DEF Channel
        <5>4. i = 1 => k = m[2]
          BY <2>2, <5>2
        <5> QED BY <2>5, <4>2, <5>1, <5>3, <5>4
      <4>4. <<asked, k>> \notin Queued
        BY <4>3 DEF Queued
      <4> QED BY <2>4, <3>6, <4>2, <4>4
    <3>7. ASSUME NEW k \in 1..m[2], <<asked, k>> \notin lost PROVE k \in Sent'
      <4>1. k = m[2] \/ k \in 1..(m[2] - 1)
        BY <2>5
      <4> QED BY <3>3, <3>6, <3>7, <4>1
    <3>8. TimelineInOrder'
      <4> SUFFICES ASSUME NEW i \in 1..(n + 1)
                   PROVE  /\ \A j \in 1..(i - 1) : timeline'[j] < timeline'[i]
                          /\ Sendable(timeline[i])' \subseteq Sent'
        BY <3>1 DEF TimelineInOrder
      <4>1. CASE i \in 1..n
        <5>1. \A j \in 1..(i - 1) : j \in 1..n
          BY <2>5, <4>1
        <5>2. timeline'[i] = timeline[i] /\ \A j \in 1..(i - 1) : timeline'[j] = timeline[j]
          BY <3>1, <4>1, <5>1
        <5>3. Sendable(timeline[i]) \subseteq Sent /\ \A j \in 1..(i - 1) : timeline[j] < timeline[i]
          BY <4>1 DEF TimelineInOrder
        <5>4. Sendable(timeline[i])' = Sendable(timeline[i])
          BY <2>1, <5>2 DEF Sendable
        <5> QED BY <3>3, <5>2, <5>3, <5>4
      <4>2. CASE i = n + 1
        <5>1. \A j \in 1..(i - 1) : j \in 1..n
          BY <2>5, <4>2
        <5>2. timeline'[i] = m[2]
          BY <3>1, <4>2
        <5>3. Sendable(timeline[i])' \subseteq Sent'
          BY <2>1, <3>7, <5>2 DEF Sendable
        <5> QED BY <3>1, <3>5, <5>1, <5>2, <5>3
      <4> QED BY <3>2, <4>1, <4>2
    <3>9. Followed' /\ TimelineComplete'
      BY <2>1, <2>2, <2>4, <2>5, <2>7, <3>3 DEF Followed, TimelineComplete
    <3> QED BY <3>1, <3>8, <3>9
  <2> QED BY <2>6, <2>7
<1>4. CASE EndOfStream
  <2>1. /\ at = "following" /\ sub = "open" /\ closed /\ at' = "answered" /\ inbox = << >>
        /\ UNCHANGED <<call, asked, lost, timeline, frames, life>>
    BY <1>4 DEF EndOfStream, vars, decoderVars
  <2>2. Sent' = Sent /\ closed' /\ Queued = {}
    BY <2>1 DEF Sent, closed, Queued
  <2>3. Sendable(frames[asked])' \subseteq Sent'
    BY <2>1, <2>2 DEF Sendable, Followed
  <2>4. TimelineInOrder'
    BY <2>1, <2>2 DEF TimelineInOrder, Sendable
  <2> QED BY <1>0, <2>1, <2>2, <2>3, <2>4 DEF Followed, TimelineComplete
<1>5. ASSUME UNCHANGED <<asked, lost, timeline>>, at' # "following",
             at' = "answered" => call' # "StreamMessages"
      PROVE  timeline' \in Seq(1..MaxFrames) /\ TimelineInOrder' /\ TimelineComplete' /\ Followed'
  BY <1>0, <1>5 DEF TimelineInOrder, TimelineComplete, Followed, Sendable, Sent
<1>6. CASE Call \/ ReadStore \/ ReadHub \/ WaitForLive \/ SubscribeMessages
  BY <1>5, <1>6 DEF Call, ReadStore, ReadHub, WaitForLive, SubscribeMessages, Control
<1>7. CASE UNCHANGED allVars
  <2>1. UNCHANGED <<call, at, asked, sub, inbox, lost, timeline, frames, life>>
    BY <1>7 DEF allVars, readVars, vars, decoderVars
  <2> QED BY <1>0, <2>1 DEF TimelineInOrder, TimelineComplete, Followed, Sendable, Sent, Queued, closed
<1> QED BY <1>1, <1>2, <1>3, <1>4, <1>6, <1>7 DEF ReadNext, Reader

\* The variables of a read keep their types.
LEMMA ReadTypeStep ==
    ASSUME FlushInv, ReadInv, [ReadNext]_allVars
    PROVE  ReadTypeOK'
<1> USE DEF ReadInv, TimelineIsFaithful, ReadTypeOK
<1>1. inbox' \in Seq(Frame) /\ Len(inbox') <= Buffer /\ lost' \subseteq Frame
  BY ChannelStep
<1>2. timeline' \in Seq(1..MaxFrames)
  BY TimelineStep
<1>3. messages \in Seq(Frame) /\ saved \subseteq Frame /\ \A f \in Flows : frames[f] \in 0..MaxFrames
  BY DEF FlushInv, TypeOK
<1>4. \A f : hubFrames(f) \subseteq Frame /\ storedFrames(f) \subseteq Frame
  BY <1>3, ElementOfSeq DEF hubFrames, storedFrames
<1>5. CASE Gateway
  BY <1>1, <1>2, <1>5 DEF Gateway
<1>6. CASE Call
  <2>1. PICK c \in ReadCalls : call' = c /\ owed' = Owed(c)
    BY <1>6 DEF Call
  <2>2. \A k \in 1..frames[asked] : <<asked, k>> \in Frame
    BY <1>3, BoundsAssumption DEF Frame
  <2>3. frames[asked] > 0 => 1 \in 1..frames[asked]
    BY <1>3, BoundsAssumption
  <2>4. \A k \in 1..(IF frames[asked] > 0 THEN 1 ELSE 0) : <<asked, k>> \in Frame
    BY <2>2, <2>3
  <2>5. Owed(c) \subseteq Flows \cup Frame
    <3>1. CASE c \in {"GetFlow", "GetBody", "QueryFlows"}
      BY <3>1 DEF Owed
    <3>2. CASE c = "GetMessage"
      BY <2>4, <3>2 DEF Owed
    <3>3. CASE c \notin {"GetFlow", "GetBody", "QueryFlows", "GetMessage"}
      BY <2>2, <3>3 DEF Owed
    <3> QED BY <3>1, <3>2, <3>3
  <2> QED BY <1>1, <1>2, <1>6, <2>1, <2>5 DEF Call
<1>7. CASE ReadStore
  <2>1. FromStore \subseteq Flows \cup Frame
    BY <1>3, <1>4 DEF FromStore
  <2> QED BY <1>1, <1>2, <1>7, <2>1 DEF ReadStore
<1>8. CASE ReadHub
  <2>1. FromHub \subseteq Flows \cup Frame
    BY <1>4 DEF FromHub, unflushedFlows
  <2> QED BY <1>1, <1>2, <1>8, <2>1 DEF ReadHub
<1>9. CASE WaitForLive
  BY <1>1, <1>2, <1>9 DEF WaitForLive
<1>10. CASE SubscribeMessages
  BY <1>1, <1>2, <1>4, <1>10 DEF SubscribeMessages, snapshot
<1>11. CASE Backfill
  BY <1>1, <1>2, <1>11 DEF Backfill
<1>12. CASE Forward \/ EndOfStream
  BY <1>1, <1>2, <1>12 DEF Forward, EndOfStream
<1>13. CASE UNCHANGED allVars
  BY <1>1, <1>2, <1>13 DEF allVars, readVars
<1> QED
  BY <1>5, <1>6, <1>7, <1>8, <1>9, <1>10, <1>11, <1>12, <1>13 DEF ReadNext, Reader

-----------------------------------------------------------------------------
\* A follower of a flow's frames is sent them in order, each once and none passed over but
\* those a full channel dropped, and all of them by the time its stream has ended, for any
\* number of flows, frames and any channel: a frame the flusher moves from ls.messages to
\* the bundle between the subscription and the backfill is in one of the two, and one
\* that is in both is sent once (server.go:345-436, live.go:453-510).
THEOREM TimelineFaithful == ReadSpec => []TimelineIsFaithful
<1>1. ReadInit => ReadInv
  <2> SUFFICES ASSUME ReadInit PROVE ReadInv
    OBVIOUS
  <2> USE DEF ReadInit
  <2>1. ReadTypeOK
    BY ReadAssumption, EmptySeq DEF ReadTypeOK
  <2>2. Control /\ Channel /\ Gathered /\ Followed
    BY DEF Control, Channel, Queued, Gathered, Followed
  <2>3. TimelineInOrder /\ TimelineComplete
    BY DEF TimelineInOrder, TimelineComplete
  <2> QED BY <2>1, <2>2, <2>3 DEF ReadInv, TimelineIsFaithful
<1>2. FlushInv /\ ReadInv /\ [ReadNext]_allVars => ReadInv'
  <2> SUFFICES ASSUME FlushInv, ReadInv, [ReadNext]_allVars
               PROVE  ReadInv'
    OBVIOUS
  <2>1. Control'
    BY ControlStep DEF ReadInv
  <2> QED BY <2>1, ChannelStep, GatheredStep, TimelineStep, ReadTypeStep DEF ReadInv, TimelineIsFaithful
<1>3. ReadInv => TimelineIsFaithful
  BY DEF ReadInv
<1> QED BY <1>1, <1>2, <1>3, FlushUnderReads, PTL DEF ReadSpec
=============================================================================
