----------------------- MODULE SessionLifecycleProofs -----------------------
(* Ending a session, for any number of force-closes and of crashes: the type *)
(* invariant, that a CLOSED session is recorded, and that a capture is       *)
(* decoded once.                                                             *)
EXTENDS SessionLifecycle, TLAPS

-----------------------------------------------------------------------------
(* Types, in three parts.                                                   *)

\* The variables that are flags.
Flags ==
    /\ counted \in BOOLEAN
    /\ hub \in BOOLEAN
    /\ flushErr \in BOOLEAN
    /\ tail \in BOOLEAN
    /\ liveRows \in BOOLEAN
    /\ pcap \in BOOLEAN
    /\ finalizing \in BOOLEAN
    /\ fallback \in BOOLEAN

\* The variables that are states and numbers.
Places ==
    /\ world \in Worlds
    /\ status \in {"OPEN", "CLOSED", "ERROR"}
    /\ decode \in {"off", "running", "done"}
    /\ loop \in {"off", "running", "failed", "marked", "waiting", "exited"}
    /\ upload \in {"none", "open", "ended", "broken"}
    /\ src \in {"capturing", "draining", "closing", "stopped"}
    /\ pc \in [Calls -> {"idle"} \cup Running \cup Returned]
    /\ batches \in Nat
    /\ forced \in 0..MaxForce
    /\ crashes \in 0..MaxCrashes

Results == got \in [Calls -> BOOLEAN]

\* Every step keeps the flags flags.
LEMMA FlagsStep ==
    ASSUME Flags, [Next]_vars
    PROVE  Flags'
<1> USE DEF Flags, At, Goto, Return, catalogVars, hubVars, bundleVars, callVars, boundVars
<1>1. CASE Upload \/ Decode \/ Loop \/ Source
  <2>1. CASE Upload
    BY <2>1 DEF Upload, UploadBegin, UploadData, UploadEnd, UploadRefused, UploadBreak
  <2>2. CASE Decode
    BY <2>2 DEF Decode, DecodeDrained, DecodePanicked
  <2>3. CASE Loop
    BY <2>3 DEF Loop, LoopFlush, LoopFail, FlushErrorMark, FlushErrorStop, StopCaptureReturns
  <2>4. CASE Source
    BY <2>4 DEF Source, SourceStop, SourceClose, SourceStopped, SourceDies
  <2> QED BY <1>1, <2>1, <2>2, <2>3, <2>4
<1>2. ASSUME NEW c \in Calls, finalizeSession(c) PROVE Flags'
  <2>1. CASE Enter(c) \/ Check(c) \/ HubStop(c) \/ AwaitDecode(c)
    BY <2>1 DEF Enter, Check, HubStop, AwaitDecode
  <2>2. CASE StopFlusher(c) \/ PersistLive(c) \/ BatchDecode(c) \/ BatchFailed(c)
    BY <2>2 DEF StopFlusher, PersistLive, BatchDecode, BatchFailed
  <2>3. CASE NothingCaptured(c) \/ PersistFailed(c) \/ Finish(c) \/ FinishFailed(c)
    BY <2>3 DEF NothingCaptured, PersistFailed, Finish, FinishFailed
  <2> QED BY <1>2, <2>1, <2>2, <2>3 DEF finalizeSession
<1>3. CASE ForceBegin \/ ForceFallback
  BY <1>3 DEF ForceBegin, ForceFallback
<1>4. CASE Crash \/ Quiescent \/ UNCHANGED vars
  BY <1>4 DEF Crash, Quiescent, vars
<1> QED BY <1>1, <1>2, <1>3, <1>4 DEF Next

\* Every step keeps the states and the numbers in range.
LEMMA PlacesStep ==
    ASSUME Places, [Next]_vars
    PROVE  Places'
<1> USE LifecycleAssumption DEF Places, Calls, Running, Returned, At, Goto, Return, catalogVars, hubVars, bundleVars, callVars, boundVars
<1>1. CASE Upload \/ Decode \/ Loop \/ Source
  BY <1>1 DEF Upload, UploadBegin, UploadData, UploadEnd, UploadRefused, UploadBreak,
              Decode, DecodeDrained, DecodePanicked, Loop, LoopFlush, LoopFail, FlushErrorMark,
              FlushErrorStop, StopCaptureReturns, Source, SourceStop, SourceClose, SourceStopped,
              SourceDies
<1>2. ASSUME NEW c \in Calls, finalizeSession(c) PROVE Places'
  BY <1>2 DEF finalizeSession, Enter, Check, HubStop, AwaitDecode, StopFlusher, PersistLive,
              BatchDecode, BatchFailed, NothingCaptured, PersistFailed, Finish, FinishFailed
<1>3. CASE ForceBegin \/ ForceFallback \/ Crash \/ Quiescent \/ UNCHANGED vars
  BY <1>3 DEF ForceBegin, ForceFallback, Crash, Quiescent, vars
<1> QED BY <1>1, <1>2, <1>3 DEF Next

\* Every step keeps the results of hub.stop a function.
LEMMA ResultsStep ==
    ASSUME Results, hub \in BOOLEAN, [Next]_vars
    PROVE  Results'
<1> USE DEF Results, At, Goto, Return, catalogVars, hubVars, bundleVars, callVars, boundVars
<1>1. CASE Upload \/ Decode \/ Loop \/ Source
  BY <1>1 DEF Upload, UploadBegin, UploadData, UploadEnd, UploadRefused, UploadBreak,
              Decode, DecodeDrained, DecodePanicked, Loop, LoopFlush, LoopFail, FlushErrorMark,
              FlushErrorStop, StopCaptureReturns, Source, SourceStop, SourceClose, SourceStopped,
              SourceDies
<1>2. ASSUME NEW c \in Calls, finalizeSession(c) PROVE Results'
  BY <1>2 DEF finalizeSession, Enter, Check, HubStop, AwaitDecode, StopFlusher, PersistLive,
              BatchDecode, BatchFailed, NothingCaptured, PersistFailed, Finish, FinishFailed
<1>3. CASE ForceBegin \/ ForceFallback \/ Crash \/ Quiescent \/ UNCHANGED vars
  BY <1>3 DEF ForceBegin, ForceFallback, Crash, Quiescent, vars
<1> QED BY <1>1, <1>2, <1>3 DEF Next

\* What may go wrong in a history does not change in it.
LEMMA WorldFixed == [Next]_vars => world' = world
<1> SUFFICES ASSUME [Next]_vars PROVE world' = world
  OBVIOUS
<1> USE DEF boundVars
<1>1. CASE Upload \/ Decode \/ Loop \/ Source
  BY <1>1 DEF Upload, UploadBegin, UploadData, UploadEnd, UploadRefused, UploadBreak,
              Decode, DecodeDrained, DecodePanicked, Loop, LoopFlush, LoopFail, FlushErrorMark,
              FlushErrorStop, StopCaptureReturns, Source, SourceStop, SourceClose, SourceStopped,
              SourceDies
<1>2. ASSUME NEW c \in Calls, finalizeSession(c) PROVE world' = world
  BY <1>2 DEF finalizeSession, Enter, Check, HubStop, AwaitDecode, StopFlusher, PersistLive,
              BatchDecode, BatchFailed, NothingCaptured, PersistFailed, Finish, FinishFailed
<1>3. CASE ForceBegin \/ ForceFallback \/ Crash \/ Quiescent \/ UNCHANGED vars
  BY <1>3 DEF ForceBegin, ForceFallback, Crash, Quiescent, vars
<1> QED BY <1>1, <1>2, <1>3 DEF Next

\* The state of an ending session keeps its types, whatever fails and however
\* often it crashes (live.go, ingest.go; the variables of SessionLifecycle).
THEOREM LifecycleTypes == Spec => []TypeOK
<1>1. TypeOK <=> Flags /\ Places /\ Results
  BY DEF TypeOK, Flags, Places, Results
<1>2. Init => TypeOK
  <2>1. Init => Flags /\ Results
    BY DEF Init, Flags, Results
  <2>2. Init => Places
    BY LifecycleAssumption DEF Init, Places
  <2> QED BY <2>1, <2>2, <1>1
<1>3. TypeOK /\ [Next]_vars => TypeOK'
  <2>1. (Flags /\ Places /\ Results)' => TypeOK'
    BY DEF TypeOK, Flags, Places, Results
  <2>2. Flags => hub \in BOOLEAN
    BY DEF Flags
  <2> QED BY <1>1, <2>1, <2>2, FlagsStep, PlacesStep, ResultsStep
<1> QED BY <1>2, <1>3, PTL DEF Spec

-----------------------------------------------------------------------------
(* What one finalization at a time gives.                                   *)

Critical == {"checking", "stopping", "draining", "joining", "stopped", "persisted"}
Past == {"draining", "joining", "stopped", "persisted"}

\* One call at a time is past the door of finalizeSession.
OneFinalizer ==
    /\ \A c \in Calls : pc[c] \in Critical => finalizing
    /\ \A c, d \in Calls : pc[c] \in Critical /\ pc[d] \in Critical => c = d

\* The source closes a session once, and its upload breaks once.
CalledOnce ==
    /\ src \in {"capturing", "draining"} => pc["close"] = "idle"
    /\ upload \in {"none", "open"} => pc["upload"] = "idle"

\* A decode outside the hub is one that a call is waiting for.
DrainAttended == ~hub /\ decode = "running" => \E c \in Calls : pc[c] = "draining"

\* A call past hub.stop, or a session that is closed, has no hub session.
StoppedIsOut ==
    /\ \A c \in Calls : pc[c] \in Past => ~hub
    /\ status = "CLOSED" /\ ~fallback => ~hub /\ decode # "running"

\* What was decoded was captured, and what is persisted leaves no tail.
TailRecorded ==
    /\ tail => pcap
    /\ \A c \in Calls : pc[c] = "persisted" => ~tail \/ batches > 0

RecordInv ==
    /\ OneFinalizer
    /\ CalledOnce
    /\ DrainAttended
    /\ StoppedIsOut
    /\ TailRecorded
    /\ ClosedIsRecorded

\* Without failures of the store: a session that was live and is not any more is
\* terminal, or a call that took it out of the hub is still at work on it.
Attended ==
    ~hub /\ upload # "none" =>
        finalized \/ \E c \in Calls : pc[c] \in Past /\ got[c]

\* A failed flush ends in a status, before anybody gets past stopFlusher.
FailureMarked ==
    /\ flushErr => loop = "failed" \/ finalized
    /\ \A c \in Calls : pc[c] \in {"stopped", "persisted"} /\ got[c] => loop \in {"off", "exited"}
    /\ loop = "off" => ~flushErr
    /\ upload = "none" => loop = "off"

\* A call that finds no live session finds no capture either.
NothingMissed ==
    /\ upload = "none" => ~pcap /\ ~hub
    /\ \A c \in Calls : pc[c] = "stopping" /\ upload # "none" => hub
    /\ \A c \in Calls : pc[c] \in Past /\ ~got[c] => upload = "none"
    /\ batches = 0

OnceInv ==
    /\ OneFinalizer
    /\ CalledOnce
    /\ Attended
    /\ FailureMarked
    /\ NothingMissed

\* A terminal session's flusher is not running, and a call on its way to the final flush
\* finds that a flush failed; a force-close that falls back found the session terminal.
QuietInv ==
    /\ finalized => loop # "running"
    /\ loop = "failed" => flushErr
    /\ \A c \in Calls :
          finalized /\ pc[c] \in {"stopping", "draining", "joining", "stopped"} => flushErr
    /\ pc["force"] \in {"failed", "refused"} => finalized

\* A session that is CLOSED in the catalog has nothing left in memory only, if its
\* upload began before anybody ended it: for any failures of flush, store and
\* catalog and any number of crashes and force-closes (ingest.go:609-690,
\* live.go:219-251).
THEOREM ClosedMeansRecorded == ASSUME \A w \in Worlds : ~w.late PROVE Spec => []ClosedIsRecorded
<1> USE DEF catalogVars, hubVars, bundleVars, callVars, boundVars
<1>1. Init => RecordInv
  BY DEF Init, RecordInv, OneFinalizer, CalledOnce, DrainAttended, StoppedIsOut,
              TailRecorded, ClosedIsRecorded, finalized, Critical, Past, Calls, Running
<1>2. TypeOK /\ RecordInv /\ [Next]_vars => RecordInv'
  <2> SUFFICES ASSUME TypeOK, RecordInv, [Next]_vars PROVE RecordInv'
    OBVIOUS
  <2>0. ~LateBegin
    BY DEF TypeOK, LateBegin
  <2> USE DEF TypeOK, RecordInv, OneFinalizer, CalledOnce, DrainAttended, StoppedIsOut,
              TailRecorded, ClosedIsRecorded, finalized, Critical, Past, Calls, Running, At, Goto, Return
  <2>1. CASE UploadBegin BY <2>0, <2>1 DEF UploadBegin
  <2>2. CASE UploadData BY <2>2 DEF UploadData
  <2>3. CASE UploadEnd BY <2>3 DEF UploadEnd
  <2>4. CASE UploadRefused BY <2>4 DEF UploadRefused
  <2>5. CASE UploadBreak BY <2>5 DEF UploadBreak
  <2>6. CASE DecodeDrained BY <2>6 DEF DecodeDrained
  <2>7. CASE DecodePanicked BY <2>7 DEF DecodePanicked
  <2>8. CASE LoopFlush BY <2>8 DEF LoopFlush
  <2>9. CASE LoopFail BY <2>9 DEF LoopFail
  <2>10. CASE FlushErrorMark BY <2>10 DEF FlushErrorMark
  <2>11. CASE FlushErrorStop BY <2>11 DEF FlushErrorStop
  <2>12. CASE StopCaptureReturns BY <2>12 DEF StopCaptureReturns
  <2>13. CASE SourceStop BY <2>13 DEF SourceStop
  <2>14. CASE SourceClose BY <2>14 DEF SourceClose
  <2>15. CASE SourceStopped BY <2>15 DEF SourceStopped
  <2>16. CASE SourceDies BY <2>16 DEF SourceDies
  <2>17. CASE ForceBegin BY <2>17 DEF ForceBegin
  <2>18. CASE ForceFallback BY <2>18 DEF ForceFallback
  <2>19. CASE Crash BY <2>19 DEF Crash
  <2>20. ASSUME NEW c \in Calls, finalizeSession(c) PROVE RecordInv'
    <3>1. CASE Enter(c) BY <3>1 DEF Enter
    <3>2. CASE Check(c) BY <3>2 DEF Check
    <3>3. CASE HubStop(c) BY <3>3 DEF HubStop
    <3>4. CASE AwaitDecode(c) BY <3>4 DEF AwaitDecode
    <3>5. CASE StopFlusher(c) BY <3>5 DEF StopFlusher
    <3>6. CASE PersistLive(c) BY <3>6 DEF PersistLive
    <3>7. CASE BatchDecode(c) BY <3>7 DEF BatchDecode
    <3>8. CASE BatchFailed(c) BY <3>8 DEF BatchFailed
    <3>9. CASE NothingCaptured(c) BY <3>9 DEF NothingCaptured
    <3>10. CASE PersistFailed(c) BY <3>10 DEF PersistFailed
    <3>11. CASE Finish(c) BY <3>11 DEF Finish
    <3>12. CASE FinishFailed(c) BY <3>12 DEF FinishFailed
    <3> QED BY <2>20, <3>1, <3>2, <3>3, <3>4, <3>5, <3>6, <3>7, <3>8, <3>9, <3>10, <3>11, <3>12
            DEF finalizeSession
  <2>21. CASE Quiescent \/ UNCHANGED vars BY <2>21 DEF Quiescent, vars
  <2> QED BY <2>1, <2>2, <2>3, <2>4, <2>5, <2>6, <2>7, <2>8, <2>9, <2>10, <2>11, <2>12, <2>13, <2>14, <2>15, <2>16, <2>17, <2>18, <2>19, <2>20, <2>21
          DEF Next, Upload, Decode, Loop, Source
<1>3. RecordInv => ClosedIsRecorded
  BY DEF RecordInv, OneFinalizer, CalledOnce, DrainAttended, StoppedIsOut,
              TailRecorded, ClosedIsRecorded, finalized, Critical, Past, Calls, Running, ClosedIsRecorded
<1> QED BY <1>1, <1>2, <1>3, LifecycleTypes, PTL DEF Spec

\* While store, catalog and gateway work, a session that left the hub is attended, a
\* failed flush is marked, and no call finds a capture it does not own.
LEMMA OnceKept == ASSUME \A w \in Worlds : ~w.late PROVE Spec => [](Steady => OnceInv)
<1> USE DEF catalogVars, hubVars, bundleVars, callVars, boundVars
<1>1. Init => (Steady => OnceInv)
  BY DEF Init, OnceInv, OneFinalizer, CalledOnce, Attended, FailureMarked,
              NothingMissed, finalized, Critical, Past, Calls, Running
<1>2. TypeOK /\ (Steady => OnceInv) /\ [Next]_vars => (Steady => OnceInv)'
  <2> SUFFICES ASSUME TypeOK, Steady, OnceInv, [Next]_vars PROVE OnceInv'
    BY WorldFixed DEF Steady, PersistFails, CatalogFails
  <2>0. ~LateBegin /\ ~PersistFails /\ ~CatalogFails /\ ~world.crash
    BY DEF TypeOK, LateBegin, Steady
  <2> USE DEF TypeOK, OnceInv, OneFinalizer, CalledOnce, Attended, FailureMarked,
              NothingMissed, finalized, Critical, Past, Calls, Running, At, Goto, Return
  <2>1. CASE UploadBegin BY <2>0, <2>1 DEF UploadBegin
  <2>2. CASE UploadData BY <2>0, <2>2 DEF UploadData
  <2>3. CASE UploadEnd BY <2>0, <2>3 DEF UploadEnd
  <2>4. CASE UploadRefused BY <2>0, <2>4 DEF UploadRefused
  <2>5. CASE UploadBreak BY <2>0, <2>5 DEF UploadBreak
  <2>6. CASE DecodeDrained BY <2>0, <2>6 DEF DecodeDrained
  <2>7. CASE DecodePanicked BY <2>0, <2>7 DEF DecodePanicked
  <2>8. CASE LoopFlush BY <2>0, <2>8 DEF LoopFlush
  <2>9. CASE LoopFail BY <2>0, <2>9 DEF LoopFail
  <2>10. CASE FlushErrorMark BY <2>0, <2>10 DEF FlushErrorMark
  <2>11. CASE FlushErrorStop BY <2>0, <2>11 DEF FlushErrorStop
  <2>12. CASE StopCaptureReturns BY <2>0, <2>12 DEF StopCaptureReturns
  <2>13. CASE SourceStop BY <2>0, <2>13 DEF SourceStop
  <2>14. CASE SourceClose BY <2>0, <2>14 DEF SourceClose
  <2>15. CASE SourceStopped BY <2>0, <2>15 DEF SourceStopped
  <2>16. CASE SourceDies BY <2>0, <2>16 DEF SourceDies
  <2>17. CASE ForceBegin BY <2>0, <2>17 DEF ForceBegin
  <2>18. CASE ForceFallback BY <2>0, <2>18 DEF ForceFallback
  <2>19. CASE Crash BY <2>0, <2>19 DEF Crash
  <2>20. ASSUME NEW c \in Calls, finalizeSession(c) PROVE OnceInv'
    <3>1. CASE Enter(c) BY <2>0, <3>1 DEF Enter
    <3>2. CASE Check(c) BY <2>0, <3>2 DEF Check
    <3>3. CASE HubStop(c) BY <2>0, <3>3 DEF HubStop
    <3>4. CASE AwaitDecode(c) BY <2>0, <3>4 DEF AwaitDecode
    <3>5. CASE StopFlusher(c) BY <2>0, <3>5 DEF StopFlusher
    <3>6. CASE PersistLive(c) BY <2>0, <3>6 DEF PersistLive
    <3>7. CASE BatchDecode(c) BY <2>0, <3>7 DEF BatchDecode
    <3>8. CASE BatchFailed(c) BY <2>0, <3>8 DEF BatchFailed
    <3>9. CASE NothingCaptured(c) BY <2>0, <3>9 DEF NothingCaptured
    <3>10. CASE PersistFailed(c) BY <2>0, <3>10 DEF PersistFailed
    <3>11. CASE Finish(c) BY <2>0, <3>11 DEF Finish
    <3>12. CASE FinishFailed(c) BY <2>0, <3>12 DEF FinishFailed
    <3> QED BY <2>20, <3>1, <3>2, <3>3, <3>4, <3>5, <3>6, <3>7, <3>8, <3>9, <3>10, <3>11, <3>12
            DEF finalizeSession
  <2>21. CASE Quiescent \/ UNCHANGED vars BY <2>0, <2>21 DEF Quiescent, vars
  <2> QED BY <2>1, <2>2, <2>3, <2>4, <2>5, <2>6, <2>7, <2>8, <2>9, <2>10, <2>11, <2>12, <2>13, <2>14, <2>15, <2>16, <2>17, <2>18, <2>19, <2>20, <2>21
          DEF Next, Upload, Decode, Loop, Source
<1> QED BY <1>1, <1>2, LifecycleTypes, PTL DEF Spec

\* A capture is decoded once, however the three calls that finalize it race and
\* the flush loop fails, if the store keeps working and the gateway keeps running
\* (ingest.go:71-74).
THEOREM OneAnalysis == ASSUME \A w \in Worlds : ~w.late PROVE Spec => []DecodedOnce
<1>1. (Steady => OnceInv) => DecodedOnce
  BY DEF OnceInv, NothingMissed, DecodedOnce, Once
<1> QED BY <1>1, OnceKept, PTL

-----------------------------------------------------------------------------
\* No step that QuietInv allows writes to the bundle of a terminal session.
LEMMA QuietStep ==
    ASSUME TypeOK, Steady, OnceInv, QuietInv, ~LateBegin, [Next]_vars
    PROVE  /\ QuietInv'
           /\ finalized => UNCHANGED <<liveRows, batches>> /\ (tail => tail')
<1> DEFINE Quiet == finalized => UNCHANGED <<liveRows, batches>> /\ (tail => tail')
<1>0. ~PersistFails /\ ~CatalogFails /\ ~world.crash
  BY DEF Steady
<1> USE DEF TypeOK, OnceInv, OneFinalizer, Attended, FailureMarked, NothingMissed, QuietInv, finalized,
            Critical, Past, Calls, Running, Returned, At, Goto, Return,
            catalogVars, hubVars, bundleVars, callVars, boundVars
<1>1. CASE UploadBegin BY <1>0, <1>1 DEF UploadBegin
<1>2. CASE UploadData BY <1>0, <1>2 DEF UploadData
<1>3. CASE UploadEnd BY <1>0, <1>3 DEF UploadEnd
<1>4. CASE UploadRefused BY <1>0, <1>4 DEF UploadRefused
<1>5. CASE UploadBreak BY <1>0, <1>5 DEF UploadBreak
<1>6. CASE DecodeDrained BY <1>0, <1>6 DEF DecodeDrained
<1>7. CASE DecodePanicked BY <1>0, <1>7 DEF DecodePanicked
<1>8. CASE LoopFlush BY <1>0, <1>8 DEF LoopFlush
<1>9. CASE LoopFail BY <1>0, <1>9 DEF LoopFail
<1>10. CASE FlushErrorMark BY <1>0, <1>10 DEF FlushErrorMark
<1>11. CASE FlushErrorStop BY <1>0, <1>11 DEF FlushErrorStop
<1>12. CASE StopCaptureReturns BY <1>0, <1>12 DEF StopCaptureReturns
<1>13. CASE SourceStop BY <1>0, <1>13 DEF SourceStop
<1>14. CASE SourceClose BY <1>0, <1>14 DEF SourceClose
<1>15. CASE SourceStopped BY <1>0, <1>15 DEF SourceStopped
<1>16. CASE SourceDies BY <1>0, <1>16 DEF SourceDies
<1>17. CASE ForceBegin BY <1>0, <1>17 DEF ForceBegin
<1>18. CASE ForceFallback BY <1>0, <1>18 DEF ForceFallback
<1>19. CASE Crash BY <1>0, <1>19 DEF Crash
<1>20. ASSUME NEW c \in Calls, finalizeSession(c) PROVE QuietInv' /\ Quiet
  <2>1. CASE Enter(c) BY <1>0, <2>1 DEF Enter
  <2>2. CASE Check(c) BY <1>0, <2>2 DEF Check
  <2>3. CASE HubStop(c) BY <1>0, <2>3 DEF HubStop
  <2>4. CASE AwaitDecode(c) BY <1>0, <2>4 DEF AwaitDecode
  <2>5. CASE StopFlusher(c) BY <1>0, <2>5 DEF StopFlusher
  <2>6. CASE PersistLive(c) BY <1>0, <2>6 DEF PersistLive
  <2>7. CASE BatchDecode(c) BY <1>0, <2>7 DEF BatchDecode
  <2>8. CASE BatchFailed(c) BY <1>0, <2>8 DEF BatchFailed
  <2>9. CASE NothingCaptured(c) BY <1>0, <2>9 DEF NothingCaptured
  <2>10. CASE PersistFailed(c) BY <1>0, <2>10 DEF PersistFailed
  <2>11. CASE Finish(c) BY <1>0, <2>11 DEF Finish
  <2>12. CASE FinishFailed(c) BY <1>0, <2>12 DEF FinishFailed
  <2> QED BY <1>20, <2>1, <2>2, <2>3, <2>4, <2>5, <2>6, <2>7, <2>8, <2>9, <2>10, <2>11, <2>12 DEF finalizeSession
<1>21. CASE Quiescent \/ UNCHANGED vars BY <1>21 DEF Quiescent, vars
<1> HIDE DEF TypeOK, OnceInv, QuietInv
<1> QED BY <1>1, <1>2, <1>3, <1>4, <1>5, <1>6, <1>7, <1>8, <1>9, <1>10, <1>11, <1>12, <1>13, <1>14, <1>15, <1>16, <1>17, <1>18, <1>19, <1>20, <1>21
        DEF Next, Upload, Decode, Loop, Source

\* "nothing more will be written to it" (store.go:230-231): a session that has its terminal
\* status gets no row of either analysis and drops nothing it holds, for any number of
\* racing force-closes and with failing flushes, if store, catalog and gateway work and
\* no call finalizes before the upload begins.
THEOREM TerminalStaysQuiet == ASSUME \A w \in Worlds : ~w.late PROVE Spec => TerminalIsQuiet
<1>1. Init => QuietInv
  BY DEF Init, QuietInv, finalized, Calls
<1>2. TypeOK => ~LateBegin
  BY DEF TypeOK, LateBegin
<1>3. TypeOK /\ (Steady => OnceInv) /\ (Steady => QuietInv) /\ [Next]_vars => (Steady => QuietInv)'
  BY <1>2, QuietStep, WorldFixed DEF Steady, PersistFails, CatalogFails
<1>4. TypeOK /\ (Steady => OnceInv) /\ (Steady => QuietInv) /\ [Next]_vars
        => [Steady /\ finalized => UNCHANGED <<liveRows, batches>> /\ (tail => tail')]_vars
  BY <1>2, QuietStep
<1> QED BY <1>1, <1>3, <1>4, OnceKept, LifecycleTypes, PTL DEF Spec, TerminalIsQuiet

=============================================================================
