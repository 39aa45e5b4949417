--------------------------- MODULE CaptureSources ---------------------------
(***************************************************************************)
(* The gateway's source manager and auxiliary services                     *)
(* (gateway/internal/sourcemgr), the ControlService calls that drive them, *)
(* and the harness a capture source serves them with                       *)
(* (capture_sdk/source.py).  Every critical section of Manager.mu or       *)
(* Services.mu, every call to another process and every exit of one is a   *)
(* step of its own, so that two calls which want the same source, a        *)
(* capture that ends by itself and the gateway's shutdown can meet.        *)
(*                                                                         *)
(* A connection is a number; proc says what is at its other end.           *)
(***************************************************************************)
EXTENDS Naturals, Sequences, FiniteSets, SequencesExt

CONSTANTS
    Calls,           \* gRPC handlers that may run at once
    Builtin,         \* built-in sources, spawned on demand
    Dialed,          \* sources of modules, dialed at their address
    ServedBy,        \* [Builtin -> Builtin]: whose connection a source uses
    ModuleServices,  \* [Dialed -> sequence of services]: the module's processes
    Installs,        \* the sets of sources an installation may have
    MaxConns,        \* bound: connections over a run ...
    MaxDials,        \* ... and those to one module
    MaxSessions,     \* bound: captures
    MaxServices,     \* bound: service processes
    MayCrash         \* what may die by itself: "spawned", "dialed", "service"

Sources == Builtin \cup Dialed
Services == UNION {Range(ModuleServices[k]) : k \in Dialed}
Conns == 1..MaxConns
Sessions == 1..MaxSessions
SvcProcs == 1..MaxServices

ASSUME SourcesAssumption ==
    /\ Builtin # {} /\ Builtin \cap Dialed = {}
    /\ ServedBy \in [Builtin -> Builtin]
    /\ \A s \in Builtin : ServedBy[ServedBy[s]] = ServedBy[s]
    /\ \A k \in Dialed : ModuleServices[k] \in Seq(Range(ModuleServices[k]))
    /\ {MaxConns, MaxDials, MaxSessions, MaxServices} \subseteq Nat
    /\ Installs \subseteq SUBSET Sources
    /\ MayCrash \subseteq {"spawned", "dialed", "service"}

VARIABLES
    specs,     \* the registered sources
    call,      \* [Calls -> where a handler is, and what it has in hand]
    conns,     \* [Sources -> connection cached under that key, 0 if none]
    session,   \* [Sessions -> the source that owns it, or "none"]
    proc,      \* [Conns -> state of the other end]
    of,        \* [Conns -> the key it was made for]
    stopping,  \* [Conns -> captures a source in shutdown has still to stop]
    cap,       \* [Sessions -> where the capture is in its life, see Captures]
    at,        \* [Sessions -> the connection whose source runs it]
    tracked,   \* sessions in the harness's _active
    running,   \* [Services -> the process recorded as running, 0 if none]
    svc,       \* [SvcProcs -> "unused", "up", "stopping", "dead" or "reaped"]
    gw,        \* the gateway: "up", "closing", "closed", "stopped", "exited"
    closing    \* the connections Manager.Close is closing

captureVars == <<cap, at, tracked>>
sourceVars == <<proc, of, stopping>>
serviceVars == <<running, svc>>
vars == <<specs, call, conns, session, sourceVars, captureVars, serviceVars, gw, closing>>

Gone == {"exited", "killed", "crashed", "closed"}
Usable == {"up", "remote"}

\* The key a source's connection is cached under.
keyOf(s) == IF s \in Builtin THEN ServedBy[s] ELSE s

\* A capture runs until its source is asked to stop it, or it begins to end by itself;
\* it is then closed, or its teardown failed and nobody tries again.
Captures == {"none", "running", "asked", "ending", "closed", "failed"}

\* A handler: what it was called for, the source and session it names, its connection
\* (or service process), the superfluous one it closes, the services yet to start.
Handlers ==
    [pc : {"idle", "ensure", "module", "svcspawn", "svcrecord", "spawn", "waiting", "store",
           "dropping", "rpc", "started", "record", "stopping", "unmap"},
     op : {"none", "start", "stop", "service"},
     src : Sources \cup {"none"},
     sid : 0..MaxSessions,
     held : 0..(MaxConns + MaxServices),
     spare : 0..MaxConns,
     todo : Seq(Services)]

Idle == [pc |-> "idle", op |-> "none", src |-> "none", sid |-> 0, held |-> 0, spare |-> 0,
         todo |-> << >>]

TypeOK ==
    /\ specs \subseteq Sources
    /\ call \in [Calls -> Handlers]
    /\ \A c \in Calls : call[c].pc \in {"rpc", "started", "record", "stopping", "unmap"} =>
         call[c].held # 0 /\ call[c].spare = 0
    /\ conns \in [Sources -> 0..MaxConns]
    /\ session \in [Sessions -> Sources \cup {"none"}]
    /\ proc \in [Conns -> {"unused", "starting", "up", "remote", "stopping"} \cup Gone]
    /\ of \in [Conns -> Sources]
    /\ stopping \in [Conns -> SUBSET Sessions]
    /\ cap \in [Sessions -> Captures]
    /\ at \in [Sessions -> 0..MaxConns]
    /\ tracked \subseteq Sessions
    /\ running \in [Services -> 0..MaxServices]
    /\ svc \in [SvcProcs -> {"unused", "up", "stopping", "dead", "reaped"}]
    /\ gw \in {"up", "closing", "closed", "stopped", "exited"}
    /\ closing \subseteq Conns

-----------------------------------------------------------------------------
(* The registry.                                                           *)

\* DefaultSpecs: the built-ins whose launcher was found, and those served by one.
DefaultSpecs(found) == {s \in Builtin : ServedBy[s] \in found}

\* ApplyManifests: a module with an address is a source; its processes are tied to it.
ApplyManifests(found) == found \cap Dialed

Init ==
    /\ \E found \in Installs : specs = DefaultSpecs(found) \cup ApplyManifests(found)
    /\ call = [c \in Calls |-> Idle]
    /\ conns = [s \in Sources |-> 0]
    /\ session = [s \in Sessions |-> "none"]
    /\ proc = [i \in Conns |-> "unused"]
    /\ of = [i \in Conns |-> CHOOSE s \in Sources : TRUE]
    /\ stopping = [i \in Conns |-> {}]
    /\ cap = [s \in Sessions |-> "none"]
    /\ at = [s \in Sessions |-> 0]
    /\ tracked = {}
    /\ running = [s \in Services |-> 0]
    /\ svc = [i \in SvcProcs |-> "unused"]
    /\ gw = "up"
    /\ closing = {}

\* A handler goes on, while the gateway process lives.
Step(c, from, next) ==
    /\ gw # "exited"
    /\ call[c].pc = from
    /\ call' = [call EXCEPT ![c] = next]

Go(c, from, to) == Step(c, from, [call[c] EXCEPT !.pc = to])
Return(c, from) == Step(c, from, Idle)

Fresh(f) == {i \in DOMAIN f : f[i] = "unused" /\ \A j \in DOMAIN f : j < i => f[j] # "unused"}

-----------------------------------------------------------------------------
(* The calls: DescribeCaptureSource, StartCapture, StopCapture.            *)

\* A viewer asks for a source's options or for a capture: which of them shows only
\* at the source.
Request(c) ==
    /\ \E s \in specs : Step(c, "idle", [Idle EXCEPT !.pc = "ensure", !.op = "start", !.src = s])
    /\ UNCHANGED <<specs, conns, session, sourceVars, captureVars, serviceVars, gw, closing>>

\* A viewer, or a failed flush, stops a capture: its source is looked up, and
\* without one the call is refused.
StopCapture(c) ==
    /\ \E s \in Sessions :
         /\ session[s] # "none"
         /\ Step(c, "idle", [Idle EXCEPT !.pc = "ensure", !.op = "stop", !.src = session[s],
                                        !.sid = s])
    /\ UNCHANGED <<specs, conns, session, sourceVars, captureVars, serviceVars, gw, closing>>

\* ensure, first section: a cached connection is used.
Ensure(c) ==
    LET k == keyOf(call[c].src) IN
    /\ call[c].pc = "ensure"
    /\ IF conns[k] # 0
          THEN Step(c, "ensure", [call[c] EXCEPT !.pc = "rpc", !.held = conns[k]])
          ELSE IF k \in Dialed
          THEN Step(c, "ensure", [call[c] EXCEPT !.pc = "module", !.todo = ModuleServices[k]])
          ELSE Go(c, "ensure", "spawn")
    /\ UNCHANGED <<specs, conns, session, sourceVars, captureVars, serviceVars, gw, closing>>

\* realSpawn: a built-in is launched and its ready line waited for; a module's
\* adapter, or the user's daemon, is dialed.
Spawn(c) ==
    LET k == keyOf(call[c].src) IN
    /\ call[c].pc = "spawn"
    /\ k \in Dialed => Cardinality({i \in Conns : proc[i] # "unused" /\ of[i] = k}) < MaxDials
    /\ \E i \in Fresh(proc) :
         /\ Step(c, "spawn", [call[c] EXCEPT !.pc = IF k \in Dialed THEN "store" ELSE "waiting",
                                            !.held = i])
         /\ proc' = [proc EXCEPT ![i] = IF k \in Dialed THEN "remote" ELSE "starting"]
         /\ of' = [of EXCEPT ![i] = k]
    /\ UNCHANGED <<specs, conns, session, stopping, captureVars, serviceVars, gw, closing>>

\* Nothing is listening there, or the command cannot be started.
SpawnRefused(c) ==
    /\ Return(c, "spawn")
    /\ UNCHANGED <<specs, conns, session, sourceVars, captureVars, serviceVars, gw, closing>>

\* readReady: the ready line is there ...
SpawnReady(c) ==
    /\ Go(c, "waiting", "store")
    /\ proc[call[c].held] = "starting"
    /\ proc' = [proc EXCEPT ![call[c].held] = "up"]
    /\ UNCHANGED <<specs, conns, session, of, stopping, captureVars, serviceVars, gw, closing>>

\* ... or the source died or took too long, and its group is told to end.
SpawnFailed(c) ==
    /\ Return(c, "waiting")
    /\ proc' = [proc EXCEPT ![call[c].held] = IF @ = "starting" THEN "stopping" ELSE @]
    /\ UNCHANGED <<specs, conns, session, of, stopping, captureVars, serviceVars, gw, closing>>

\* A connection is closed: a spawned source is signalled and takes the list of
\* its captures, a remote one is just left alone.
closed(i) ==
    /\ proc' = [proc EXCEPT ![i] =
                   CASE @ = "up" -> "stopping" [] @ = "remote" -> "closed" [] OTHER -> @]
    /\ stopping' = [stopping EXCEPT ![i] = {s \in tracked : at[s] = i}]

\* Mutant: the caller that comes second replaces the connection.
StoreLast(c) ==
    /\ Go(c, "store", "rpc")
    /\ conns' = [conns EXCEPT ![keyOf(call[c].src)] = call[c].held]
    /\ UNCHANGED <<specs, session, sourceVars, captureVars, serviceVars, gw, closing>>

\* ensure, second section: somebody may have been quicker; theirs is kept.
Store(c) ==
    LET k == keyOf(call[c].src) IN
    /\ call[c].pc = "store"
    /\ IF conns[k] # 0
          THEN /\ Step(c, "store", [call[c] EXCEPT !.pc = "dropping", !.held = conns[k],
                                                  !.spare = call[c].held])
               /\ closed(call[c].held)
               /\ UNCHANGED <<conns, of>>
          ELSE /\ Go(c, "store", "rpc")
               /\ conns' = [conns EXCEPT ![k] = call[c].held]
               /\ UNCHANGED sourceVars
    /\ UNCHANGED <<specs, session, captureVars, serviceVars, gw, closing>>

\* The superfluous connection is closed and its process gone: theirs is used.
Dropped(c) ==
    /\ Step(c, "dropping", [call[c] EXCEPT !.pc = "rpc", !.spare = 0])
    /\ proc[call[c].spare] \in Gone
    /\ UNCHANGED <<specs, conns, session, sourceVars, captureVars, serviceVars, gw, closing>>

\* A description is answered; a start may fail at the source, or find it gone.
Answered(c) ==
    /\ call[c].op = "start"
    /\ Return(c, "rpc")
    /\ UNCHANGED <<specs, conns, session, sourceVars, captureVars, serviceVars, gw, closing>>

\* The source begins a capture: start_capture opens a session ...
StartRpc(c) ==
    /\ call[c].op = "start" /\ call[c].pc = "rpc"
    /\ proc[call[c].held] \in Usable
    /\ \E s \in Fresh([x \in Sessions |-> IF cap[x] = "none" THEN "unused" ELSE "used"]) :
         /\ cap' = [cap EXCEPT ![s] = "running"]
         /\ at' = [at EXCEPT ![s] = call[c].held]
         /\ Step(c, "rpc", [call[c] EXCEPT !.pc = "started", !.sid = s])
    /\ UNCHANGED <<specs, conns, session, sourceVars, tracked, serviceVars, gw, closing>>

\* The source's answer arrives, unless the gateway has closed the connection.
Answers(c) ==
    /\ call[c].pc = "started"
    /\ proc[call[c].held] \notin Gone
    /\ IF proc[call[c].held] \in Usable THEN Go(c, "started", "record") ELSE Return(c, "started")

\* Mutant: the response is sent before the capture is tracked.
TrackLater(c) ==
    /\ Answers(c)
    /\ UNCHANGED <<specs, conns, session, sourceVars, cap, at, tracked, serviceVars, gw, closing>>

\* ... which the harness then tracks, before it answers.
Track(c) ==
    /\ Answers(c)
    /\ tracked' = tracked \cup {call[c].sid}
    /\ UNCHANGED <<specs, conns, session, sourceVars, cap, at, serviceVars, gw, closing>>

\* The source died with the call in progress.
StartLost(c) ==
    /\ Return(c, "started")
    /\ proc[call[c].held] \in Gone
    /\ UNCHANGED <<specs, conns, session, sourceVars, captureVars, serviceVars, gw, closing>>

\* Manager.StartCapture notes who owns the session.
Record(c) ==
    /\ Return(c, "record")
    /\ session' = [session EXCEPT ![call[c].sid] = call[c].src]
    /\ UNCHANGED <<specs, conns, sourceVars, captureVars, serviceVars, gw, closing>>

\* The capture a stop is about runs in the process the call has reached.
reached(c) == proc[call[c].held] \in Usable /\ at[call[c].sid] = call[c].held

\* The source's stop_capture takes the capture in hand.
StopRpc(c) ==
    /\ call[c].op = "stop"
    /\ Go(c, "rpc", "stopping")
    /\ reached(c) /\ cap[call[c].sid] = "running"
    /\ cap' = [cap EXCEPT ![call[c].sid] = "asked"]
    /\ UNCHANGED <<specs, conns, session, sourceVars, tracked, at, serviceVars, gw, closing>>

\* A source that does not run the capture, or has it in hand already, answers at
\* once, and untracks it.
StopIdle(c) ==
    /\ call[c].op = "stop"
    /\ Go(c, "rpc", "unmap")
    /\ proc[call[c].held] \in Usable
    /\ ~(reached(c) /\ cap[call[c].sid] = "running")
    /\ tracked' = IF reached(c) THEN tracked \ {call[c].sid} ELSE tracked
    /\ UNCHANGED <<specs, conns, session, sourceVars, cap, at, serviceVars, gw, closing>>

\* The call is answered, once stop_capture is back, with or without an exception: the
\* session is forgotten.
Unmap(c) ==
    /\ Return(c, "unmap") \/ (Return(c, "stopping") /\ cap[call[c].sid] # "asked")
    /\ session' = [session EXCEPT ![call[c].sid] = "none"]
    /\ UNCHANGED <<specs, conns, sourceVars, captureVars, serviceVars, gw, closing>>

\* The call fails without an answer: its caller gave up, before or after the source
\* took it, the source is gone, or the gateway has closed the connection.  The session
\* is forgotten all the same.
StopLost(c) ==
    /\ call[c].op = "stop"
    /\ Return(c, "rpc") \/ Return(c, "stopping")
    /\ session' = [session EXCEPT ![call[c].sid] = "none"]
    /\ UNCHANGED <<specs, conns, sourceVars, captureVars, serviceVars, gw, closing>>

-----------------------------------------------------------------------------
(* Services: a module's processes, started with its source (StartModule)   *)
(* or by a viewer (StartService).                                          *)

\* A viewer toggles a service on.
StartService(c) ==
    /\ \E k \in specs \cap Dialed : \E s \in Range(ModuleServices[k]) :
         Step(c, "idle", [Idle EXCEPT !.pc = "module", !.op = "service", !.todo = <<s>>])
    /\ UNCHANGED <<specs, conns, session, sourceVars, captureVars, serviceVars, gw, closing>>

\* Start, first section: a service that runs is left as it is.
ServiceCheck(c) ==
    /\ call[c].todo # << >>
    /\ IF running[Head(call[c].todo)] # 0
          THEN Step(c, "module", [call[c] EXCEPT !.todo = Tail(@)])
          ELSE Go(c, "module", "svcspawn")
    /\ UNCHANGED <<specs, conns, session, sourceVars, captureVars, serviceVars, gw, closing>>

\* Between the sections the process is launched ...
ServiceSpawn(c) ==
    /\ \E i \in Fresh(svc) :
         /\ svc' = [svc EXCEPT ![i] = "up"]
         /\ Step(c, "svcspawn", [call[c] EXCEPT !.pc = "svcrecord", !.held = i])
    /\ UNCHANGED <<specs, conns, session, sourceVars, captureVars, running, gw, closing>>

\* ... or fails to, which ends the call.
ServiceRefused(c) ==
    /\ Return(c, "svcspawn")
    /\ UNCHANGED <<specs, conns, session, sourceVars, captureVars, serviceVars, gw, closing>>

\* Start, second section: whatever is recorded by now is overwritten.
ServiceRecord(c) ==
    /\ Step(c, "svcrecord", [call[c] EXCEPT !.pc = "module", !.todo = Tail(@), !.held = 0])
    /\ running' = [running EXCEPT ![Head(call[c].todo)] = call[c].held]
    /\ UNCHANGED <<specs, conns, session, sourceVars, captureVars, svc, gw, closing>>

\* StartModule, or the viewer's call, is through.
ServicesUp(c) ==
    /\ call[c].todo = << >>
    /\ IF call[c].op = "service" THEN Return(c, "module") ELSE Go(c, "module", "spawn")
    /\ UNCHANGED <<specs, conns, session, sourceVars, captureVars, serviceVars, gw, closing>>

\* A viewer toggles a service off: its group is told to end.
StopService ==
    /\ gw # "exited"
    /\ \E s \in Services :
         /\ running[s] # 0
         /\ running' = [running EXCEPT ![s] = 0]
         /\ svc' = [svc EXCEPT ![running[s]] = IF @ = "up" THEN "stopping" ELSE @]
    /\ UNCHANGED <<specs, call, conns, session, sourceVars, captureVars, gw, closing>>

\* A service process ends.
ServiceExit(i) ==
    /\ svc[i] = "stopping" \/ (svc[i] = "up" /\ "service" \in MayCrash)
    /\ svc' = [svc EXCEPT ![i] = "dead"]
    /\ UNCHANGED <<specs, call, conns, session, sourceVars, captureVars, running, gw, closing>>

reaped(i) ==
    /\ gw # "exited"
    /\ svc[i] = "dead"
    /\ svc' = [svc EXCEPT ![i] = "reaped"]
    /\ running' = [s \in Services |-> IF running[s] = i THEN 0 ELSE running[s]]
    /\ UNCHANGED <<specs, call, conns, session, sourceVars, captureVars, gw, closing>>

\* Mutant: the goroutine is started with the process, before it is recorded.
ReapEarly(i) == reaped(i)

\* The goroutine Start leaves behind once it has recorded the process waits for its
\* end and unlists it, unless another one is listed by then.
ServiceReap(i) ==
    /\ \A c \in Calls : ~(call[c].pc = "svcrecord" /\ call[c].held = i)
    /\ reaped(i)

-----------------------------------------------------------------------------
(* The capture sources' own steps.                                         *)

\* stop_capture comes back, and the harness untracks the capture: closed, or, after a
\* wait that was long enough, left to its teardown.  If it raises, the capture stays
\* tracked, torn down half-way.
StopOver(s) ==
    /\ cap[s] = "asked"
    /\ proc[at[s]] \notin Gone
    /\ \E end \in {"closed", "ending", "failed"} :
         /\ cap' = [cap EXCEPT ![s] = end]
         /\ tracked' = IF end = "failed" THEN tracked ELSE tracked \ {s}
    /\ UNCHANGED <<specs, call, conns, session, sourceVars, at, serviceVars, gw, closing>>

\* A capture begins to end by itself: its watcher takes it in hand ...
SelfEnd(s) ==
    /\ cap[s] = "running"
    /\ proc[at[s]] \notin Gone
    /\ cap' = [cap EXCEPT ![s] = "ending"]
    /\ UNCHANGED <<specs, call, conns, session, sourceVars, tracked, at, serviceVars, gw, closing>>

\* ... drains and closes it, an exception ignored, and reports session_ended.
SelfEnded(s) ==
    /\ cap[s] = "ending"
    /\ proc[at[s]] \notin Gone
    /\ \E end \in {"closed", "failed"} : cap' = [cap EXCEPT ![s] = end]
    /\ tracked' = tracked \ {s}
    /\ UNCHANGED <<specs, call, conns, session, sourceVars, at, serviceVars, gw, closing>>

\* CaptureSource._shutdown: each capture on the list is stopped, as far as
\* stop_capture gets: an exception is ignored, a wait may be over too early, and one
\* that is in other hands already is not waited for ...
ShutdownStop(i) ==
    /\ proc[i] = "stopping"
    /\ \E s \in stopping[i] :
         /\ stopping' = [stopping EXCEPT ![i] = @ \ {s}]
         /\ \E end \in {"closed", "ending", "failed"} :
              cap' = [cap EXCEPT ![s] = IF @ = "running" THEN end ELSE @]
         /\ tracked' = tracked \ {s}
    /\ UNCHANGED <<specs, call, conns, session, proc, of, at, serviceVars, gw, closing>>

\* ... and the source exits.
ShutdownExit(i) ==
    /\ proc[i] = "stopping"
    /\ stopping[i] = {}
    /\ proc' = [proc EXCEPT ![i] = "exited"]
    /\ UNCHANGED <<specs, call, conns, session, of, stopping, captureVars, serviceVars, gw,
                   closing>>

\* Mutant: a source that hangs is waited for.
KillNever(i) == FALSE /\ UNCHANGED vars

\* A source may hang anywhere in its shutdown (nothing makes it go on): closeWithGrace
\* kills it when it has waited long enough.
Kill(i) ==
    /\ gw # "exited"
    /\ proc[i] = "stopping"
    /\ i \in closing \/ \E c \in Calls : call[c].spare = i
    /\ proc' = [proc EXCEPT ![i] = "killed"]
    /\ UNCHANGED <<specs, call, conns, session, of, stopping, captureVars, serviceVars, gw,
                   closing>>

\* A source dies, its captures with it; nothing tells the manager.
Crash(i) ==
    /\ \/ proc[i] \in {"starting", "up", "stopping"} /\ "spawned" \in MayCrash
       \/ proc[i] = "remote" /\ "dialed" \in MayCrash
    /\ proc' = [proc EXCEPT ![i] = "crashed"]
    /\ UNCHANGED <<specs, call, conns, session, of, stopping, captureVars, serviceVars, gw,
                   closing>>

-----------------------------------------------------------------------------
(* The gateway's shutdown: sources, then services, then the server.        *)

\* Manager.Close takes the connections ...
CloseBegin ==
    /\ gw = "up"
    /\ gw' = "closing"
    /\ closing' = {conns[s] : s \in Sources} \ {0}
    /\ conns' = [s \in Sources |-> 0]
    /\ UNCHANGED <<specs, call, session, sourceVars, captureVars, serviceVars>>

\* ... and closes each in a goroutine of its own.
CloseConn(i) ==
    /\ gw = "closing"
    /\ i \in closing
    /\ proc[i] \in Usable
    /\ closed(i)
    /\ UNCHANGED <<specs, call, conns, session, of, captureVars, serviceVars, gw, closing>>

\* All are gone, or killed after their grace period: 30 s, which the 3 min that main
\* gives the whole shutdown do not cut short.
CloseDone ==
    /\ gw = "closing"
    /\ \A i \in closing : proc[i] \in Gone
    /\ gw' = "closed"
    /\ UNCHANGED <<specs, call, conns, session, sourceVars, captureVars, serviceVars, closing>>

\* Services.Close signals what is recorded and waits for nothing.
ServicesClose ==
    /\ gw = "closed"
    /\ gw' = "stopped"
    /\ running' = [s \in Services |-> 0]
    /\ svc' = [i \in SvcProcs |->
                 IF svc[i] = "up" /\ \E s \in Services : running[s] = i THEN "stopping" ELSE svc[i]]
    /\ UNCHANGED <<specs, call, conns, session, sourceVars, captureVars, closing>>

\* The server has stopped, its calls returned or cut off.
Exit ==
    /\ gw = "stopped"
    /\ gw' = "exited"
    /\ UNCHANGED <<specs, call, conns, session, sourceVars, captureVars, serviceVars, closing>>

Rest == gw = "exited" /\ UNCHANGED vars

Handler(c) ==
    \/ Ensure(c) \/ Spawn(c) \/ SpawnRefused(c) \/ SpawnReady(c) \/ SpawnFailed(c)
    \/ Store(c) \/ Dropped(c) \/ Answered(c) \/ StartRpc(c) \/ Track(c) \/ StartLost(c)
    \/ Record(c) \/ StopRpc(c) \/ StopIdle(c) \/ Unmap(c) \/ StopLost(c)
    \/ ServiceCheck(c) \/ ServiceSpawn(c) \/ ServiceRefused(c) \/ ServiceRecord(c) \/ ServicesUp(c)

Closing == (\E i \in Conns : CloseConn(i)) \/ CloseDone \/ ServicesClose \/ Exit

\* What happens outside the gateway; the model ends with the gateway.
Environment ==
    /\ gw # "exited"
    /\ \/ \E i \in SvcProcs : ServiceExit(i)
       \/ \E s \in Sessions : StopOver(s) \/ SelfEnd(s) \/ SelfEnded(s)
       \/ \E i \in Conns : ShutdownStop(i) \/ ShutdownExit(i) \/ Crash(i)

Next ==
    \/ \E c \in Calls : Request(c) \/ StopCapture(c) \/ StartService(c) \/ Handler(c)
    \/ StopService
    \/ \E i \in SvcProcs : ServiceReap(i)
    \/ Environment
    \/ \E i \in Conns : Kill(i)
    \/ CloseBegin \/ Closing
    \/ Rest

Spec == Init /\ [][Next]_vars

\* The grace period of a source that is being closed ends, the shutdown steps follow
\* one another, and the reaper of a dead service runs.  No fairness for a call, for a
\* source's own steps, or for a service's end.
Fairness ==
    /\ WF_vars(\E i \in Conns : Kill(i))
    /\ WF_vars(\E i \in SvcProcs : ServiceReap(i))
    /\ WF_vars(Closing)

FairSpec == Spec /\ Fairness

-----------------------------------------------------------------------------
(* What the manager promises.                                              *)

\* The connections some call will yet store, or is closing.
InHand ==
    {call[c].held : c \in {d \in Calls : call[d].pc \in {"waiting", "store"}}}
    \cup {call[c].spare : c \in Calls}

\* No source is left behind by callers that raced for it: while the gateway runs,
\* every live process is the cached one for its key, or in the hands of a call
\* (ensure keeps the first and drops its own).
NoStray ==
    gw = "up" =>
        \A i \in Conns :
            proc[i] \in {"starting", "up", "remote"} => conns[of[i]] = i \/ i \in InHand

\* A stop reaches the process the capture runs in: the connection StopCapture would
\* use for a known session is the one that started it, also when two sources share it.
StopRouted ==
    \A s \in Sessions :
        (gw = "up" /\ session[s] # "none" /\ proc[at[s]] \in Usable) =>
            conns[keyOf(session[s])] = at[s]

\* A source that left in good order has stopped every capture the gateway knows, as far
\* as its stop_capture got: the harness tracks a capture before it answers for it, and
\* asks all it tracks.  What the capture came to is the tool's affair (ClosedAtExit).
KnownCapturesStopped ==
    \A s \in Sessions :
        (session[s] # "none" /\ proc[at[s]] = "exited") => cap[s] # "running"

\* Of a capture the gateway knows, the right process is asked to stop it, and one
\* that leaves has stopped it first (manager.go:377-420, source.py:128-137, 198-217).
CapturesAreStopped == TypeOK /\ StopRouted /\ KnownCapturesStopped

\* While the gateway runs, a stop that was answered leaves no capture running that is
\* then forgotten: the answer came from the process that runs it, whichever calls
\* raced for the source, or that process is gone.  A stop without an answer promises
\* nothing (manager.go:405-409, see ForgottenWhenOver).
ForgottenWhenAnswered ==
    [][\A s \in Sessions :
          (gw = "up" /\ session[s] # "none" /\ session'[s] = "none") =>
              \/ cap[s] # "running"
              \/ proc[at[s]] \notin Usable
              \/ \E c \in Calls : StopLost(c)]_vars

\* A source that hangs cannot hold up the gateway's end: closeWithGrace kills it.
ShutdownEnds == (gw = "closing") ~> (gw = "exited")

\* A service that died is not reported as running for ever.
DeadServiceUnlisted ==
    \A i \in SvcProcs, s \in Services :
        (svc[i] \in {"dead", "reaped"} /\ running[s] = i) ~> (running[s] # i \/ gw = "exited")

\* The tables follow the processes, in both directions: what still runs is forgotten
\* only by a stop that was lost, and nothing that died stays listed
\* (manager.go:393-410, services.go).
TablesFollow == ForgottenWhenAnswered /\ DeadServiceUnlisted

\* Observed: the process a second, concurrent Start launches replaces the first in
\* `running`, and nothing ends the first one any more.
NoStrayService ==
    \A i \in SvcProcs :
        svc[i] = "up" => \/ \E s \in Services : running[s] = i
                        \/ \E c \in Calls : call[c].pc = "svcrecord" /\ call[c].held = i

\* Observed: a source whose spawn was in flight when Close ran outlives the gateway.
NothingOutlives == gw = "exited" => \A i \in Conns : proc[i] \notin {"starting", "up"}

\* Observed: a source that has died stays cached, and is never started again.
NoDeadConn == \A s \in Sources : (gw = "up" /\ conns[s] # 0) => proc[conns[s]] \notin Gone

\* Observed: StopCapture forgets the session also when the call failed, and a capture
\* that still runs, or whose stop raised, can then not be stopped by the gateway.
ForgottenWhenOver ==
    [][\A s \in Sessions :
          (gw = "up" /\ session[s] # "none" /\ session'[s] = "none") =>
              cap[s] \in {"ending", "closed"} \/ proc[at[s]] \notin Usable]_vars

\* Observed: a source leaves in good order with a capture half closed: its stop raised
\* and _shutdown went on, or it was ending by itself and nobody waited for that.
ClosedAtExit ==
    \A s \in Sessions : (session[s] # "none" /\ proc[at[s]] = "exited") => cap[s] = "closed"

\* Observed: a capture that ended before the harness tracked it stays in its status.
NoGhostCapture == \A s \in tracked : cap[s] # "closed"
=============================================================================
